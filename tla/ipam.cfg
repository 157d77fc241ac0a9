SPECIFICATION Spec
CONSTANTS
  Prefix = {p1, p2, p3, p4}
  Address = {a1, a2}
  Width = 3
  Network <- MCNetwork
  Host <- MCHost
  Request = {r1, r2}
  Identifier = {i1}
  Anonymous = none
  Resource = {p1}
  PoolLength = 1
  Start <- MCStart
  MaxRequests = 4

INVARIANTS TreeFollowsContainment OnePerIdentifier
PROPERTIES AllocationIsFree
SYMMETRY Symmetry
CHECK_DEADLOCK FALSE
