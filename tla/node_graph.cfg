SPECIFICATION MCSpec
CONSTANTS
  Parent = {p1, p2}
  Child = {c1,c2}
  Cascading = {c1}
  Main = main
  Branch = {b}
  Request = {r1,r2}
  MaxTime = 6
  Models <- MCModels
  UserKinds <- MCUserKinds
  Item <- MCItem
  KindOf <- MCKindOf
  Scopes <- MCScopes
  MaxChanges = 2
INVARIANTS NoDangling NoResurrection SinglePeer
PROPERTIES MergeConverges DeletionExact
SYMMETRY Symmetry
CHECK_DEADLOCK FALSE
