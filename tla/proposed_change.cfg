SPECIFICATION Spec
CONSTANTS
  Path = {p}
  Pair = {v1, v2}
  Request = {q1}
  Requested = {"data"}
  MaxChanges = 2
  MaxRuns = 2
PROPERTIES ConflictsDecided DecisionKept DeletedBranchCancels
CHECK_DEADLOCK FALSE
