SPECIFICATION Spec
CONSTANTS
  Branch = {b1}
  Main = main
  Attr = {a}
  Value = {v0, v1, v2}
  FirstValue = v0
  MaxTime = 9
  MaxCrashes = 0
PROPERTIES MergeVisibleInMain
CHECK_DEADLOCK FALSE
