SPECIFICATION Spec
CONSTANTS
  Exec = {e1}
  NoExec = NoExec
  Check = {c1, c2}
  MetaCheck = {c1}
  Worker = {w1, w2}
  MaxRetries = 1
  MaxFaults = 0
  MaxCrashes = 0
  MaxReruns = 0
INVARIANTS FailedCheckFailsValidator
CHECK_DEADLOCK FALSE
