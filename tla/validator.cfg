SPECIFICATION FairSpec
CONSTANTS
  Exec = {e1, e2}
  NoExec = NoExec
  Check = {c1}
  MetaCheck = {c1}
  Worker = {w1, w2}
  MaxRetries = 1
  MaxFaults = 2
  MaxCrashes = 1
  MaxReruns = 1
CONSTRAINT FewDisturbances
INVARIANT CheckAccountedFor
PROPERTIES ValidatorCompletes ImplementsJob
CHECK_DEADLOCK FALSE
