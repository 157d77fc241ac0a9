CONSTANTS
  Main = main
  Branch = {b}
  Valid = {b}
  NoCommit = 0
  MaxCommits = 4
  MaxRequests = 2
  MaxFailures = 1
  MaxTries = 1
SPECIFICATION Spec
INVARIANTS GraphCommitPublished
PROPERTIES GraphCommitForward SyncConverges
CHECK_DEADLOCK FALSE
