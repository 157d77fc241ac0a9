CONSTANTS
  Name = {"x", "y"}
  Ref = {r1, r2}
  Files <- MCFiles
  MaxMoves = 1
  MaxRequests = 1
  MaxTries = 1
  MaxFailures = 1
  Input = {t, i, p}
  Target = {t}
  Profile = {p}
  Definitions = {"artifact", "generator"}
  NoValue = novalue
  MaxEdits = 2
  MaxJobs = 2
  MaxSent = 2
  MaxErrors = 1
SPECIFICATION MCSpec
INVARIANTS ImportMatches OneInstance
PROPERTIES OutdatedSelected RenderedReady
SYMMETRY Symmetry
CHECK_DEADLOCK FALSE
