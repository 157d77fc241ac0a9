SPECIFICATION MCSpec
CONSTANTS
    Worker = {w1, w2}
    Files <- MCFiles
    MaxLoads = 4
    MaxFaults = 1
    Object = {n}
    Profile = {1, 2}
    Attribute = {"name", "color", "size", "secret"}
    Value = {1, 2}
    NoValue = novalue
    Missing = missing
    Default <- MCDefault
    Mandatory = {"name"}
    Hashed = {"secret"}
    Profiled = {"color", "size", "secret"}
    Key = "name"
    Payload <- MCPayload
    MaxPriority = 2
    Client = {r1, r2}
    MaxChanges = 2
    MaxLookups = 2
    MaxRounds = 3
CHECK_DEADLOCK FALSE
INVARIANTS StoredComplete FreshAgrees Processed ValuesShown
PROPERTIES UpdateExact
SYMMETRY Symmetry
CONSTRAINT Explored
