CONSTANTS
    Procs = {p1, p2}
    None = None
    Jobs = {"a", "b"}
    Workers = {"w1", "w2"}
    Paths <- PathsOfJobs
    Values <- MCValues
    Empty = ""
    Keep = 0
    Demands <- MCDemands
    JobOrder <- MCOrder
    Kinds = {"build", "deploy", "cli", "gc", "health"}
    Flags <- MCFlags
    Payloads <- MCPayloads
    Says <- MCSays
    RetainDays <- MCRetain
    MaxSessions = 2
    MaxRequests = 2
    MaxDays = 1
SYMMETRY Symmetry
SPECIFICATION Spec
CHECK_DEADLOCK FALSE
INVARIANTS VersionsUnique SessionAheadOfTable SecretsSealed HealthChecksStoreNothing
PROPERTIES RefinesMap ActiveJobsKeepVars HistoryBounded ReadYourWrites
