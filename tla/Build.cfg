CONSTANTS
    Jobs = {"a", "b"}
    Workers = {"w1", "w2"}
    Labels = {"x", "y"}
    Resources = {"memory"}
    CertNames = {"tls"}
    Names = {"n"}
    Workspaces <- MCWorkspaces
    Paths <- PathsOfBuild
    Values <- MCValues
    Empty = ""
    Keep = 0
    TTL = 2
    Buffer = 1
    MaxBuilds = 3
    MaxDays = 1
    MaxCA = 2
    MaxWrites = 1
SPECIFICATION Spec
CHECK_DEADLOCK FALSE
INVARIANTS SeqRespectsDemands ResourcesFit NothingLeftBehind ScrapeTargetsExact
PROPERTIES CertsValid RebuildChangesNothing
