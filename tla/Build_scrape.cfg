CONSTANTS
    Jobs = {"a", "b"}
    Workers = {"w1", "w2"}
    Labels = {"x", "y"}
    Resources = {"memory"}
    CertNames = {"tls"}
    Names = {"n"}
    Workspaces <- PinnedWorkspaces
    Paths <- PathsOfBuild
    Values <- MCValues
    Empty = ""
    Keep = 0
    TTL = 2
    Buffer = 1
    MaxBuilds = 2
    MaxDays = 1
    MaxCA = 2
    MaxWrites = 1
SPECIFICATION Spec
CHECK_DEADLOCK FALSE
INVARIANT EmptyJobsSkipped
