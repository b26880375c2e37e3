CONSTANTS
    Jobs = {"a", "b"}
    Names = {"x", "y"}
    JobRank <- MCJobRank
    NameRank <- MCNameRank
    Workspaces <- MCWorkspaces
    MaxBuilds = 3
SPECIFICATION Spec
CHECK_DEADLOCK FALSE
INVARIANT PortsUnique
PROPERTY PoolNumberKept
