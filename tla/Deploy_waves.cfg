SPECIFICATION Spec
CONSTANTS
    j1 = j1
    j2 = j2
    w1 = w1
    w2 = w2
    w3 = w3
    c1 = c1
    c2 = c2
    v0 = v0
    v1 = v1
    None = None
    Jobs = {j1, j2}
    Workers = {w1, w2}
    Contents = {c1, c2}
    Versions = {v0, v1}
    DefaultVersion = v0
    Edits <- TwoJobs
    Options <- EveryFlag
    DeploymentSeq <- Ranks
    Policy <- Mixed
    GlobHit <- Globs
    MaxStarts <- Zero
    MaxUpgrades <- One
    Position <- Rank
    Reorders = {j1}
    KeepsData = {}
    Probed = {j1, j2}
    StartKeeps = {j2}
    FaultKinds = {"connect", "sync", "command", "outage", "hook", "health", "crash"}
    MaxFaults = 1
    MaxDeploys = 3
    MaxEdits = 1
INVARIANT FinishedJobsSkipped
PROPERTY DeployIsAsPlanned
CHECK_DEADLOCK FALSE
