SPECIFICATION DrainSpec
CONSTANTS
    j1 = j1
    j2 = j2
    w1 = w1
    w2 = w2
    w3 = w3
    c1 = c1
    c2 = c2
    v0 = v0
    v1 = v1
    None = None
    Jobs = {j1}
    Workers = {w1, w2}
    Contents = {c1, c2}
    Versions = {v0, v1}
    DefaultVersion = v0
    Edits <- Drains
    Options <- EveryFlag
    DeploymentSeq <- Zero
    Policy <- Always
    GlobHit = {}
    MaxStarts <- Zero
    MaxUpgrades <- One
    Position <- Rank
    Reorders = {j1}
    KeepsData = {j1}
    Probed = {j1}
    StartKeeps = {}
    FaultKinds = {"connect", "stop", "cleanup", "lost", "offline", "sync", "command", "outage", "hook", "health", "gc", "crash"}
    MaxFaults = 2
    MaxDeploys = 4
    MaxEdits = 3
INVARIANTS FailedJobsRetried HashRowsTracked RemovedForgotten DrainedStaysDown NoOrphans
PROPERTY OrderlyDeploySucceeds
CHECK_DEADLOCK FALSE
