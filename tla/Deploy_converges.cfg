SPECIFICATION FairSpec
CONSTANTS
    j1 = j1
    j2 = j2
    w1 = w1
    w2 = w2
    w3 = w3
    c1 = c1
    c2 = c2
    v0 = v0
    v1 = v1
    None = None
    Jobs = {j1}
    Workers = {w1, w2, w3}
    Contents = {c1, c2}
    Versions = {v0, v1}
    DefaultVersion = v0
    Edits <- Upgrade
    Options <- AllJobs
    DeploymentSeq <- Zero
    Policy <- Always
    GlobHit = {}
    MaxStarts <- Zero
    MaxUpgrades <- One
    Position <- Rank
    Reorders = {j1}
    KeepsData = {}
    Probed = {j1}
    StartKeeps = {}
    FaultKinds = {"connect", "command", "hook", "health", "sync", "crash"}
    MaxFaults = 2
    MaxDeploys = 5
    MaxEdits = 1
PROPERTY Converges
CHECK_DEADLOCK FALSE
