SPECIFICATION OpsSpec
CONSTANTS
    j1 = j1
    j2 = j2
    w1 = w1
    w2 = w2
    w3 = w3
    c1 = c1
    c2 = c2
    v0 = v0
    v1 = v1
    None = None
    Jobs = {j1, j2}
    Workers = {w1, w2}
    Contents = {c1, c2}
    Versions = {v0, v1}
    DefaultVersion = v0
    Edits <- Release
    Options <- AllJobs
    DeploymentSeq <- Ranks
    Policy <- Always
    GlobHit = {}
    MaxStarts <- Zero
    MaxUpgrades <- One
    Position <- Rank
    Reorders = {}
    KeepsData = {}
    Probed = {j1, j2}
    StartKeeps = {j2}
    FaultKinds = {}
    MaxFaults = 0
    Requests <- Restarts
    Scripts <- Anywhere
    Concurrency = 1
    Commanded = {j2}
    Harms = {"none"}
    MaxDeploys = 2
    MaxEdits = 1
PROPERTY NotRefusedAfterDeploy
CHECK_DEADLOCK FALSE
