CONSTANTS
    Procs = {p, q}
    NoProc = NoProc
    Legacies <- MCLegacies
    MaxInits = 3
    MaxFaults = 2
SPECIFICATION Spec
CHECK_DEADLOCK FALSE
INVARIANTS GateMeansReady InitMeansGate
PROPERTIES DataSurvives IdentityKept
