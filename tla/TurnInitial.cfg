SPECIFICATION Spec
CONSTANTS
    MaxTurn = 10
    IdleTimeout = 8
    Buffer = 7
    WriteTimeout = 1
    CleanupFloor = 1
    ControlGrace = 1
    CancelWrites = 2
    MaxSetup = 1
    MaxFetch = 1
    Latency = 1
    InitialMessage = TRUE
    MaxSteers = 2
CHECK_DEADLOCK FALSE
INVARIANTS
    BackstopAfterTurn
