SPECIFICATION Spec
CONSTANTS
    MaxTurn = 10
    IdleTimeout = 8
    Buffer = 5
    WriteTimeout = 2
    CleanupFloor = 2
    ControlGrace = 1
    CancelWrites = 4
    MaxSetup = 7
    MaxFetch = 1
    Latency = 1
    InitialMessage = TRUE
    MaxSteers = 2
CHECK_DEADLOCK FALSE
INVARIANTS
    OrphanedOnlyByOverhead
