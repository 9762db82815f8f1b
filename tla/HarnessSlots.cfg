SPECIFICATION Spec
CONSTANTS
    Channels = {c1}
    Events = {1}
    MaxPending = 2
    MaxBatch = 2
    MaxRetries = 1
    DedupMode = "Queue"
    Threshold = 2
    Slots = {0, 1}
    Handling = "OwnerInterrupt"
    Outcomes = {"Ok", "AgentExited", "IdleTimeout", "HardTimeoutSilent", "TransportError", "AppError", "AuthError", "Cancelled"}
    Tickers = {"heartbeat", "presence"}
    MaxFaults = 2
    MaxCommands = 2
    BackstopFires = FALSE
    c1 = c1
    NoTask = NoTask
    NoBatch = NoBatch
    Heartbeat = Heartbeat
    created_at <- ReversedClocks
INVARIANTS
    TypeOK
    SlotExclusive
    CircuitClosedWhileLive
    InFlightAccounted
    HeartbeatAccounted
    RemovedSessionsStripped
