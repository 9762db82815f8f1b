SPECIFICATION Spec
CONSTANTS
    Channels = {c1}
    Events = {1, 2}
    MaxPending = 2
    MaxBatch = 2
    MaxRetries = 1
    DedupMode = "Queue"
    Threshold = 2
    Slots = {0, 1}
    Handling = "Steer"
    Outcomes = {"Ok", "HardTimeoutActive", "HardTimeoutSilent", "AppError", "Cancelled"}
    Tickers = {"presence"}
    MaxFaults = 2
    MaxCommands = 0
    BackstopFires = TRUE
    c1 = c1
    NoTask = NoTask
    NoBatch = NoBatch
    Heartbeat = Heartbeat
    created_at <- ReversedClocks
INVARIANTS
    UninterruptedNotLost
    EventInOnePlace
