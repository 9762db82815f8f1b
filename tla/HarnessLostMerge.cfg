SPECIFICATION Spec
CONSTANTS
    Channels = {c1, c2}
    Events = {1, 2, 3}
    MaxPending = 2
    MaxBatch = 2
    MaxRetries = 1
    DedupMode = "Queue"
    Threshold = 2
    Slots = {0}
    Handling = "Steer"
    Outcomes = {"Ok", "Cancelled"}
    Tickers = {"presence"}
    MaxFaults = 0
    MaxCommands = 0
    BackstopFires = FALSE
    c1 = c1
    c2 = c2
    NoTask = NoTask
    NoBatch = NoBatch
    Heartbeat = Heartbeat
    created_at <- ReversedClocks
SYMMETRY Symmetric
INVARIANTS
    NoEventLost
