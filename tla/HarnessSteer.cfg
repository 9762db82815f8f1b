SPECIFICATION FairSpec
CONSTANTS
    Channels = {c1, c2}
    Events = {1, 2, 3}
    MaxPending = 2
    MaxBatch = 2
    MaxRetries = 1
    DedupMode = "Queue"
    Threshold = 1
    Slots = {0}
    Handling = "Steer"
    Outcomes = {"Ok", "AgentExited", "Cancelled", "CancelDrainTimeout"}
    Tickers = {"presence"}
    MaxFaults = 2
    MaxCommands = 0
    BackstopFires = FALSE
    c1 = c1
    c2 = c2
    NoTask = NoTask
    NoBatch = NoBatch
    Heartbeat = Heartbeat
    created_at <- ReversedClocks
INVARIANTS
    EventInOnePlace
    AckedNeverRedispatched
    UninterruptedNotLost
    QueueBounded
PROPERTIES
    EventsSettled
