SPECIFICATION FairSpec
CONSTANT MaxAttempts = 2
INVARIANTS
    WakeAccounted
    OnePool
    NoAgentOutlivesLoop
PROPERTIES
    RetryTimerNeverSpins
    WorkWakesPool
