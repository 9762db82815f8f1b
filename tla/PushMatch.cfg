SPECIFICATION FairSpec
CONSTANTS
    Installations = {a}
    Endpoints = {p}
    Events = {1}
    Matchers = {m, n}
    Wants <- WantsAll
    MaxGeneration = 2
    MaxMatchAttempts = 2
    MaxActiveLeases = 2
    None = None
INVARIANTS
    WakeOwed
PROPERTIES
    JobsSettle
CHECK_DEADLOCK FALSE
