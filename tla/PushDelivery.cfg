SPECIFICATION FairSpec
CONSTANTS
    Wakes = {w}
    Workers = {k, l}
    Replicas = 2
    MaxGeneration = 2
    MaxAttempts = 2
    MaxFaults = 1
    None = None
INVARIANTS
    OneAcceptedPerReservation
    DisabledWasInvalid
PROPERTIES
    SettledStays
    WakeSettles
CHECK_DEADLOCK FALSE
