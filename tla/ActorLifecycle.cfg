SPECIFICATION ActorLiveSpec
CONSTANTS
    CloseThrows = FALSE
    Reconnects = TRUE
    Unlimited = TRUE
    MaxRetries = 0
    Coroutines = {f1, f2}
    Connectors = 1
INVARIANTS
    StoppedIsSilent
    StartingIsServed
PROPERTIES
    StartingEnds
CHECK_DEADLOCK FALSE
