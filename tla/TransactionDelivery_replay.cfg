SPECIFICATION FairSpec
CONSTANTS
    None = None
    Starts = {s1}
    Connectors = {c1}
    LocalIds = {l1}
    OcppIds = {o1, o2, o3}
    LocalAuthorizeOffline = TRUE
    StopTransactionOnInvalidId = {TRUE, FALSE}
    BootMayBeRefused = FALSE
    MaxSamples = 2
    MaxFaults = 2
    MaxRestarts = 1
INVARIANTS
    StopsAccounted
    EvseNamesActive
PROPERTIES
    OutboxDrains
CHECK_DEADLOCK FALSE
