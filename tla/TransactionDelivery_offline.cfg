SPECIFICATION Spec
CONSTANTS
    None = None
    Starts = {s1, s2}
    Connectors = {c1}
    LocalIds = {l1, l2}
    OcppIds = {o1, o2}
    LocalAuthorizeOffline = TRUE
    StopTransactionOnInvalidId = {TRUE, FALSE}
    BootMayBeRefused = TRUE
    MaxSamples = 2
    MaxFaults = 1
    MaxRestarts = 0
SYMMETRY Interchangeable
INVARIANTS
    ReplayedMeansReceived
    ReadingsAccounted
    ReadingsInOrder
    OfflineStartsInOrder
    OfflineStopAfterReadings
PROPERTY NoSecondStart
CHECK_DEADLOCK FALSE
