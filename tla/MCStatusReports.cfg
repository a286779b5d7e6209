SPECIFICATION ReportsSpec
CONSTANTS
    c1 = c1
    None = None
    Connectors = {c1}
    Starts = {s1, s2}
    LocalAuthorizeOffline = TRUE
    StopTransactionOnInvalidId = TRUE
    MaxFlights = 2
    ConnectorIds <- OneConnector
INVARIANTS
    ShownAsItIs
    RunningIsShown
    ToldAsItIs
    LastCommandDecides
    OnlyOfflineEndsForget
PROPERTY NeverInterrupted
CHECK_DEADLOCK FALSE
