SPECIFICATION LiveSpec
CONSTANTS
    CloseThrows = TRUE
    Reconnects = TRUE
    Unlimited = FALSE
    MaxRetries = 2
INVARIANTS
    TransportConsistent
    PhaseHasDriver
    SocketFollowsSession
    WishRespected
PROPERTIES
    ImplementsContract
    DisconnectEnds
    WantedComesOnline
