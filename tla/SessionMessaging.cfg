SPECIFICATION LiveSpec
CONSTANTS
    Requests = {r1}
    Calls = {c1, c2}
    MaxConnections = 3
INVARIANTS
    QueueMoves
    NothingOutlivesItsConnection
    AnsweredOnceWhereItCame
PROPERTY RequestsSettle
CHECK_DEADLOCK FALSE
