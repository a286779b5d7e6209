SPECIFICATION Spec
CONSTANTS
    Requests = {r1}
    Calls = {c1}
    MaxConnections = 1
INVARIANT RefusedCallsAreAnswered
CHECK_DEADLOCK FALSE
