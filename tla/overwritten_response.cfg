SPECIFICATION SystemSpec
CONSTANTS
    c1 = c1
    c2 = c2
    Connection = {c1, c2}
    NoConnection = NoConnection
    NoValue = NoValue
    Faults = {"reuse"}
    LAST_EVENT_NUMBER = 3
    Texts <- MCNone
    Ranges <- MCNone
    MaxRequests = 0
    UserCalls <- MCSendAndRead
    MaxCalls <- MCTwoWrites
    Views <- MCNone
INVARIANTS
    RangeIsExact
CHECK_DEADLOCK FALSE
