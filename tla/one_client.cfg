SPECIFICATION SystemFairSpec
CONSTANTS
    c1 = c1
    c2 = c2
    Connection = {c1}
    NoConnection = NoConnection
    NoValue = NoValue
    Faults = {"late", "break", "storage"}
    LAST_EVENT_NUMBER = 3
    Texts <- MCNone
    Ranges <- MCNone
    MaxRequests = 0
    UserCalls <- MCSendAndCount
    MaxCalls <- MCTwoCalls
    Views <- MCBoth
INVARIANTS
    ClientTypeOK
    AckOnlyForSavedEvent
    ResponseIsExpected
    EventLoopIsClean
PROPERTIES
    EveryCallReturns
    HandlerReturns
    ExpiredExecutorLeaves
CHECK_DEADLOCK FALSE
