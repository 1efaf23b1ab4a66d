SPECIFICATION SystemSpec
CONSTANTS
    c1 = c1
    c2 = c2
    Connection = {c1, c2}
    NoConnection = NoConnection
    NoValue = NoValue
    Faults = {"crash"}
    LAST_EVENT_NUMBER = 3
    Texts <- MCNone
    Ranges <- MCNone
    MaxRequests = 0
    UserCalls <- MCShowAndRead
    MaxCalls <- MCThreeWrites
    Views <- MCWriter
INVARIANTS
    ConfirmedEventIsSaved
    RangeIsExact
    SavedEventsCanBeRead
    ReadYourWrites
PROPERTIES
    ImplementsEventLog
CHECK_DEADLOCK FALSE
