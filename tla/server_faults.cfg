SPECIFICATION ServerSpec
CONSTANTS
    Connection = {c1, c2}
    NoConnection = NoConnection
    Faults = {"split", "break", "crash"}
    LAST_EVENT_NUMBER = 3
    Texts <- MCShortTexts
    Ranges <- MCAllRows
    MaxRequests = 2
SYMMETRY MCSymmetry
INVARIANTS
    ServerTypeOK
    RegistryMatchesExecutors
    AckOnlyForSavedEvent
    SavedAtMostOnce
    NotificationsComplete
    NumbersInOrder
    HandshakeIdsDistinct
CHECK_DEADLOCK FALSE
