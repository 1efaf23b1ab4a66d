SPECIFICATION SessionFairSpec
CONSTANTS
    Faults = {"split", "break", "crash"}
    Connection = {c1, c2}
    Window = {w1}
    c1 = c1
    c2 = c2
    w1 = w1
    MaxInvites = 2
    NoConnection = NoConnection
    NoWindow = NoWindow
INVARIANTS
    SessionTypeOK
    ConnectedIsServed
    ConnectedMeansValid
    ButtonMatches
    ExecutorIsCurrent
PROPERTIES
    ServerForgets
    WaitingEnds
    SlotsEnd
CHECK_DEADLOCK FALSE
