SPECIFICATION PathSpec
CONSTANTS
    Faults = {"split", "break"}
    Traffic <- MCTraffic
INVARIANTS
    PathTypeOK
    BytesInOrder
    NothingLeftInRawData
    NothingArrivesInSlot
PROPERTIES
    ImplementsPacketChannel
    ReaderReturns
    EveryByteIsRead
CHECK_DEADLOCK FALSE
