SPECIFICATION PathSpec
CONSTANTS
    Faults = {}
    Traffic <- MCTraffic
PROPERTIES
    EveryByteIsAnnounced
CHECK_DEADLOCK FALSE
