\* Two commands, a tracker and results for two, one request and two relay commands queued.
SPECIFICATION Spec
CONSTANTS
    k1 = k1
    k2 = k2
    i1 = i1
    i2 = i2
    i3 = i3
    None = None
    Keys <- MCKeys
    Ids <- MCIds
    TrackerCapacity = 2
    RequestCapacity = 1
    ResultCapacity = 2
    RelayCapacity = 1
    Actions = {"SetOff", "Toggle"}
    MaxSequence = 1
INVARIANTS
    TypeOK
    AtMostOnce
    RecordTruthful
    NoResultLeak
PROPERTIES
    CommandsAnswered
\* A channel that is locked out and a server that is stopped leave nothing to do.
CHECK_DEADLOCK FALSE
