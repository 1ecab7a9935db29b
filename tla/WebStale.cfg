\* Two commands, and room for a command of another source between them.
SPECIFICATION Spec
CONSTANTS
    k1 = k1
    k2 = k2
    i1 = i1
    i2 = i2
    i3 = i3
    None = None
    Keys <- MCKeys
    Ids <- MCIds
    TrackerCapacity = 2
    RequestCapacity = 1
    ResultCapacity = 2
    RelayCapacity = 2
    Actions = {"SetOff", "Toggle"}
    MaxSequence = 2
PROPERTY StaleWritePrevented
CHECK_DEADLOCK FALSE
