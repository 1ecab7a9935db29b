\* Three channels, three queue slots of which one is reserved, saturation after two transitions.
SPECIFICATION Spec
CONSTANTS
    ChannelCount = 3
    Capacity = 3
    SafetyReserve = 1
    MaxSequence = 2
    Requests <- MCRequests
    BootPlans <- MCBootPlans
INVARIANTS
    TypeOK
    SnapshotTruthful
    LockoutFlagExact
    SafetyReserveHeld
PROPERTIES
    BatchAllOrNothing
    LockedNeverSwitchedOn
    FaultLatched
    SequenceCountsTransitions
