\* The bounds are discussed in README.md, section 3.
CONSTANTS
    JournalCapacity = 2
    ClientSlots = {c1, c2}
    StreamSessions = {s1, s2}
    MaxEvents = 4
    NoClient = NoClient
    MaxCount = 2
    MaxGeneration = 3
    EmptySlot = EmptySlot
    TornSlot = TornSlot
    SectionCount = 3
    MaxStores = 2
    RelayCount = 2
    QueueRoom = 2
    BusAddresses = {1, 8, 10, 32, 51, 56, 128, 130}
    BusValues = {0, 2, 300}
    MaxRead = 3
    MaxWritten = 2
    NoAnswer = NoAnswer
    KnxChannels = {1, 2}
    KnxTellsAtStart = {1}
    KnxFaultObjects = {2}
    KnxInverted = {2}
    KnxCentralSwitch = {1, 2}
    KnxCentralOff = {1}
    ProfileCount = 2
    AttemptTimeout = 2
    MaxRetryDelay = 3
    ApTimeout = 2

SPECIFICATION Spec
CHECK_DEADLOCK FALSE

INVARIANTS
    TypeOK
    StreamFaithful
    CountsKept
    BundleSurvives
    ModbusAnswerExact
    ModbusOutageShown
    KnxToldState
    RetryBounded
