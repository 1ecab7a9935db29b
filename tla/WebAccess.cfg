CONSTANTS
    UserIds = {1, 2}
    SessionSlots = {S1, S2}
    Identities = {I1, I2}
    QueueCapacity = 1
    Production = FALSE
    NoIdentity = NoIdentity
    NoRecord = NoRecord
    Corrupt = Corrupt
    NoSession = NoSession
SYMMETRY Symmetry
SPECIFICATION Spec
INVARIANTS
    TypeOK
    AdministratorKept
    SessionsCurrent
    ErasedStaysErased
    ProvisionedUsable
PROPERTIES
    IdentityPreserved
    OnlyAdministratorsPromote
