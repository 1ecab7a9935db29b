CONSTANTS
    SessionDuration = 2
    FeedbackDuration = 1
    MaintenanceDuration = 1
    Qualification = 1
    Debounce = 1
    CommissioningHold = 2
    FactoryResetHold = 4
    MaxGap = 2
    Drain = 2
    Transports = {T0, T1}
    SafeTransport = T0
    Production = TRUE
    Manufactured = FALSE
SPECIFICATION Spec
INVARIANT CriticalFaultShown
