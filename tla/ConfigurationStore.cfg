\* Three configurations, one web client, generations up to 3.
SPECIFICATION Spec
CONSTANTS
    c1 = c1
    c2 = c2
    c3 = c3
    Configs <- MCConfigs
    DefaultConfig = c1
    MaxGeneration = 3
    Clients = {web}
    NoRecord = NoRecord
SYMMETRY MCSymmetry
INVARIANTS
    TypeOK
    GenerationNamesConfiguration
PROPERTIES
    RecordSurvives
    ContractKept
