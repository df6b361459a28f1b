SPECIFICATION FairSpec
CONSTANTS
    ChunkSize = 2
    Configs <- MCPeriodic
    InitialCredit = 1
    MaxFaults = 1
    MaxTrig = 1
    MayBeSilent = FALSE
PROPERTIES
    PersistsPeriodically
CHECK_DEADLOCK FALSE
