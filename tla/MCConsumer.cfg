SPECIFICATION FairSpec
CONSTANTS
    ChunkSize = 2
    Configs <- MCConfigs
    InitialCredit = 1
    MaxFaults = 4
    MaxTrig = 1
    MayBeSilent = TRUE
INVARIANTS
    OptionalsAreSet
    CursorSkipsNothing
    QuietAfterStop
PROPERTIES
    DeliveredInSequence
    StopReturns
    DeliversAll
CHECK_DEADLOCK FALSE
