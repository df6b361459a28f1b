SPECIFICATION FairSpec
CONSTANTS
    Users = {u1}
    Configs <- MCConfigs
INVARIANTS
    ShutdownOnce
    NobodyLeftWaiting
    NoLeakedRequest
    WrittenWasSent
PROPERTIES
    EveryCallReturns
    LossIsNoticed
CHECK_DEADLOCK FALSE
