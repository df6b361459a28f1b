SPECIFICATION FairSpec
CONSTANTS
    Msgs = {m1}
    NoMsg = NoMsg
    NumSenders = 1
    ExplicitIds = {}
    MaxUnconfirmed = 1
    BatchSize = 1
    BatchDelay = FALSE
    ConfirmTimeout = FALSE
    EnqueueTimeout = FALSE
    MayBeTooBig = FALSE
    FrameOverflow = FALSE
    Named = FALSE
    MaxFaults = 1
    MaxTrig = 1
    MayBeSilent = TRUE
    MayRefuse = FALSE
    MayDelete = FALSE
PROPERTIES
    RecoveryCompletes
CHECK_DEADLOCK FALSE
