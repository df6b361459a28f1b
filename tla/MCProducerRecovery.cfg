SPECIFICATION LiveSpec
CONSTANTS
    Msgs = {m1, m2}
    NoMsg = NoMsg
    NumSenders = 2
    ExplicitIds = {}
    MaxUnconfirmed = 1
    BatchSize = 1
    BatchDelay = FALSE
    ConfirmTimeout = TRUE
    EnqueueTimeout = FALSE
    MayBeTooBig = FALSE
    FrameOverflow = FALSE
    Named = FALSE
    MaxFaults = 1
    MaxTrig = 1
    MayBeSilent = FALSE
    MayRefuse = FALSE
    MayDelete = TRUE
PROPERTIES
    SendReturns
    StopReturns
    EventuallyReported
    RecoveryCompletes
CHECK_DEADLOCK FALSE
