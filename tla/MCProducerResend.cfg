SPECIFICATION Spec
CONSTANTS
    Msgs = {m1, m2}
    NoMsg = NoMsg
    NumSenders = 1
    ExplicitIds = {}
    MaxUnconfirmed = 2
    BatchSize = 1
    BatchDelay = FALSE
    ConfirmTimeout = FALSE
    EnqueueTimeout = FALSE
    MayBeTooBig = FALSE
    FrameOverflow = FALSE
    Named = TRUE
    MaxFaults = 4
    MaxTrig = 1
    MayBeSilent = FALSE
    MayRefuse = FALSE
    MayDelete = FALSE
INVARIANTS
    RecoveryUnderWay
    ConfirmedIsStored
    UnconfirmedWasSent
    PublishedInOrder
SYMMETRY Symmetry
CHECK_DEADLOCK FALSE
