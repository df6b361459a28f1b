SPECIFICATION Spec
CONSTANTS
    Msgs = {m1, m2}
    NoMsg = NoMsg
    NumSenders = 2
    ExplicitIds = {0}
    MaxUnconfirmed = 2
    BatchSize = 1
    BatchDelay = TRUE
    ConfirmTimeout = FALSE
    EnqueueTimeout = TRUE
    MayBeTooBig = TRUE
    FrameOverflow = TRUE
    Named = FALSE
    MaxFaults = 1
    MaxTrig = 1
    MayBeSilent = TRUE
    MayRefuse = TRUE
    MayDelete = TRUE
INVARIANTS
    HandlerAtMostOnce
    PermitsConserved
    StopResolvesEverything
PROPERTIES
    NoCallAfterStop
SYMMETRY Symmetry
CHECK_DEADLOCK FALSE
