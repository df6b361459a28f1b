SPECIFICATION FairSpec
CONSTANTS
    Operations = {o1, o2}
    Owners = {p1}
    MaxFaults = 3
    MaxOperations = 2
INVARIANTS
    StaleOnlyByWindow
    NothingOutlives
PROPERTIES
    OperationReturns
    LocatorComesBack
CHECK_DEADLOCK FALSE
