SPECIFICATION Spec
CONSTANTS
    Base = 8
    Bodies = {0, 12, 13, 15, 35, 36, 39, 40}
    Requested = {0, 60}
    Limits = {0, 55, 60, 64}
    MaxMsgs = 3
    BatchSize = 2
    Strings = {0, 1, 30, 31, 32}
    MaxReference = 30
    Incoming <- MCIncoming
INVARIANTS
    NothingLostOrReordered
    RefusedOnlyForPrefix
    BrokerReadsCall
    DecodedWholeOrDropped
CHECK_DEADLOCK FALSE
