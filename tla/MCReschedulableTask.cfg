SPECIFICATION FairSpec
CONSTANTS
    Destroyers = {d1, d2}
    MaxPosts = 3
    MayThrow = TRUE
    Free = Free
PROPERTIES
    DestroyReturns
    BacklogDrains
    ImplementsContract
CHECK_DEADLOCK FALSE
