SPECIFICATION LiveSpec
CONSTANTS
    N = 3
    Pbufs = {1, 2, 3, 4}
    NULL = NULL
    MaxFlen = 3
    Fcs = 1
    SizeMod = 4
    LenMod = 8
    Lens = {2}
    MaxFills = 4

INVARIANTS TypeOK OwnedOnce DmaInRing InOrder BuffersWhole CrashOnlyEmpty
CHECK_DEADLOCK FALSE
PROPERTIES RingDrains
