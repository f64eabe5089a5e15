SPECIFICATION Spec
CONSTANTS
    N = 3
    Pbufs = {1, 2, 3, 4}
    NULL = NULL
    MaxFlen = 3
    Fcs = 1
    SizeMod = 4
    LenMod = 8
    Lens = {2}
    MaxFills = 4

INVARIANT WholeFrames
CHECK_DEADLOCK FALSE
