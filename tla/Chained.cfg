SPECIFICATION Spec
CONSTANTS
    BlockSize = 3
    UserStart = 2
    UserEnd = 10
    SectorStart = {2, 8}
    Blank = Blank
    Zero = Zero
    Mixed = Mixed
    Conns = {c1, c2}
    NULL = NULL
    Preamble = 2
    Trailer = 1
    FileLens = {3, 4}
    MaxSeg = 4
    MaxRetries = 2
    MaxAccepts = 3
    MaxBoots = 2
    Faults = {"chain"}

INVARIANT EveryPbufTaken
CHECK_DEADLOCK FALSE
