SPECIFICATION SendingSpec
CONSTANTS
    BlockSize = 3
    UserStart = 2
    UserEnd = 10
    SectorStart = {2, 8}
    Blank = Blank
    Zero = Zero
    Mixed = Mixed
    Conns = {c1, c2}
    NULL = NULL
    Preamble = 2
    Trailer = 1
    FileLens = {4}
    MaxSeg = 3
    MaxRetries = 2
    MaxAccepts = 2
    MaxBoots = 1
    Faults = {}

PROPERTY UploadBoots
CHECK_DEADLOCK FALSE
