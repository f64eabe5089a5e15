SPECIFICATION LiveSpec
CONSTANTS
    N = 4
    MaxParts = 3
    MaxFrames = 5

INVARIANTS TypeOK InOrder KeptUnlessCrowded
PROPERTIES OutputReturns AllFreed
CHECK_DEADLOCK FALSE
