SPECIFICATION LiveSpec
CONSTANTS
    Modes = {m100F, m10H}
    Zero = m10H
    Default = m100F
    Unknown = unknown
    Packet = 2
    Room = 3
    IdMod = 4

INVARIANTS TypeOK LinkAgrees Accounted BufferFits TickPending
PROPERTIES FlapReported LinkSettles PacketsFlow
CHECK_DEADLOCK FALSE
