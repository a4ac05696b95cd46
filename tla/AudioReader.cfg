CONSTANTS
    NFrames = 6
    Redundancy = 1
    MaxLate = 3
    MaxVanished = 1
    MaxSent = 24
    Channels = 2
    Lagrange = 3
    DeadPeriods = 2

SPECIFICATION ReaderSpec

INVARIANTS
    BufferInv
    NoStarvation
    NoOverflow
    PlayedInOrder
    DeadIsSilent

CHECK_DEADLOCK FALSE
