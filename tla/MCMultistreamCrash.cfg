CONSTANTS
    a = a
    b = b
    c = c
    Streams <- MCStreams
    ClientsMax = 2
    IdleTicks = 4
    MaxCreated = 4

SPECIFICATION Spec

INVARIANT SearchStaysInList

CHECK_DEADLOCK FALSE
