CONSTANTS
    a = a
    b = b
    c = c
    Streams <- MCStreams
    ClientsMax = 3
    IdleTicks = 2
    MaxCreated = 3

SPECIFICATION FairSpec

INVARIANTS
    ServerInv
    NoOrphanChild
    CountIsExact

PROPERTIES
    SilentClientsOnly
    IdleClientIsReaped

CHECK_DEADLOCK FALSE
