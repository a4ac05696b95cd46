CONSTANTS
    Size = 5
    WriteSizes <- MCWriteSizes
    ReadSizes <- MCReadSizes
    MaxBytes = 16

SPECIFICATION FairSpec

INVARIANTS
    RingInv
    NoDataRace

PROPERTIES
    ImplementsFifo
    EverythingIsRead

CHECK_DEADLOCK FALSE
