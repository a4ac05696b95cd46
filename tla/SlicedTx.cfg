CONSTANTS
    Periods = {16, 64, 128, 441, 1024}
    Channels = {1, 2, 5, 64, 256}
    SampleSizes = {2, 3, 4}
    Rates = {48000, 96000, 384000}
    Units = 8
    MaxJitter = 1
    MaxLatency = 2
    MaxIndex = 17

SPECIFICATION SliceSpec

INVARIANTS
    SliceInv
    ReadsInsideTxbuf
    PlainPeriodIsSent

PROPERTIES
    LoopEnds
    PeriodIsSentOnce

CHECK_DEADLOCK FALSE
