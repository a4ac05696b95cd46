CONSTANTS
    Senders <- MCSenders
    Requests <- MCRequests
    Redundancies = {0, 2}
    MidiLengths = {1, 3, 10}
    MidiSpace = 7

SPECIFICATION ThreadSpec

INVARIANTS
    LocksFirstMatch
    HearsOneStream
    ReadyBeforeWrite

PROPERTIES
    NoLostWakeup
    AudioStarts
    MidiEnds
