CONSTANTS
    Senders <- MCSenders
    Requests <- MCRequests
    Redundancies = {0, 2}
    MidiLengths = {1, 3, 10}
    MidiSpace = 7

SPECIFICATION FairSpec

PROPERTY FirstStreamStarts
