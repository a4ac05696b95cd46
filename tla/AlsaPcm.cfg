CONSTANTS
    nfrag = 3
    MaxFaults = 2

SPECIFICATION Spec

INVARIANTS
    WaitedMeansReady
    DelayIsBounded
    OpenMeansReady

PROPERTIES
    StoppedIsRestarted
