CONSTANTS
    Hosts = {1, 2}
    rxResetTimerMax = 1
    Objects = {1, 2}
    TxOptions = {0, 1}
    srchTimerMax = 1
    Networks = {11}
    MaxAnswers = 1

SPECIFICATION UtilitySpec

INVARIANTS
    TargetInv
    OneResampler

PROPERTIES
    ClosedForSilence
    DeadStreamReleased
    ReceptorIsFound

CHECK_DEADLOCK FALSE
