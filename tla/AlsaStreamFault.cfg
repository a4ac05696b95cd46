SPECIFICATION Spec
CONSTANTS
  Hosts = {1, 2}
  rxResetTimerMax = 2
  Objects = {1, 2}
CHECK_DEADLOCK FALSE
INVARIANT ResamplerAlive
