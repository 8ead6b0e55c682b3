SPECIFICATION Spec
CONSTANTS
  TicksPerSec = 7
  MaxDelay = 1
  HostError = 1
  Offsets = {0, 7}
  SndBuf = 1
  SysBuf = 2
  MaxQueue = 3
  MaxFaults = 1
INVARIANTS UsrpTimeIsTrue TimeoutMeansNoPps BacklogStops SendBufferLimited ClientOutlivesUse
PROPERTIES Reconnects NeverHeldUp
CHECK_DEADLOCK FALSE
