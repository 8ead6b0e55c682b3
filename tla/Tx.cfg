SPECIFICATION FairSpec
CONSTANTS
  Period = 3
  Chunk = 2
  Room = 5
  Delay = 2
  NumTx = 2
INVARIANTS Coherent BurstsDoNotOverlap SilentWhenMuted
PROPERTIES MuteSilences StopEnds
CHECK_DEADLOCK FALSE
