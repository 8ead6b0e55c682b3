SPECIFICATION Spec
CONSTANTS
  Period = 3
  Chunk = 2
  Room = 5
  Delay = 2
  NumTx = 2
INVARIANTS GainDownWhenMuted
CHECK_DEADLOCK FALSE
