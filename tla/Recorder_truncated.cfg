SPECIFICATION SafeRecorder
CONSTANTS
  NumChannels = 2
  Size = 4
  MaxPkt = 2
  MaxLost = 1
  Word = 16
  MaxTime = 6
  Block = 2
  ShortWrites = FALSE
  MaxStart = 1
INVARIANTS TruncatedFileIsClean
CHECK_DEADLOCK FALSE
