SPECIFICATION SpecRecorder
CONSTANTS
  NumChannels = 2
  Size = 2
  MaxPkt = 2
  MaxLost = 1
  Word = 16
  MaxTime = 4
  Block = 2
  ShortWrites = TRUE
  MaxStart = 1
INVARIANTS FilesTimeAligned
PROPERTIES BacklogDrains WriterEnds
CHECK_DEADLOCK FALSE
