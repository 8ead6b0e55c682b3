SPECIFICATION SafeSpecRx
CONSTANTS
  NumChannels = 2
  Size = 4
  MaxPkt = 2
  MaxLost = 2
  Word = 16
  MaxTime = 6
INVARIANTS ChannelsKeptApart
CHECK_DEADLOCK FALSE
