SPECIFICATION SafePreview
CONSTANTS
  NumChannels = 2
  Size = 4
  MaxPkt = 2
  MaxLost = 2
  Word = 16
  MaxTime = 6
  PubSamples = 2
INVARIANTS WindowIsIntact ChannelsAligned PreviewIsBlock
CHECK_DEADLOCK FALSE
