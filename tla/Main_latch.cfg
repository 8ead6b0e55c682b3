SPECIFICATION FairSpec
CONSTANTS
  MaxNow = 1
  MaxSignals = 1
PROPERTIES TerminationAlwaysEnds
CHECK_DEADLOCK FALSE
