SPECIFICATION FairSpec
CONSTANTS
  MaxNow = 2
  MaxSignals = 3
INVARIANTS OrderlyShutdown ExitCodeIsTruthful
PROPERTIES RecordingsFollow FailureIsNoticed TerminationEnds
CHECK_DEADLOCK FALSE
