SPECIFICATION UtilitiesSpec
CONSTANTS
  NumDelays = 2
  MaxFaults = 2
  MaxMessages = 2
  MaxLag = 2
  NumKeys = 4
  PageSize = 2
INVARIANTS SessionIsTruthful RetriesAreDelayed AnswersMatch StreamsOnlyConfigured
PROPERTIES EventuallyConnects EnterReturns LeaveEnds LogsAgain CorrectionsFlow
CHECK_DEADLOCK FALSE
