\* Two threads log two messages each into two slots.
SPECIFICATION SpecLogger
CONSTANTS
  Producers = {p1, p2}
  N = 2
  MaxPush = 2
  None = None
INVARIANTS
  OneConsumer
  WrittenInOrder
PROPERTIES
  MessageIsWritten
  DestructorReturns
\* A destroyed logger takes no step.
CHECK_DEADLOCK FALSE
