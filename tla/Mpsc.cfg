\* Three producers, two pushes each, on four slots: `used' passes N, tickets
\* wrap around, pushes are refused.
SPECIFICATION Spec
CONSTANTS
  Producers = {p1, p2, p3}
  N = 4
  MaxPush = 2
  None = None
INVARIANTS SlotsExclusive PopsInTicketOrder
PROPERTIES RefusedOnlyWhenNearlyFull ImplementsFifo
