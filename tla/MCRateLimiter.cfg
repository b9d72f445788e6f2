CONSTANTS
  Callers = {c1, c2, c3}
  Capacity = 2
  Window = 3
  Grace = 1
  Concurrency = 2
  Tries = 2
  MaxTimers = 4
SPECIFICATION FairSpec
INVARIANTS SlotsAccounted WindowBudget WakeupPending OnePlace
PROPERTIES EveryCallReturns ServesInOrder
CHECK_DEADLOCK FALSE
