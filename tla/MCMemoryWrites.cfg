CONSTANTS
  Writes = {w1, w2}
  Attempts = 2
  Faults = 1
  Forgets = 1
SPECIFICATION FairSpec
INVARIANTS RowsAreTrue RecallableIsTracked
PROPERTIES RowSettlesOnce ToldSettles
CHECK_DEADLOCK FALSE
