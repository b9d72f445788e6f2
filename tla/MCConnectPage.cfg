CONSTANTS
  PageWallets = {w1, w2}
  Attempts = 3
  Polls = 2
  Confirms = 2
  MaxFaults = 3
SPECIFICATION PageSpec
INVARIANTS PageIsTrue
PROPERTIES ConfirmedAtLast
CHECK_DEADLOCK FALSE
