CONSTANTS
  p1 = p1
  c1 = c1
  c2 = c2
  c3 = c3
  Memory = {p1, c1, c2, c3}
  Kind <- MCKind
  Rank <- MCRank
  Written <- MCWritten
  Near = {c1, p1, c2}
  Pending = {c1}
  Limit = 2
  TagLimit = 3
  Keep = 2
  Attempts = 2
  MaxFaults = 1
  MaxChanges = 2
SPECIFICATION Spec
INVARIANTS HiddenStaysOut NothingCloserLeftOut CorrectionLeads
CHECK_DEADLOCK FALSE
