CONSTANTS
  None = None
  People = {a, b, c, d}
  Teams = {t1, t2}
  Invites = {i1, i2}
  Calls = {c1, c2}
  MaxMembers = 2
SPECIFICATION TeamsSpec
INVARIANTS TeamRules LeaversFallSilent
SYMMETRY Symmetry
CHECK_DEADLOCK FALSE
