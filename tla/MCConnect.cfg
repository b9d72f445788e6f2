CONSTANTS
  NoOne = NoOne
  People = {p1, p2}
  Externals = {tg, web}
  Wallets = {w1}
  Memories = {}
  Keys = {k1, k2}
  Tokens = {t1, t2}
  Things <- Tokens
  Dones = {d1, d2, d3}
SPECIFICATION Spec
INVARIANTS OwnedWasGranted SecretHasOwner CallbackInTurn
SYMMETRY Symmetry
CHECK_DEADLOCK FALSE
