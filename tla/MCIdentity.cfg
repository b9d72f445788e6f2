CONSTANTS
  NoOne = NoOne
  People = {p1, p2, p3}
  Externals = {tg, web}
  Browsers = {web}
  Wallets = {w1, w2}
  Keys = {}
  Memories = {m1, m2}
  SignIns = {s1, s2}
  Nonces = {n1, n2}
  Redeems = {r1, r2}
  Codes = {c1}
  Documents = {d1}
  Things <- Rows
SPECIFICATION Spec
INVARIANTS NobodyUnreachable NonceOpensOnce MemoriesFollowAuthor
SYMMETRY Symmetry
CHECK_DEADLOCK FALSE
