------------------------------- MODULE MCConnect -------------------------------
(* Connect on small instances.                                                 *)
EXTENDS Connect, TLC

Symmetry ==
  Permutations(People) \cup Permutations(Externals) \cup Permutations(Keys)
    \cup Permutations(Tokens) \cup Permutations(Dones)
=============================================================================
