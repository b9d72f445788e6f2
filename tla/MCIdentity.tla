------------------------------ MODULE MCIdentity ------------------------------
(* Identity on small instances.                                               *)
EXTENDS Identity, TLC

Rows == SignIns \cup Codes \cup Documents

Symmetry ==
  Permutations(People) \cup Permutations(Wallets) \cup Permutations(Memories)
    \cup Permutations(SignIns) \cup Permutations(Nonces) \cup Permutations(Redeems)
=============================================================================
