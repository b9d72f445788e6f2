-------------------------------- MODULE MCTeams --------------------------------
(* Teams on small instances.                                                   *)
EXTENDS Teams, TLC

Symmetry ==
  Permutations(People) \cup Permutations(Teams) \cup Permutations(Invites) \cup Permutations(Calls)
=============================================================================
