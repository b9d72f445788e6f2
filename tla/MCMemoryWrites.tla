---------------------------- MODULE MCMemoryWrites ----------------------------
(* MemoryWrites on small instances.                                           *)
EXTENDS MemoryWrites, TLC

Symmetry == Permutations(Writes)
=============================================================================
