----------------------------- MODULE MCTranscript -----------------------------
(* Transcript on small instances.                                              *)
EXTENDS Transcript

Symmetry == Permutations(Questions) \cup Permutations(Calls)
=============================================================================
