---------------------------- MODULE MCRecording ----------------------------
(* Instances of Recording for TLC. *)
EXTENDS Recording, TLC

CONSTANTS d1, s1, s2

Symmetry == Permutations({s1, s2})
=============================================================================
