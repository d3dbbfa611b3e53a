--------------------------- MODULE MCAcquisition ---------------------------
(* Instances of Acquisition for TLC. *)
EXTENDS Acquisition, TLC

CONSTANTS d1, w1, w2, w3, r1

(* every worker object is created for the one device *)
DeviceMap == [w \in Worker |-> d1]

(* and they are interchangeable *)
Symmetry == Permutations(Worker)
=============================================================================
