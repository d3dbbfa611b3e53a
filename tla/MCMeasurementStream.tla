------------------------ MODULE MCMeasurementStream ------------------------
(* Instances of MeasurementStream, and of the RuntimeStore in it, for TLC. *)
EXTENDS MeasurementStream

CONSTANTS d1

PollOf == [d \in Device |-> 1]
=============================================================================
