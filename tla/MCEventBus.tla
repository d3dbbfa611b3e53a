----------------------------- MODULE MCEventBus -----------------------------
(* Instances of EventBus for TLC: the worker of one device, and the recorder,
   which speaks of another. *)
EXTENDS EventBus

CONSTANTS d1, d2, worker, recorder, s1, s2

MCSpeaks == [p \in Publisher |-> IF p = worker THEN {d1} ELSE {d2}]
=============================================================================
