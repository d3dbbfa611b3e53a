-------------------------- MODULE MCDeviceConnector --------------------------
(* Small instances of DeviceConnector for TLC. The id of target "a" is taken by
   a fixed device, so it becomes "a-2", which is also the name of a target. *)
EXTENDS DeviceConnector, Sequences, TLC

CONSTANTS c1, c2, c3

D(i, n, h) == [id |-> i, name |-> n, host |-> h]
T(n, h) == [name |-> n, host |-> h]

FixedDevices == {D("a", "lab", "10.0.0.5")}
Targets == {T("a", "a.local"), T("a", "a.LOCAL"), T("a-2", "a-2.local"), T("10.0.0.5", "10.0.0.5")}

(* Empty, or written before the fixed device took the id "a" *)
Files == {{}, {D("a", "a", "a.local")}, {D("b", "b", "b.local")}}
MCSuffixed(base, k) == base \o "-" \o ToString(k)

Symmetry == Permutations(Attempt)
=============================================================================
