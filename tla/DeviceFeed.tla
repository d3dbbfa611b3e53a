----------------------------- MODULE DeviceFeed -----------------------------
(***************************************************************************)
(* What the acquisition layer promises to everything behind it: for every  *)
(* device there is at most one owner of its Modbus link at any time, only  *)
(* the owner produces samples, and the samples of a device carry strictly  *)
(* increasing cycle ids, whichever owner read them.                        *)
(***************************************************************************)
EXTENDS Integers

CONSTANTS Device, Worker, NoWorker

VARIABLES owner,   \* the worker that owns the link of each device, or NoWorker
          last     \* cycle id of the newest sample of each device

feedVars == <<owner, last>>

Init == /\ owner = [d \in Device |-> NoWorker]
        /\ last = [d \in Device |-> 0]

(* start() and stop() move every device in one step, so the next-state        *)
(* relation says how each device may move and lets them move together.      *)
Acquire(d) == owner[d] = NoWorker /\ owner'[d] # NoWorker /\ last'[d] = last[d]
Release(d) == owner[d] # NoWorker /\ owner'[d] = NoWorker /\ last'[d] = last[d]
Sample(d)  == owner[d] # NoWorker /\ owner'[d] = owner[d] /\ last'[d] > last[d]

(* A device connected at run time starts with the sample that qualified it. *)
Enrol(d) == owner[d] = NoWorker /\ last[d] = 0 /\ last'[d] = 1

Idle(d) == owner'[d] = owner[d] /\ last'[d] = last[d]

Next == /\ owner' \in [Device -> Worker \cup {NoWorker}]
        /\ last' \in [Device -> Nat]
        /\ \A d \in Device :
             Acquire(d) \/ Release(d) \/ Sample(d) \/ Enrol(d) \/ Idle(d)

FeedSpec == Init /\ [][Next]_feedVars
=============================================================================
