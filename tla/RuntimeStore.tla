---------------------------- MODULE RuntimeStore ----------------------------
(***************************************************************************)
(* RuntimeStore: the state machine, the newest sample and the counters of  *)
(* every device. Workers publish, the event loop reads; a read is also     *)
(* where a device that has gone silent becomes STALE. Every method holds   *)
(* the store's lock, so each is one step.                                  *)
(***************************************************************************)
EXTENDS Integers

CONSTANTS
  Device,
  Poll,       \* poll_interval_s of each device, in ticks of the clock
  MaxTime,    \* bound on the clock
  MaxCycles,  \* bound on the cycles published for a device
  MaxConn     \* bound on the connections a worker reports

ASSUME StoreAssumption ==
  /\ Poll \in [Device -> Nat \ {0}]
  /\ MaxTime \in Nat /\ MaxCycles \in Nat /\ MaxConn \in Nat

VARIABLES
  now,         \* the monotonic clock
  state,       \* machine.state; "unregistered" for a device not in _devices
  sampleAt,    \* last_sample_monotonic, -1 for None
  quality,     \* last_sample.quality
  valid, invalid, connections,   \* DeviceMetrics
  seen,        \* the snapshot the last get_device of the device returned
  rejected     \* some apply() raised InvalidStateTransition

vars == <<now, state, sampleAt, quality, valid, invalid, connections, seen, rejected>>

Live  == {"ONLINE", "DEGRADED"}
State == Live \cup {"STARTING", "CONNECTING", "STALE", "OFFLINE", "unregistered"}
Quality == {"VALID", "DEGRADED"}

-----------------------------------------------------------------------------
(* Variant: a failed cycle takes a live device offline. *)
TransitionsOfflineOnFailure(s, event) ==
  CASE event = "START" /\ s = "STARTING" -> "CONNECTING"
    [] event = "CYCLE_FAILED" /\ s # "STARTING" -> "OFFLINE"
    [] event = "STALE_THRESHOLD_EXCEEDED" /\ s \in Live -> "STALE"
    [] event = "COMPLETE_VALID_SAMPLE" /\ s # "STARTING" -> "ONLINE"
    [] event = "COMPLETE_DEGRADED_SAMPLE" /\ s # "STARTING" -> "DEGRADED"
    [] OTHER -> "invalid"

(* Variant: a device that is offline stays there. *)
TransitionsNoReturn(s, event) ==
  CASE event = "START" /\ s = "STARTING" -> "CONNECTING"
    [] event = "COMPLETE_VALID_SAMPLE" /\ s \notin {"STARTING", "OFFLINE"} -> "ONLINE"
    [] event = "COMPLETE_DEGRADED_SAMPLE" /\ s \notin {"STARTING", "OFFLINE"} -> "DEGRADED"
    [] event = "STALE_THRESHOLD_EXCEEDED" /\ s \in Live -> "STALE"
    [] event = "CYCLE_FAILED" /\ s \in Live -> s
    [] event = "CYCLE_FAILED" /\ s \in {"CONNECTING", "STALE", "OFFLINE"} -> "OFFLINE"
    [] OTHER -> "invalid"

(* DeviceStateMachine.apply, for the events the program sends               *)
Transitions(s, event) ==
  CASE event = "START" /\ s = "STARTING" -> "CONNECTING"
    [] event = "COMPLETE_VALID_SAMPLE" /\ s # "STARTING" -> "ONLINE"
    [] event = "COMPLETE_DEGRADED_SAMPLE" /\ s # "STARTING" -> "DEGRADED"
    [] event = "STALE_THRESHOLD_EXCEEDED" /\ s \in Live -> "STALE"
    [] event = "CYCLE_FAILED" /\ s \in Live -> s
    [] event = "CYCLE_FAILED" /\ s \in {"CONNECTING", "STALE", "OFFLINE"} -> "OFFLINE"
    [] OTHER -> "invalid"

Apply(d, event) ==
  LET next == Transitions(state[d], event) IN
    IF next = "invalid"
    THEN rejected' = TRUE /\ UNCHANGED state
    ELSE state' = [state EXCEPT ![d] = next] /\ UNCHANGED rejected

Threshold(d) == 3 * Poll[d]

-----------------------------------------------------------------------------
Init ==
  /\ now = 0
  /\ state = [d \in Device |-> "unregistered"]
  /\ sampleAt = [d \in Device |-> -1]
  /\ quality = [d \in Device |-> "VALID"]
  /\ valid = [d \in Device |-> 0]
  /\ invalid = [d \in Device |-> 0]
  /\ connections = [d \in Device |-> 0]
  /\ seen = [d \in Device |-> [state |-> "unregistered", sampleAt |-> -1, at |-> 0]]
  /\ rejected = FALSE

(* register_device refuses a device it has; the new machine has had START.  *)
RegisterDevice(d) ==
  /\ state[d] = "unregistered"
  /\ state' = [state EXCEPT ![d] = Transitions("STARTING", "START")]
  /\ UNCHANGED <<now, sampleAt, quality, valid, invalid, connections, seen, rejected>>

SetConnections(d, total) ==
  connections' = [connections EXCEPT ![d] = IF @ > total THEN @ ELSE total]

Stamp(d) == sampleAt' = [sampleAt EXCEPT ![d] = now]

PublishSample(d, q, total) ==
  /\ state[d] # "unregistered"
  /\ valid[d] + invalid[d] < MaxCycles
  /\ Stamp(d)
  /\ quality' = [quality EXCEPT ![d] = q]
  /\ valid' = [valid EXCEPT ![d] = @ + 1]
  /\ SetConnections(d, total)
  /\ Apply(d, IF q = "DEGRADED" THEN "COMPLETE_DEGRADED_SAMPLE"
                                ELSE "COMPLETE_VALID_SAMPLE")
  /\ UNCHANGED <<now, invalid, seen>>

PublishFailure(d, total) ==
  /\ state[d] # "unregistered"
  /\ valid[d] + invalid[d] < MaxCycles
  /\ invalid' = [invalid EXCEPT ![d] = @ + 1]
  /\ SetConnections(d, total)
  /\ Apply(d, "CYCLE_FAILED")
  /\ UNCHANGED <<now, sampleAt, quality, valid, seen>>

(* Variant: only an ONLINE device becomes STALE. *)
ExpiredOnline(d) == state[d] = "ONLINE" /\ now - sampleAt[d] > Threshold(d)

Expired(d) ==
  /\ sampleAt[d] # -1
  /\ now - sampleAt[d] > Threshold(d)
  /\ state[d] \in Live

(* get_device, for one caller or as part of list_devices                    *)
GetDevice(d) ==
  /\ state[d] # "unregistered"
  /\ IF Expired(d) THEN Apply(d, "STALE_THRESHOLD_EXCEEDED")
                   ELSE UNCHANGED <<state, rejected>>
  /\ seen' = [seen EXCEPT ![d] = [state |-> state'[d], sampleAt |-> sampleAt[d], at |-> now]]
  /\ UNCHANGED <<now, sampleAt, quality, valid, invalid, connections>>

Tick ==
  /\ now < MaxTime
  /\ now' = now + 1
  /\ UNCHANGED <<state, sampleAt, quality, valid, invalid, connections, seen, rejected>>

Next ==
  \/ \E d \in Device : RegisterDevice(d) \/ GetDevice(d)
  \/ \E d \in Device, q \in Quality, total \in 1..MaxConn : PublishSample(d, q, total)
  \/ \E d \in Device, total \in 0..MaxConn : PublishFailure(d, total)
  \/ Tick

Spec == Init /\ [][Next]_vars

-----------------------------------------------------------------------------
Snapshot == [state : State, sampleAt : Int, at : Nat]

(* Type correctness; a sample is never stamped in the future.               *)
TypeOK ==
  /\ now \in Nat
  /\ state \in [Device -> State]
  /\ sampleAt \in [Device -> Int]
  /\ \A d \in Device : sampleAt[d] >= -1 /\ sampleAt[d] <= now
  /\ quality \in [Device -> Quality]
  /\ valid \in [Device -> Nat] /\ invalid \in [Device -> Nat]
  /\ connections \in [Device -> Nat]
  /\ seen \in [Device -> Snapshot]
  /\ rejected \in BOOLEAN

(* A snapshot that calls a device live is about a sample that was, when the *)
(* snapshot was taken, at most three poll intervals old: however long the   *)
(* worker has been failing, no reader is told ONLINE or DEGRADED after that. *)
SnapshotHonest ==
  \A d \in Device : seen[d].state \in Live
    => seen[d].sampleAt # -1 /\ seen[d].at - seen[d].sampleAt <= Threshold(d)

(* A device that has had a sample is called STALE or OFFLINE only when that *)
(* sample is older than the threshold: single failed cycles do not do it.   *)
SilentMeansOld ==
  \A d \in Device : state[d] \in {"STALE", "OFFLINE"} /\ sampleAt[d] # -1
    => now - sampleAt[d] > Threshold(d)

(* The live state names the quality of the newest sample, over any sequence *)
(* of samples and failures: a conjunct of the inductive invariant.          *)
LiveStateNamesQuality ==
  \A d \in Device : state[d] \in Live
    => sampleAt[d] # -1 /\ (state[d] = "DEGRADED" <=> quality[d] = "DEGRADED")

(* No order of registration, samples, failures and reads meets a transition *)
(* the state machine refuses: that would raise in a worker's thread or in a *)
(* request handler.                                                         *)
NeverRejects == ~rejected
=============================================================================
