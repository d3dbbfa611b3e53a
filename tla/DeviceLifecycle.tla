--------------------------- MODULE DeviceLifecycle ---------------------------
(***************************************************************************)
(* DeviceLifecycleService with the three subsystems it drives: disconnect  *)
(* stops a device's recording, then its SCOPE session, then its            *)
(* acquisition worker; reconnect starts acquisition again. A command holds *)
(* the device's asyncio.Lock across its awaits; requests that do not take  *)
(* this lock (recording, SCOPE) run between them, and the coordinator's    *)
(* part of a command runs in a thread of its own.                          *)
(*                                                                         *)
(* Recording, ScopeService and Acquisition model the subsystems in full;   *)
(* here each is the state that the commands read.                          *)
(***************************************************************************)
EXTENDS Integers, Sequences

CONSTANTS
  Device,
  Command,    \* disconnect and reconnect requests, each made once
  NoDevice,
  MaxStarts   \* bound on the starts of recordings and SCOPE sessions

ASSUME LifecycleAssumption == NoDevice \notin Device /\ MaxStarts \in Nat

VARIABLES
  recording,    \* RecordingManager.is_active
  scope,        \* ScopeService.status: the state, HOLD taken with LIVE
  acquisition,  \* AcquisitionCoordinator.acquisition_status
  queue,        \* _locks: holder first, then the waiters in order
  kind, on,     \* what a command is and its device
  at,           \* where it is
  outcome,      \* what it answers
  starts,
  stopped, resumed   \* history: disconnects and reconnects that succeeded; a
                     \* device that is disconnected at first counts as stopped

subsystems == <<recording, scope, acquisition>>
commands == <<queue, kind, on, at, outcome>>
vars == <<subsystems, commands, starts, stopped, resumed>>

Init ==
  /\ recording = [d \in Device |-> FALSE]
  /\ scope = [d \in Device |-> "DISCONNECTED"]
  /\ acquisition \in [Device -> {"RUNNING", "DISCONNECTED"}]
  /\ queue = [d \in Device |-> <<>>]
  /\ kind = [c \in Command |-> "none"]
  /\ on = [c \in Command |-> NoDevice]
  /\ at = [c \in Command |-> "idle"]
  /\ outcome = [c \in Command |-> "none"]
  /\ starts = 0
  /\ stopped = [d \in Device |-> IF acquisition[d] = "DISCONNECTED" THEN 1 ELSE 0]
  /\ resumed = [d \in Device |-> 0]

-----------------------------------------------------------------------------
(* Requests and events of the subsystems, outside the lock *)
StartRecording(d) ==
  /\ ~recording[d] /\ starts < MaxStarts
  /\ recording' = [recording EXCEPT ![d] = TRUE]
  /\ starts' = starts + 1
  /\ UNCHANGED <<scope, acquisition, commands, stopped, resumed>>

RecordingEnds(d) ==   \* a stop request, or a failure of the session
  /\ recording[d]
  /\ recording' = [recording EXCEPT ![d] = FALSE]
  /\ UNCHANGED <<scope, acquisition, commands, starts, stopped, resumed>>

StartScope(d) ==
  /\ scope[d] \in {"DISCONNECTED", "ERROR"} /\ starts < MaxStarts
  /\ scope' = [scope EXCEPT ![d] = "CONNECTING"]
  /\ starts' = starts + 1
  /\ UNCHANGED <<recording, acquisition, commands, stopped, resumed>>

ScopeMoves(d) ==   \* connects, fails, or is stopped by a request
  /\ \/ scope[d] = "CONNECTING" /\ scope' = [scope EXCEPT ![d] = "LIVE"]
     \/ /\ scope[d] \in {"CONNECTING", "LIVE"}
        /\ \E s \in {"ERROR", "DISCONNECTED"} : scope' = [scope EXCEPT ![d] = s]
  /\ UNCHANGED <<recording, acquisition, commands, starts, stopped, resumed>>

-----------------------------------------------------------------------------
Kind == {"disconnect", "reconnect"}

(* A request waits for the device's lock. *)
Request(c, k, d) ==
  /\ at[c] = "idle"
  /\ kind' = [kind EXCEPT ![c] = k]
  /\ on' = [on EXCEPT ![c] = d]
  /\ at' = [at EXCEPT ![c] = "lock"]
  /\ queue' = [queue EXCEPT ![d] = Append(@, c)]
  /\ UNCHANGED <<subsystems, outcome, starts, stopped, resumed>>

HoldsLockAnyway(c) == TRUE   \* variant: there is no lock

HoldsLock(c) == Head(queue[on[c]]) = c

Answer(c, o) ==
  /\ outcome' = [outcome EXCEPT ![c] = o]
  /\ at' = [at EXCEPT ![c] = "answered"]

(* Variant: a failed command keeps the lock. *)
ReleaseOnlyOk(c) ==
  /\ at[c] = "answered"
  /\ at' = [at EXCEPT ![c] = "done"]
  /\ queue' = [queue EXCEPT ![on[c]] = IF outcome[c] = "ok" THEN Tail(@) ELSE @]
  /\ UNCHANGED <<subsystems, kind, on, outcome, starts, stopped, resumed>>

(* The coroutine ends and releases the lock. *)
Release(c) ==
  /\ at[c] = "answered"
  /\ at' = [at EXCEPT ![c] = "done"]
  /\ queue' = [queue EXCEPT ![on[c]] = Tail(@)]
  /\ UNCHANGED <<subsystems, kind, on, outcome, starts, stopped, resumed>>

(* disconnect: an active recording is stopped; a session whose stop raises is
   no longer active either. Then scope.stop() runs to its first await. *)
DisconnectBegins(c) ==
  LET d == on[c] IN
  /\ at[c] = "lock" /\ HoldsLock(c) /\ kind[c] = "disconnect"
  /\ recording' = [recording EXCEPT ![d] = FALSE]
  /\ \/ /\ at' = [at EXCEPT ![c] = "scope"]
        /\ scope' = [scope EXCEPT ![d] = "DISCONNECTED"]
        /\ UNCHANGED outcome
     \/ recording[d] /\ Answer(c, "recording failed") /\ UNCHANGED scope
  /\ UNCHANGED <<acquisition, queue, kind, on, starts, stopped, resumed>>

ScopeStopped(c) ==
  /\ at[c] = "scope"
  /\ \/ at' = [at EXCEPT ![c] = "thread"] /\ UNCHANGED outcome
     \/ Answer(c, "scope failed")
  /\ UNCHANGED <<subsystems, queue, kind, on, starts, stopped, resumed>>

ReconnectBegins(c) ==
  /\ at[c] = "lock" /\ HoldsLock(c) /\ kind[c] = "reconnect"
  /\ at' = [at EXCEPT ![c] = "thread"]
  /\ UNCHANGED <<subsystems, queue, kind, on, outcome, starts, stopped, resumed>>

(* The coordinator's check and transition, in the thread *)
NeededAny(k) == {"RUNNING", "DISCONNECTED"}   \* variant: no state is checked

Needed(k) == IF k = "disconnect" THEN {"RUNNING"} ELSE {"DISCONNECTED"}

TransitionBegins(c) ==
  LET d == on[c] IN
  /\ at[c] = "thread" /\ acquisition[d] \in Needed(kind[c])
  /\ acquisition' = [acquisition EXCEPT ![d] =
                       IF kind[c] = "disconnect" THEN "DISCONNECTING" ELSE "CONNECTING"]
  /\ at' = [at EXCEPT ![c] = "moving"]
  /\ UNCHANGED <<recording, scope, queue, kind, on, outcome, starts, stopped, resumed>>

Conflict(c) ==
  /\ at[c] = "thread" /\ acquisition[on[c]] \notin Needed(kind[c])
  /\ Answer(c, "conflict")
  /\ UNCHANGED <<subsystems, queue, kind, on, starts, stopped, resumed>>

(* A coordinator that is being stopped refuses, before it looks further. *)
ReconnectRefused(c) ==
  /\ at[c] = "thread" /\ kind[c] = "reconnect"
  /\ Answer(c, "acquisition failed")
  /\ UNCHANGED <<subsystems, queue, kind, on, starts, stopped, resumed>>

(* disconnect_device: the worker has ended, or is still alive after the join. *)
Disconnected(c) ==
  LET d == on[c] IN
  /\ at[c] = "moving" /\ kind[c] = "disconnect"
  /\ \/ /\ acquisition' = [acquisition EXCEPT ![d] = "DISCONNECTED"]
        /\ stopped' = [stopped EXCEPT ![d] = @ + 1]
        /\ Answer(c, "ok")
     \/ /\ acquisition' = [acquisition EXCEPT ![d] = "ERROR"]
        /\ Answer(c, "acquisition failed")
        /\ UNCHANGED stopped
  /\ UNCHANGED <<recording, scope, queue, kind, on, starts, resumed>>

(* reconnect_device: a qualified worker runs; no qualification leaves the
   device DISCONNECTED, a thread that does not start in ERROR. *)
Reconnected(c) ==
  LET d == on[c] IN
  /\ at[c] = "moving" /\ kind[c] = "reconnect"
  /\ \/ /\ acquisition' = [acquisition EXCEPT ![d] = "RUNNING"]
        /\ resumed' = [resumed EXCEPT ![d] = @ + 1]
        /\ Answer(c, "ok")
     \/ /\ \E s \in {"DISCONNECTED", "ERROR"} : acquisition' = [acquisition EXCEPT ![d] = s]
        /\ Answer(c, "acquisition failed")
        /\ UNCHANGED resumed
  /\ UNCHANGED <<recording, scope, queue, kind, on, starts, stopped>>

-----------------------------------------------------------------------------
CommandStep(c) ==
  \/ DisconnectBegins(c) \/ ScopeStopped(c) \/ ReconnectBegins(c)
  \/ TransitionBegins(c) \/ Conflict(c) \/ ReconnectRefused(c)
  \/ Disconnected(c) \/ Reconnected(c)
  \/ Release(c)

Next ==
  \/ \E d \in Device : StartRecording(d) \/ RecordingEnds(d) \/ StartScope(d) \/ ScopeMoves(d)
  \/ \E c \in Command :
       \/ CommandStep(c)
       \/ \E k \in Kind, d \in Device : Request(c, k, d)

Spec == Init /\ [][Next]_vars

-----------------------------------------------------------------------------
Moving(c, d) == on[c] = d /\ at[c] = "moving"

Place == {"idle", "lock", "scope", "thread", "moving", "answered", "done"}
AcquisitionState == {"RUNNING", "DISCONNECTING", "DISCONNECTED", "CONNECTING", "ERROR"}

(* Type correctness; a command that was made has its kind and its device. *)
TypeOK ==
  /\ recording \in [Device -> BOOLEAN]
  /\ scope \in [Device -> {"DISCONNECTED", "CONNECTING", "LIVE", "ERROR"}]
  /\ acquisition \in [Device -> AcquisitionState]
  /\ queue \in [Device -> Seq(Command)]
  /\ kind \in [Command -> Kind \cup {"none"}] /\ on \in [Command -> Device \cup {NoDevice}]
  /\ at \in [Command -> Place]
  /\ \A c \in Command : at[c] # "idle" => kind[c] \in Kind /\ on[c] \in Device
  /\ stopped \in [Device -> Nat] /\ resumed \in [Device -> Nat]

(* A transitional acquisition state has one command that will end it, and that
   command holds the device's lock (disconnect, reconnect). *)
TransitOwned ==
  \A d \in Device : acquisition[d] \in {"DISCONNECTING", "CONNECTING"} =>
    \E c \in Command : Moving(c, d) /\ Head(queue[d]) = c /\ \A b \in Command : Moving(b, d) => b = c

(* Commands of one device that succeed alternate: of two disconnects one is a
   conflict unless a reconnect came between them
   (tests/unit/test_device_lifecycle_conflicts.py:59). *)
CommandsAlternate ==
  \A d \in Device : acquisition[d] # "ERROR" =>
    stopped[d] - resumed[d] = IF acquisition[d] \in {"DISCONNECTED", "CONNECTING"} THEN 1 ELSE 0
=============================================================================
