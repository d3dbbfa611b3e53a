---------------------------- MODULE ScopeService ----------------------------
(***************************************************************************)
(* ScopeService: one SCOPE session per device, run by coroutines of one    *)
(* event loop. A step runs from one await to the next, so start, stop,     *)
(* close and the request task of a session interleave at their awaits.     *)
(*                                                                         *)
(* A Runtime is one _Runtime object: every accepted start creates a new    *)
(* one. A Call is one coroutine of stop(); Closer is the one of close().   *)
(***************************************************************************)
EXTENDS Integers, FiniteSets, FiniteSetsExt

CONSTANTS
  Device,
  Runtime,         \* bound on the accepted starts
  Call,            \* bound on concurrent stop() calls
  Closer,          \* the call of close()
  NoRuntime

ASSUME ScopeAssumption == Closer \notin Call /\ NoRuntime \notin Runtime

Stopping == Call \cup {Closer}
Active == {"CONNECTING", "LIVE", "HOLD"}   \* of ScopeSessionState
Ended == {"DISCONNECTED", "ERROR"}

VARIABLES
  sessions,   \* _sessions: the runtime a device has
  device,     \* _Runtime.device_id
  state,      \* _Runtime.state, "new" before start creates it
  client,     \* _Runtime.client is not None
  event,      \* _Runtime.live_event is set
  task,       \* _Runtime.task is not None
  transport,  \* the client's WebSocket and HTTP session
  starter,    \* where start() of the runtime is
  sampler,    \* where _run() of the runtime is
  cancelled,  \* task.cancel() was called and not yet delivered
  caller,     \* where a stop() is
  target,     \* its runtime
  rest,       \* devices close() has still to stop
  closing     \* close(): "idle", "busy" or "done"

runtimeVars == <<sessions, device, state, client, event, task>>
callVars == <<caller, target, rest, closing>>
vars == <<runtimeVars, transport, starter, sampler, cancelled, callVars>>

Init ==
  /\ sessions = [d \in Device |-> NoRuntime]
  /\ device = [r \in Runtime |-> NoRuntime]
  /\ state = [r \in Runtime |-> "new"]
  /\ client = [r \in Runtime |-> FALSE]
  /\ event = [r \in Runtime |-> FALSE]
  /\ task = [r \in Runtime |-> FALSE]
  /\ transport = [r \in Runtime |-> "none"]
  /\ starter = [r \in Runtime |-> "idle"]
  /\ sampler = [r \in Runtime |-> "none"]
  /\ cancelled = [r \in Runtime |-> FALSE]
  /\ caller = [c \in Stopping |-> "idle"]
  /\ target = [c \in Stopping |-> NoRuntime]
  /\ rest = {} /\ closing = "idle"

-----------------------------------------------------------------------------
(* start() *)
MayStartAlways(d) == TRUE   \* variant: no ScopeSessionConflict

MayStart(d) == sessions[d] # NoRuntime => state[sessions[d]] \notin Active

Start(d, r) ==
  /\ state[r] = "new" /\ MayStart(d)
  /\ sessions' = [sessions EXCEPT ![d] = r]
  /\ device' = [device EXCEPT ![r] = d]
  /\ state' = [state EXCEPT ![r] = "CONNECTING"]
  /\ starter' = [starter EXCEPT ![r] = "connecting"]
  /\ UNCHANGED <<client, event, task, transport, sampler, cancelled, callVars>>

(* Variant: only the owner is looked at, not the state. *)
StillStartingUnchecked(r) == sessions[device[r]] = r

(* The session is still the one this start() created and nobody stopped it. *)
StillStarting(r) == sessions[device[r]] = r /\ state[r] = "CONNECTING"

(* client_factory raises *)
ConnectFails(r) ==
  /\ starter[r] = "connecting"
  /\ starter' = [starter EXCEPT ![r] = "done"]
  /\ state' = [state EXCEPT ![r] = IF StillStarting(r) THEN "ERROR" ELSE @]
  /\ UNCHANGED <<sessions, device, client, event, task, transport, sampler, cancelled, callVars>>

ConnectedLive(r) ==
  /\ starter[r] = "connecting" /\ StillStarting(r)
  /\ starter' = [starter EXCEPT ![r] = "done"]
  /\ transport' = [transport EXCEPT ![r] = "open"]
  /\ client' = [client EXCEPT ![r] = TRUE]
  /\ event' = [event EXCEPT ![r] = TRUE]
  /\ state' = [state EXCEPT ![r] = "LIVE"]
  /\ task' = [task EXCEPT ![r] = TRUE]
  /\ sampler' = [sampler EXCEPT ![r] = "woken"]
  /\ UNCHANGED <<sessions, device, cancelled, callVars>>

(* A session that was stopped meanwhile closes the late client. *)
ConnectedLate(r) ==
  /\ starter[r] = "connecting" /\ ~StillStarting(r)
  /\ starter' = [starter EXCEPT ![r] = "closing"]
  /\ transport' = [transport EXCEPT ![r] = "closing"]
  /\ UNCHANGED <<runtimeVars, sampler, cancelled, callVars>>

LateClosed(r) ==
  /\ starter[r] = "closing"
  /\ starter' = [starter EXCEPT ![r] = "done"]
  /\ transport' = [transport EXCEPT ![r] = "closed"]
  /\ UNCHANGED <<runtimeVars, sampler, cancelled, callVars>>

-----------------------------------------------------------------------------
(* hold() and live() *)
Hold(d) ==
  LET r == sessions[d] IN
  /\ r # NoRuntime /\ state[r] = "LIVE"
  /\ state' = [state EXCEPT ![r] = "HOLD"]
  /\ event' = [event EXCEPT ![r] = FALSE]
  /\ UNCHANGED <<sessions, device, client, task, transport, starter, sampler, cancelled, callVars>>

(* A waiter of the event is woken for good, whatever clears it before it runs. *)
Wake(r) == sampler' = [sampler EXCEPT ![r] = IF @ = "waiting" THEN "woken" ELSE @]

Live(d) ==
  LET r == sessions[d] IN
  /\ r # NoRuntime /\ state[r] = "HOLD"
  /\ state' = [state EXCEPT ![r] = "LIVE"]
  /\ event' = [event EXCEPT ![r] = TRUE]
  /\ Wake(r)
  /\ UNCHANGED <<sessions, device, client, task, transport, starter, cancelled, callVars>>

-----------------------------------------------------------------------------
(* _run() *)
(* Back at the head of the loop: leave it, or wait for the event. *)
LoopHead(r) ==
  IF state[r] \in Ended THEN "done" ELSE IF event[r] THEN "woken" ELSE "waiting"

SamplerAt(r, pc) == sampler' = [sampler EXCEPT ![r] = pc]

(* event.wait() returned; a LIVE session sleeps or sends its request at once. *)
Woken(r) ==
  /\ sampler[r] = "woken" /\ ~cancelled[r]
  /\ IF state[r] = "LIVE"
       THEN \E pc \in {"sleeping", "capturing"} : SamplerAt(r, pc)
       ELSE SamplerAt(r, LoopHead(r))
  /\ UNCHANGED <<runtimeVars, transport, starter, cancelled, callVars>>

(* Variant: it is not. *)
SleptUnchecked(r) ==
  /\ sampler[r] = "sleeping" /\ ~cancelled[r]
  /\ SamplerAt(r, "capturing")
  /\ UNCHANGED <<runtimeVars, transport, starter, cancelled, callVars>>

(* The state is looked at again after the sleep. *)
Slept(r) ==
  /\ sampler[r] = "sleeping" /\ ~cancelled[r]
  /\ SamplerAt(r, IF state[r] = "LIVE" THEN "capturing" ELSE LoopHead(r))
  /\ UNCHANGED <<runtimeVars, transport, starter, cancelled, callVars>>

(* A capture completes, whatever state the session has by then. *)
Captured(r) ==
  /\ sampler[r] = "capturing" /\ ~cancelled[r] /\ transport[r] = "open"
  /\ SamplerAt(r, LoopHead(r))
  /\ UNCHANGED <<runtimeVars, transport, starter, cancelled, callVars>>

(* Variant: the failure is noted, the state stays. *)
CaptureFailsUnnoted(r) ==
  /\ sampler[r] = "capturing" /\ ~cancelled[r] /\ transport[r] = "open"
  /\ transport' = [transport EXCEPT ![r] = "closing"]
  /\ SamplerAt(r, "closing")
  /\ UNCHANGED <<runtimeVars, starter, cancelled, callVars>>

(* capture_once raises: ERROR, and the client is closed unless somebody has
   begun that. *)
CaptureFails(r) ==
  /\ sampler[r] = "capturing" /\ ~cancelled[r]
  /\ state' = [state EXCEPT ![r] = "ERROR"]
  /\ event' = [event EXCEPT ![r] = FALSE]
  /\ IF transport[r] = "open"
       THEN /\ transport' = [transport EXCEPT ![r] = "closing"]
            /\ SamplerAt(r, "closing")
            /\ UNCHANGED client
       ELSE /\ client' = [client EXCEPT ![r] = FALSE]
            /\ SamplerAt(r, "done")
            /\ UNCHANGED transport
  /\ UNCHANGED <<sessions, device, task, starter, cancelled, callVars>>

(* client.close() of the failed session is over, or interrupted by a
   cancellation: its finally closes the HTTP session all the same. *)
FailureClosed(r) ==
  /\ sampler[r] = "closing"
  /\ transport' = [transport EXCEPT ![r] = "closed"]
  /\ client' = [client EXCEPT ![r] = FALSE]
  /\ SamplerAt(r, "done")
  /\ cancelled' = [cancelled EXCEPT ![r] = FALSE]
  /\ UNCHANGED <<sessions, device, state, event, task, starter, callVars>>

Cancelled(r) ==
  /\ cancelled[r] /\ sampler[r] \notin {"closing", "done"}
  /\ SamplerAt(r, "done")
  /\ cancelled' = [cancelled EXCEPT ![r] = FALSE]
  /\ UNCHANGED <<runtimeVars, transport, starter, callVars>>

(* asyncio.wait_for of Python 3.10 and 3.11 returns a message that arrived
   together with the cancellation, and the task goes on. *)
CancelLost(r) ==
  /\ cancelled[r] /\ sampler[r] = "capturing"
  /\ cancelled' = [cancelled EXCEPT ![r] = FALSE]
  /\ UNCHANGED <<runtimeVars, transport, starter, sampler, callVars>>

(* Variant: the client is dropped without being closed. *)
CloseClientForgets(c, r) ==
  /\ client' = [client EXCEPT ![r] = FALSE]
  /\ caller' = [caller EXCEPT ![c] = "idle"]
  /\ target' = [target EXCEPT ![c] = NoRuntime]
  /\ UNCHANGED transport

-----------------------------------------------------------------------------
(* stop(): from the end of the task to the close of the client. With no client,
   or one whose close() has begun, stop() is over. *)
CloseClient(c, r) ==
  /\ client' = [client EXCEPT ![r] = FALSE]
  /\ LET mine == client[r] /\ transport[r] = "open" IN
     /\ transport' = [transport EXCEPT ![r] = IF mine THEN "closing" ELSE @]
     /\ caller' = [caller EXCEPT ![c] = IF mine THEN "client" ELSE "idle"]
     /\ target' = [target EXCEPT ![c] = IF mine THEN r ELSE NoRuntime]

TaskRuns(r) == task[r] /\ sampler[r] # "done"

(* From the call to its first await. *)
BeginStop(c, r) ==
  /\ state' = [state EXCEPT ![r] = "DISCONNECTED"]
  /\ event' = [event EXCEPT ![r] = @ \/ sampler[r] # "none"]
  /\ Wake(r)
  /\ task' = [task EXCEPT ![r] = FALSE]
  /\ IF TaskRuns(r)
       THEN /\ cancelled' = [cancelled EXCEPT ![r] = TRUE]
            /\ caller' = [caller EXCEPT ![c] = "task"]
            /\ target' = [target EXCEPT ![c] = r]
            /\ UNCHANGED <<client, transport>>
       ELSE CloseClient(c, r) /\ UNCHANGED cancelled
  /\ UNCHANGED <<sessions, device, starter>>

Stop(c, d) ==
  /\ c \in Call /\ caller[c] = "idle" /\ sessions[d] # NoRuntime
  /\ BeginStop(c, sessions[d])
  /\ UNCHANGED <<rest, closing>>

(* await task returned *)
TaskEnded(c) ==
  /\ caller[c] = "task" /\ sampler[target[c]] = "done"
  /\ CloseClient(c, target[c])
  /\ UNCHANGED <<sessions, device, state, event, task, starter, sampler, cancelled, rest, closing>>

(* await client.close() returned or raised *)
ClientClosed(c) ==
  /\ caller[c] = "client"
  /\ transport' = [transport EXCEPT ![target[c]] = "closed"]
  /\ caller' = [caller EXCEPT ![c] = "idle"]
  /\ target' = [target EXCEPT ![c] = NoRuntime]
  /\ UNCHANGED <<runtimeVars, starter, sampler, cancelled, rest, closing>>

(* close(): stop() of every device that has a session now, one after another,
   whether one raises or not. *)
Close ==
  /\ closing = "idle"
  /\ closing' = "busy"
  /\ rest' = {d \in Device : sessions[d] # NoRuntime}
  /\ UNCHANGED <<runtimeVars, transport, starter, sampler, cancelled, caller, target>>

(* Variant: close() never takes a device off its list. *)
CloseNextKeeps(d) ==
  /\ closing = "busy" /\ caller[Closer] = "idle" /\ d \in rest
  /\ BeginStop(Closer, sessions[d])
  /\ UNCHANGED <<rest, closing>>

CloseNext(d) ==
  /\ closing = "busy" /\ caller[Closer] = "idle" /\ d \in rest
  /\ rest' = rest \ {d}
  /\ BeginStop(Closer, sessions[d])
  /\ UNCHANGED closing

CloseReturns ==
  /\ closing = "busy" /\ caller[Closer] = "idle" /\ rest = {}
  /\ closing' = "done"
  /\ UNCHANGED <<runtimeVars, transport, starter, sampler, cancelled, caller, target, rest>>

-----------------------------------------------------------------------------
Sampling(r) ==
  \/ Woken(r) \/ Slept(r) \/ Captured(r) \/ CaptureFails(r)
  \/ FailureClosed(r) \/ Cancelled(r) \/ CancelLost(r)

Starting(r) == ConnectFails(r) \/ ConnectedLive(r) \/ ConnectedLate(r) \/ LateClosed(r)

Next ==
  \/ \E d \in Device :
       \/ \E r \in Runtime : Start(d, r)
       \/ Hold(d) \/ Live(d) \/ CloseNext(d)
       \/ \E c \in Call : Stop(c, d)
  \/ \E r \in Runtime : Starting(r) \/ Sampling(r)
  \/ \E c \in Stopping : TaskEnded(c) \/ ClientClosed(c)
  \/ Close \/ CloseReturns

Spec == Init /\ [][Next]_vars

(* The event loop runs every ready coroutine; the factory, a capture and a close
   end within the time limits of the client. No user command is owed. *)
FairSpec ==
  /\ Spec
  /\ \A r \in Runtime : WF_vars(Starting(r)) /\ WF_vars(Sampling(r))
  /\ \A c \in Stopping : WF_vars(TaskEnded(c) \/ ClientClosed(c))
  /\ \A d \in Device : WF_vars(CloseNext(d))
  /\ WF_vars(CloseReturns)

-----------------------------------------------------------------------------
(* A runtime that connects, samples or holds is the session of its device: no
   start that was overtaken keeps a second session alive (start, stop). *)
OneSession ==
  \A r \in Runtime : state[r] \in Active => sessions[device[r]] = r

(* A LIVE or HOLD session can sample: it has an open transport and a task that
   runs, so "scope transport is unavailable" is never raised (_run). *)
LiveCanSample ==
  \A r \in Runtime : state[r] \in {"LIVE", "HOLD"} =>
    client[r] /\ transport[r] = "open" /\ sampler[r] \notin {"none", "closing", "done"}

(* A request is sent only by the LIVE session of a device: none in HOLD, after
   a stop, or by an older session (_run). *)
RequestsOnlyLive ==
  [][\A r \in Runtime : sampler[r] # "capturing" /\ sampler'[r] = "capturing" =>
       state[r] = "LIVE" /\ sessions[device[r]] = r]_vars

(* A session that was stopped or failed never connects, samples or holds again,
   whatever its connect and its capture still bring (start, _run, stop). *)
EndedStaysEnded ==
  [][\A r \in Runtime : state[r] \in Ended => state'[r] \in Ended]_vars

(* A stopped or failed session has no transport in the end (start, stop, _run). *)
EndedIsClosed ==
  \A r \in Runtime : state[r] \in Ended
    ~> state[r] \in Ended /\ starter[r] = "done" /\ transport[r] \in {"none", "closed"}

(* stop() and close() return (stop, close). *)
StopReturns ==
  /\ \A c \in Stopping : caller[c] # "idle" ~> caller[c] = "idle"
  /\ closing = "busy" ~> closing = "done"
=============================================================================
