------------------------- MODULE ScopeServiceProofs -------------------------
(***************************************************************************)
(* Proofs about ScopeService for any devices, starts and calls of stop():  *)
(* no device keeps two sessions alive, a live session has what it samples  *)
(* with, and a stopped session stays stopped.                              *)
(***************************************************************************)
EXTENDS ScopeService, TLAPS

TypeOK ==
  /\ sessions \in [Device -> Runtime \cup {NoRuntime}]
  /\ device \in [Runtime -> Device \cup {NoRuntime}]
  /\ state \in [Runtime -> {"new"} \cup Active \cup Ended]
  /\ client \in [Runtime -> BOOLEAN]
  /\ event \in [Runtime -> BOOLEAN]
  /\ task \in [Runtime -> BOOLEAN]
  /\ transport \in [Runtime -> {"none", "open", "closing", "closed"}]
  /\ starter \in [Runtime -> {"idle", "connecting", "closing", "done"}]
  /\ sampler \in [Runtime -> {"none", "woken", "waiting", "sleeping", "capturing", "closing", "done"}]
  /\ cancelled \in [Runtime -> BOOLEAN]
  /\ caller \in [Stopping -> {"idle", "task", "client"}]
  /\ target \in [Stopping -> Runtime \cup {NoRuntime}]
  /\ rest \subseteq Device
  /\ closing \in {"idle", "busy", "done"}

(* A device's session is a runtime that a start created for it. *)
SessionsMatch ==
  /\ \A d \in Device : sessions[d] # NoRuntime =>
       state[sessions[d]] # "new" /\ device[sessions[d]] = d
  /\ \A d \in rest : sessions[d] # NoRuntime

(* What a runtime owns before its connect has ended *)
Unconnected(r) ==
  ~client[r] /\ ~task[r] /\ ~cancelled[r] /\ transport[r] = "none" /\ sampler[r] = "none"

Starts ==
  \A r \in Runtime :
    /\ state[r] = "new" <=> starter[r] = "idle"
    /\ state[r] = "CONNECTING" => starter[r] = "connecting"
    /\ starter[r] \in {"idle", "connecting"} => Unconnected(r)
    /\ starter[r] = "connecting" => state[r] \notin {"LIVE", "HOLD"}
    /\ starter[r] = "closing" => state[r] \in Ended
    /\ starter[r] # "idle" => device[r] \in Device

(* A task exists from the connect on; it ends, and is cancelled, only in a
   session that has ended. *)
Tasks ==
  \A r \in Runtime :
    /\ task[r] \/ cancelled[r] => sampler[r] # "none"
    /\ cancelled[r] \/ sampler[r] \in {"closing", "done"} => state[r] \in Ended

(* A stop() that waits has ended the session it waits for, and that session had
   connected. *)
Stops ==
  \A c \in Stopping : caller[c] # "idle" =>
    /\ target[c] \in Runtime /\ state[target[c]] \in Ended
    /\ starter[target[c]] \notin {"idle", "connecting"}

ScopeInv ==
  /\ TypeOK /\ SessionsMatch /\ Starts /\ Tasks /\ Stops
  /\ OneSession /\ LiveCanSample

-----------------------------------------------------------------------------
LEMMA ScopeInitInv == Init => ScopeInv
<1>. USE ScopeAssumption
<1>. QED
  BY DEF Init, ScopeInv, TypeOK, SessionsMatch, Starts, Unconnected, Tasks, Stops, OneSession,
     LiveCanSample, Active, Ended

LEMMA StartInv ==
  ASSUME ScopeInv, NEW d \in Device, NEW r \in Runtime, Start(d, r)
  PROVE  ScopeInv'
<1>. USE ScopeAssumption DEF ScopeInv, TypeOK, Active, Ended, Start, MayStart,
       callVars
<1>1. TypeOK'
  OBVIOUS
<1>2. SessionsMatch'
  BY DEF SessionsMatch, Starts
<1>3. Starts'
  BY DEF SessionsMatch, Starts, Unconnected, Tasks, Stops, OneSession
<1>4. Tasks'
  BY DEF Starts, Unconnected, Tasks, LiveCanSample
<1>5. Stops'
  BY DEF Starts, Unconnected, Stops
<1>6. OneSession'
  BY DEF SessionsMatch, Starts, OneSession
<1>7. LiveCanSample'
  BY DEF Starts, Unconnected, Tasks, Stops, LiveCanSample
<1>. QED
  BY <1>1, <1>2, <1>3, <1>4, <1>5, <1>6, <1>7

LEMMA StartingInv ==
  ASSUME ScopeInv, NEW r \in Runtime, Starting(r)
  PROVE  ScopeInv'
<1>. USE ScopeAssumption DEF ScopeInv, TypeOK, Active, Ended, Starting, ConnectFails,
       ConnectedLive, ConnectedLate, LateClosed, StillStarting, runtimeVars, callVars
<1>1. TypeOK'
  <2>1. CASE ConnectFails(r)
    BY <2>1
  <2>2. CASE ConnectedLive(r)
    BY <2>2
  <2>3. CASE ConnectedLate(r)
    BY <2>3
  <2>4. CASE LateClosed(r)
    BY <2>4
  <2>. QED
    BY <2>1, <2>2, <2>3, <2>4
<1>2. SessionsMatch'
  BY DEF SessionsMatch, Starts
<1>3. Starts'
  BY DEF SessionsMatch, Starts, Unconnected, Tasks, Stops, OneSession
<1>4. Tasks'
  BY DEF Starts, Unconnected, Tasks, LiveCanSample
<1>5. Stops'
  BY DEF Starts, Unconnected, Stops
<1>6. OneSession'
  BY DEF SessionsMatch, Starts, OneSession
<1>7. LiveCanSample'
  BY DEF Starts, Unconnected, Tasks, Stops, LiveCanSample
<1>. QED
  BY <1>1, <1>2, <1>3, <1>4, <1>5, <1>6, <1>7

LEMMA SwitchInv ==
  ASSUME ScopeInv, NEW d \in Device, Hold(d) \/ Live(d)
  PROVE  ScopeInv'
<1>. USE ScopeAssumption DEF ScopeInv, TypeOK, Active, Ended, Hold, Live, Wake, callVars
<1>1. TypeOK'
  <2>1. CASE Hold(d)
    BY <2>1
  <2>2. CASE Live(d)
    BY <2>2
  <2>. QED
    BY <2>1, <2>2
<1>2. SessionsMatch'
  BY DEF SessionsMatch, Starts
<1>3. Starts'
  BY DEF SessionsMatch, Starts, Unconnected, Tasks, Stops, OneSession
<1>4. Tasks'
  BY DEF Starts, Unconnected, Tasks, LiveCanSample
<1>5. Stops'
  BY DEF Starts, Unconnected, Stops
<1>6. OneSession'
  BY DEF SessionsMatch, Starts, OneSession
<1>7. LiveCanSample'
  BY DEF Starts, Unconnected, Tasks, Stops, LiveCanSample
<1>. QED
  BY <1>1, <1>2, <1>3, <1>4, <1>5, <1>6, <1>7

LEMMA SamplingInv ==
  ASSUME ScopeInv, NEW r \in Runtime, Sampling(r)
  PROVE  ScopeInv'
<1>. USE ScopeAssumption DEF ScopeInv, TypeOK, Active, Ended, Sampling, Woken, Slept,
       Captured, CaptureFails, FailureClosed, Cancelled, CancelLost, SamplerAt, LoopHead,
       runtimeVars, callVars
<1>1. TypeOK'
  <2>1. CASE Woken(r)
    BY <2>1
  <2>2. CASE Slept(r) \/ Captured(r)
    BY <2>2
  <2>3. CASE CaptureFails(r)
    BY <2>3
  <2>4. CASE FailureClosed(r)
    BY <2>4
  <2>5. CASE Cancelled(r) \/ CancelLost(r)
    BY <2>5
  <2>. QED
    BY <2>1, <2>2, <2>3, <2>4, <2>5
<1>2. SessionsMatch'
  BY DEF SessionsMatch, Starts
<1>3. Starts'
  BY DEF SessionsMatch, Starts, Unconnected, Tasks, Stops, OneSession
<1>4. Tasks'
  BY DEF Starts, Unconnected, Tasks, LiveCanSample
<1>5. Stops'
  BY DEF Starts, Unconnected, Stops
<1>6. OneSession'
  BY DEF SessionsMatch, Starts, OneSession
<1>7. LiveCanSample'
  BY DEF Starts, Unconnected, Tasks, Stops, LiveCanSample
<1>. QED
  BY <1>1, <1>2, <1>3, <1>4, <1>5, <1>6, <1>7

(* stop() up to its first await, of a session that was started *)
LEMMA BeginStopInv ==
  ASSUME ScopeInv, NEW c \in Stopping, caller[c] = "idle", NEW r \in Runtime, state[r] # "new",
         BeginStop(c, r), rest' \subseteq rest, closing' = closing
  PROVE  ScopeInv'
<1>. USE ScopeAssumption DEF ScopeInv, TypeOK, Active, Ended, BeginStop, TaskRuns,
       Wake, CloseClient
<1>1. TypeOK'
  <2>1. sampler' \in [Runtime -> {"none", "woken", "waiting", "sleeping", "capturing", "closing", "done"}]
    OBVIOUS
  <2>2. event' \in [Runtime -> BOOLEAN]
    OBVIOUS
  <2>3. /\ client' \in [Runtime -> BOOLEAN]
        /\ transport' \in [Runtime -> {"none", "open", "closing", "closed"}]
        /\ cancelled' \in [Runtime -> BOOLEAN]
    OBVIOUS
  <2>4. /\ caller' \in [Stopping -> {"idle", "task", "client"}]
        /\ target' \in [Stopping -> Runtime \cup {NoRuntime}]
    OBVIOUS
  <2>5. /\ state' \in [Runtime -> {"new"} \cup Active \cup Ended]
        /\ task' \in [Runtime -> BOOLEAN]
        /\ UNCHANGED <<sessions, device, starter>> /\ rest' \subseteq Device /\ closing' = closing
    OBVIOUS
  <2>. HIDE DEF BeginStop
  <2>. QED
    BY <2>1, <2>2, <2>3, <2>4, <2>5
<1>2. SessionsMatch'
  BY DEF SessionsMatch, Starts
<1>3. Starts'
  BY DEF SessionsMatch, Starts, Unconnected, Tasks, Stops, OneSession
<1>4. Tasks'
  BY DEF Starts, Unconnected, Tasks, LiveCanSample
<1>5. Stops'
  BY DEF Starts, Unconnected, Stops
<1>6. OneSession'
  BY DEF SessionsMatch, Starts, OneSession
<1>7. LiveCanSample'
  BY DEF Starts, Unconnected, Tasks, Stops, LiveCanSample
<1>. QED
  BY <1>1, <1>2, <1>3, <1>4, <1>5, <1>6, <1>7

LEMMA StopEndsInv ==
  ASSUME ScopeInv, NEW c \in Stopping, TaskEnded(c) \/ ClientClosed(c)
  PROVE  ScopeInv'
<1>. USE ScopeAssumption DEF ScopeInv, TypeOK, Active, Ended, TaskEnded, CloseClient,
       ClientClosed, runtimeVars
<1>0. target[c] \in Runtime /\ state[target[c]] \in {"DISCONNECTED", "ERROR"}
  BY DEF Stops
<1>1. TypeOK'
  <2>1. CASE TaskEnded(c)
    BY <1>0, <2>1
  <2>2. CASE ClientClosed(c)
    BY <1>0, <2>2
  <2>. QED
    BY <2>1, <2>2
<1>2. SessionsMatch'
  BY DEF SessionsMatch, Starts
<1>3. Starts'
  <2>1. UNCHANGED <<state, starter, task, cancelled, sampler, device>>
    OBVIOUS
  <2>2. starter[target[c]] \notin {"idle", "connecting"}
    BY DEF Stops
  <2>3. \A r \in Runtime : Unconnected(r) /\ r # target[c] => Unconnected(r)'
    BY <1>0, <2>1 DEF Unconnected
  <2>. QED
    BY <1>0, <2>1, <2>2, <2>3 DEF Starts
<1>4. Tasks'
  BY DEF Starts, Unconnected, Tasks, LiveCanSample
<1>5. Stops'
  BY DEF Starts, Unconnected, Stops
<1>6. OneSession'
  BY DEF SessionsMatch, Starts, OneSession
<1>7. LiveCanSample'
  BY DEF Starts, Unconnected, Tasks, Stops, LiveCanSample
<1>. QED
  BY <1>1, <1>2, <1>3, <1>4, <1>5, <1>6, <1>7

LEMMA ScopeNext == ScopeInv /\ [Next]_vars => ScopeInv'
<1>. SUFFICES ASSUME ScopeInv, [Next]_vars PROVE ScopeInv'
  OBVIOUS
<1>1. ASSUME NEW c \in Stopping, NEW d \in Device, sessions[d] # NoRuntime, caller[c] = "idle",
             BeginStop(c, sessions[d]), rest' \subseteq rest, closing' = closing
      PROVE  ScopeInv'
  <2>1. sessions[d] \in Runtime /\ state[sessions[d]] # "new"
    BY <1>1 DEF ScopeInv, TypeOK, SessionsMatch
  <2>. QED
    BY <1>1, <2>1, BeginStopInv
<1>2. ASSUME NEW d \in Device, NEW c \in Call, Stop(c, d) PROVE ScopeInv'
  BY <1>1, <1>2 DEF Stop, Stopping
<1>3. ASSUME NEW d \in Device, CloseNext(d) PROVE ScopeInv'
  BY <1>1, <1>3 DEF CloseNext, Stopping, ScopeInv, SessionsMatch
<1>4. CASE Close \/ CloseReturns \/ UNCHANGED vars
  BY <1>4 DEF Close, CloseReturns, vars, runtimeVars, callVars, ScopeInv, TypeOK, SessionsMatch,
     Starts, Unconnected, Tasks, Stops, OneSession, LiveCanSample
<1>. QED
  BY <1>2, <1>3, <1>4, StartInv, StartingInv, SwitchInv, SamplingInv, StopEndsInv DEF Next

-----------------------------------------------------------------------------
(* The inductive invariant holds in every execution. *)
THEOREM ScopeInvariant == Spec => []ScopeInv
<1>. QED
  BY ScopeInitInv, ScopeNext, PTL DEF Spec

(* start, stop: whatever start() overtakes which stop(), one runtime of a device
   connects, samples or holds, and it is the one the service knows. *)
THEOREM AlwaysOneSession == Spec => []OneSession
<1>. ScopeInv => OneSession
  BY DEF ScopeInv
<1>. QED
  BY ScopeInvariant, PTL

(* _run: a LIVE or HOLD session has an open transport and a task that samples. *)
THEOREM LiveAlwaysCanSample == Spec => []LiveCanSample
<1>. ScopeInv => LiveCanSample
  BY DEF ScopeInv
<1>. QED
  BY ScopeInvariant, PTL

(* start, _run, stop: no late connect and no late capture revives a session that
   was stopped or has failed. *)
THEOREM EndedAlwaysStaysEnded == Spec => EndedStaysEnded
<1>1. ScopeInv /\ [Next]_vars => [\A r \in Runtime : state[r] \in Ended => state'[r] \in Ended]_vars
  BY DEF Next, Start, MayStart, Starting, ConnectFails, ConnectedLive, ConnectedLate, LateClosed,
     StillStarting, Hold, Live, Wake, Sampling, Woken, Slept, Captured, CaptureFails, FailureClosed,
     Cancelled, CancelLost, SamplerAt, LoopHead, Stop, CloseNext, BeginStop, CloseClient, TaskEnded,
     ClientClosed, Close, CloseReturns, runtimeVars, callVars, vars, Active, Ended, ScopeInv, TypeOK, OneSession
<1>. QED
  BY <1>1, ScopeInvariant, PTL DEF Spec, EndedStaysEnded

(* _run: a request is sent by the LIVE session of its device only. *)
THEOREM RequestsAlwaysOnlyLive == Spec => RequestsOnlyLive
<1>1. ScopeInv /\ [Next]_vars =>
        [\A r \in Runtime : sampler[r] # "capturing" /\ sampler'[r] = "capturing" =>
           state[r] = "LIVE" /\ sessions[device[r]] = r]_vars
  BY DEF Next, Start, MayStart, Starting, ConnectFails, ConnectedLive, ConnectedLate, LateClosed,
     StillStarting, Hold, Live, Wake, Sampling, Woken, Slept, Captured, CaptureFails, FailureClosed,
     Cancelled, CancelLost, SamplerAt, LoopHead, Stop, CloseNext, BeginStop, CloseClient, TaskEnded,
     ClientClosed, Close, CloseReturns, runtimeVars, callVars, vars, Active, Ended, ScopeInv, TypeOK, OneSession
<1>. QED
  BY <1>1, ScopeInvariant, PTL DEF Spec, RequestsOnlyLive
=============================================================================
