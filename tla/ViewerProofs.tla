---------------------------- MODULE ViewerProofs ----------------------------
(***************************************************************************)
(* Proofs about DeviceLifecycle and Viewer for any devices and commands.   *)
(* First the lifecycle alone: the inductive invariant says who waits for   *)
(* and who holds a device's lock: a command that is past it is the first   *)
(* of the queue, so no two commands of a device are in their awaits        *)
(* together, and the state one of them has set is there when it goes on.   *)
(* Then the program: the lock discipline survives its start and shutdown,  *)
(* and a program that has ended has left nothing behind that nobody knows  *)
(* of.                                                                     *)
(***************************************************************************)
EXTENDS Viewer, SequenceTheorems, TLAPS

PastLock == {"scope", "thread", "moving", "answered"}
Transit == {"DISCONNECTING", "CONNECTING"}

(* A command that was made and has not ended is in its device's queue, and  *)
(* first in it once it has the lock.                                        *)
Queued(q, c) == \E i \in 1 .. Len(q) : q[i] = c
LockOrder ==
  /\ \A c \in Command : at[c] \notin {"idle", "done"} => Queued(queue[on[c]], c)
  /\ \A c \in Command : at[c] \in PastLock => Head(queue[on[c]]) = c

(* Somebody moves a device that is in transit; who moves one finds the state *)
(* that was set when it began.                                               *)
TransitKnown ==
  \A d \in Device : acquisition[d] \in Transit => \E c \in Command : Moving(c, d)
MoversMatch ==
  \A c \in Command : at[c] = "moving" =>
    acquisition[on[c]] = IF kind[c] = "disconnect" THEN "DISCONNECTING" ELSE "CONNECTING"

LockInv == TypeOK /\ LockOrder /\ TransitKnown
LifecycleInv == LockInv /\ MoversMatch /\ CommandsAlternate

-----------------------------------------------------------------------------
LEMMA LockInit == Init => LockInv
BY DEF Init, LockInv, TypeOK, LockOrder, TransitKnown, Transit, PastLock, Place, AcquisitionState

(* Two commands of a device that are past its lock are one.                 *)
LEMMA OneHolder ==
  ASSUME LockInv, NEW b \in Command, NEW c \in Command,
         at[b] \in PastLock, at[c] \in PastLock, on[b] = on[c]
  PROVE  b = c
BY DEF LockInv, LockOrder

LEMMA LockGivesOwner == LockInv => TransitOwned
<1>. SUFFICES ASSUME LockInv, NEW d \in Device, acquisition[d] \in Transit
              PROVE  \E c \in Command : /\ Moving(c, d) /\ Head(queue[d]) = c
                                        /\ \A b \in Command : Moving(b, d) => b = c
  BY DEF TransitOwned, Transit
<1>1. PICK c \in Command : Moving(c, d)
  BY DEF LockInv, TransitKnown
<1>2. Head(queue[d]) = c
  BY <1>1 DEF LockInv, LockOrder, Moving, PastLock
<1>3. \A b \in Command : Moving(b, d) => b = c
  BY <1>1, OneHolder DEF Moving, PastLock
<1>. QED
  BY <1>1, <1>2, <1>3

-----------------------------------------------------------------------------
(* The steps of a command between taking the lock and answering             *)
Advances(c) ==
  /\ \/ at[c] = "lock" /\ HoldsLock(c)
     \/ at[c] \in PastLock
  /\ \E p \in PastLock : at' = [at EXCEPT ![c] = p]
  /\ UNCHANGED <<queue, kind, on>>

LEMMA CommandAdvances ==
  ASSUME LockInv, NEW c \in Command,
         \/ DisconnectBegins(c) \/ ScopeStopped(c) \/ ReconnectBegins(c)
         \/ TransitionBegins(c) \/ Conflict(c) \/ ReconnectRefused(c)
         \/ Disconnected(c) \/ Reconnected(c)
  PROVE  Advances(c)
BY DEF Advances, DisconnectBegins, ScopeStopped, ReconnectBegins, TransitionBegins, Conflict,
   ReconnectRefused, Disconnected, Reconnected, Answer, PastLock, commands, subsystems

LEMMA TypeNext == LockInv /\ [Next]_vars => TypeOK'
<1>. SUFFICES ASSUME LockInv, [Next]_vars PROVE TypeOK'
  OBVIOUS
<1>. USE DEF LockInv, TypeOK, Place, AcquisitionState, Kind, commands, subsystems
<1>1. ASSUME NEW d \in Device,
             StartRecording(d) \/ RecordingEnds(d) \/ StartScope(d) \/ ScopeMoves(d)
      PROVE  TypeOK'
  <2>1. CASE StartRecording(d) \/ RecordingEnds(d)
    BY <2>1 DEF StartRecording, RecordingEnds
  <2>2. CASE StartScope(d)
    BY <2>2 DEF StartScope
  <2>3. CASE ScopeMoves(d)
    BY <2>3, ZenonT(60) DEF ScopeMoves
  <2>. QED
    BY <1>1, <2>1, <2>2, <2>3
<1>2. ASSUME NEW c \in Command, NEW k \in Kind, NEW d \in Device, Request(c, k, d)
      PROVE  TypeOK'
  BY <1>2 DEF Request
<1>3. ASSUME NEW c \in Command, DisconnectBegins(c) \/ ScopeStopped(c) \/ ReconnectBegins(c)
      PROVE  TypeOK'
  BY <1>3, ZenonT(60) DEF DisconnectBegins, ScopeStopped, ReconnectBegins, Answer
<1>4. ASSUME NEW c \in Command, TransitionBegins(c) \/ Conflict(c) \/ ReconnectRefused(c)
      PROVE  TypeOK'
  BY <1>4, ZenonT(60) DEF TransitionBegins, Conflict, ReconnectRefused, Answer
<1>5. ASSUME NEW c \in Command, Disconnected(c) \/ Reconnected(c) PROVE TypeOK'
  <2>1. at[c] = "moving" /\ on[c] \in Device
    BY <1>5 DEF Disconnected, Reconnected
  <2>2. acquisition' \in [Device -> AcquisitionState]
    BY <1>5 DEF Disconnected, Reconnected
  <2>3. /\ stopped' \in {stopped, [stopped EXCEPT ![on[c]] = @ + 1]}
        /\ resumed' \in {resumed, [resumed EXCEPT ![on[c]] = @ + 1]}
    BY <1>5 DEF Disconnected, Reconnected
  <2>4. at' \in [Command -> Place] /\ \A b \in Command : at'[b] # "idle" => at[b] # "idle"
    BY <1>5, <2>1 DEF Disconnected, Reconnected, Answer
  <2>5. stopped' \in [Device -> Nat] /\ resumed' \in [Device -> Nat]
    <3>1. stopped[on[c]] + 1 \in Nat /\ resumed[on[c]] + 1 \in Nat
      BY <2>1
    <3>. QED
      BY <2>3, <3>1, SMTT(30)
  <2>6. UNCHANGED <<recording, scope, queue, kind, on>>
    BY <1>5 DEF Disconnected, Reconnected
  <2>. QED
    BY <2>2, <2>3, <2>4, <2>5, <2>6
<1>6. CASE UNCHANGED vars
  BY <1>6 DEF vars
<1>7. ASSUME NEW c \in Command, Release(c) PROVE TypeOK'
  <2>1. /\ queue[on[c]] \in Seq(Command)
        /\ \E i \in 1 .. Len(queue[on[c]]) : queue[on[c]][i] = c
    BY <1>7 DEF Release, LockOrder, Queued
  <2>2. queue[on[c]] # <<>>
    BY <2>1
  <2>3. Tail(queue[on[c]]) \in Seq(Command)
    BY <2>1, <2>2, HeadTailProperties
  <2>. QED
    BY <1>7, <2>3 DEF Release
<1>. QED
  BY <1>1, <1>2, <1>3, <1>4, <1>5, <1>6, <1>7 DEF Next, CommandStep

-----------------------------------------------------------------------------
(* The order of the queue is kept: by a command that advances, by a new one  *)
(* that goes to the end, and by the holder that leaves.                      *)
LEMMA AdvanceKeepsOrder ==
  ASSUME LockInv, NEW c \in Command, Advances(c)
  PROVE  LockOrder'
<1>1. PICK p \in PastLock : at' = [at EXCEPT ![c] = p]
  BY DEF Advances
<1>2. queue' = queue /\ on' = on
  BY DEF Advances
<1>3. at[c] \notin {"idle", "done"} /\ Head(queue[on[c]]) = c
  BY DEF Advances, HoldsLock, LockInv, LockOrder, PastLock
<1>4. \A b \in Command : b # c => at'[b] = at[b]
  BY <1>1 DEF LockInv, TypeOK
<1>. QED
  BY <1>2, <1>3, <1>4 DEF LockInv, LockOrder

LEMMA RequestKeepsOrder ==
  ASSUME LockInv, NEW c \in Command, NEW k \in Kind, NEW d \in Device, Request(c, k, d)
  PROVE  LockOrder'
<1>. USE DEF LockInv, TypeOK
<1>1. /\ on' = [on EXCEPT ![c] = d] /\ at' = [at EXCEPT ![c] = "lock"]
      /\ queue' = [queue EXCEPT ![d] = Append(@, c)] /\ at[c] = "idle"
  BY DEF Request
<1>2. queue[d] \in Seq(Command)
  OBVIOUS
<1>3. queue'[on'[c]] = Append(queue[d], c)
  BY <1>1
<1>4. Queued(queue'[on'[c]], c)
  <2>. DEFINE n == Len(queue[d]) + 1
  <2>1. /\ Append(queue[d], c)[n] = c /\ Len(Append(queue[d], c)) = n
    BY <1>2, AppendProperties
  <2>2. n \in 1 .. n
    BY <1>2, LenProperties
  <2>. QED
    BY <1>3, <2>1, <2>2 DEF Queued
<1>5. ASSUME NEW b \in Command, b # c, at'[b] \notin {"idle", "done"}
      PROVE  /\ Queued(queue'[on'[b]], b)
             /\ at'[b] \in PastLock => Head(queue'[on'[b]]) = b
  <2>1. at'[b] = at[b] /\ on'[b] = on[b] /\ on[b] \in Device
    BY <1>1, <1>5
  <2>2. PICK i \in 1 .. Len(queue[on[b]]) : queue[on[b]][i] = b
    BY <1>5, <2>1 DEF LockOrder, Queued
  <2>3. at[b] \in PastLock => Head(queue[on[b]]) = b
    BY DEF LockOrder
  <2>4. CASE on[b] # d
    BY <1>1, <2>1, <2>2, <2>3, <2>4 DEF Queued
  <2>5. CASE on[b] = d
    <3>1. queue'[d] = Append(queue[d], c)
      BY <1>1
    <3>2. /\ Len(Append(queue[d], c)) = Len(queue[d]) + 1
          /\ \A j \in 1 .. Len(queue[d]) : Append(queue[d], c)[j] = queue[d][j]
      BY <1>2, AppendProperties
    <3>3. Queued(queue'[d], b)
      BY <1>2, <2>2, <2>5, <3>1, <3>2, LenProperties DEF Queued
    <3>4. Head(queue'[d]) = Head(queue[d])
      BY <1>2, <2>2, <2>5, <3>1, HeadTailAppend
    <3>. QED
      BY <2>1, <2>3, <2>5, <3>3, <3>4
  <2>. QED
    BY <2>4, <2>5
<1>6. at'[c] = "lock"
  BY <1>1
<1>. QED
  BY <1>4, <1>5, <1>6 DEF LockOrder, PastLock

LEMMA ReleaseKeepsOrder ==
  ASSUME LockInv, NEW c \in Command, Release(c)
  PROVE  LockOrder'
<1>. USE DEF LockInv, TypeOK
<1>1. /\ at[c] = "answered" /\ at' = [at EXCEPT ![c] = "done"] /\ on' = on
      /\ queue' = [queue EXCEPT ![on[c]] = Tail(@)]
  BY DEF Release
<1>2. on[c] \in Device /\ queue[on[c]] \in Seq(Command) /\ Head(queue[on[c]]) = c
  BY <1>1 DEF LockOrder, PastLock
<1>3. ASSUME NEW b \in Command, at'[b] \notin {"idle", "done"}
      PROVE  /\ Queued(queue'[on'[b]], b)
             /\ at'[b] \in PastLock => Head(queue'[on'[b]]) = b
  <2>1. b # c /\ at'[b] = at[b] /\ on'[b] = on[b] /\ on[b] \in Device
    BY <1>1, <1>3
  <2>2. PICK i \in 1 .. Len(queue[on[b]]) : queue[on[b]][i] = b
    BY <1>3, <2>1 DEF LockOrder, Queued
  <2>3. CASE on[b] # on[c]
    BY <1>1, <2>1, <2>2, <2>3 DEF LockOrder, Queued
  <2>4. CASE on[b] = on[c]
    <3>. DEFINE q == queue[on[c]]
    <3>1. q # <<>> /\ q \in Seq(Command) /\ Len(q) \in Nat
      BY <1>2, <2>2, <2>4, LenProperties
    <3>2. i # 1
      BY <1>2, <2>1, <2>2, <2>4
    <3>3. /\ Len(Tail(q)) = Len(q) - 1
          /\ \A j \in 1 .. Len(Tail(q)) : Tail(q)[j] = q[j + 1]
      BY <3>1, HeadTailProperties
    <3>4. i - 1 \in 1 .. Len(Tail(q)) /\ Tail(q)[i - 1] = b
      BY <2>2, <2>4, <3>1, <3>2, <3>3
    <3>5. queue'[on'[b]] = Tail(q)
      BY <1>1, <1>2, <2>1, <2>4
    <3>6. at[b] \notin PastLock
      BY <1>1, <2>1, <2>4, OneHolder DEF PastLock
    <3>. QED
      BY <2>1, <3>4, <3>5, <3>6 DEF Queued
  <2>. QED
    BY <2>3, <2>4
<1>. QED
  BY <1>3 DEF LockOrder, PastLock

-----------------------------------------------------------------------------
(* A device whose state a command has just read or changed has no mover that *)
(* is another command.                                                       *)
LEMMA NoOtherMover ==
  ASSUME LockInv, NEW c \in Command, at[c] \in PastLock,
         NEW b \in Command, b # c, at[b] = "moving"
  PROVE  on[b] # on[c]
BY OneHolder DEF PastLock

LEMMA TransitNext == LockInv /\ [Next]_vars => TransitKnown'
<1>. SUFFICES ASSUME LockInv, [Next]_vars, NEW d \in Device, acquisition'[d] \in Transit
              PROVE  \E c \in Command : Moving(c, d)'
  BY DEF TransitKnown
<1>. USE DEF Transit, Moving
<1>1. ASSUME NEW c \in Command, acquisition'[d] = acquisition[d],
             at' = [at EXCEPT ![c] = at'[c]], on' = [on EXCEPT ![c] = on'[c]],
             at[c] # "moving"
      PROVE  \E b \in Command : Moving(b, d)'
  <2>1. PICK b \in Command : Moving(b, d)
    BY <1>1 DEF LockInv, TransitKnown
  <2>2. at'[b] = at[b] /\ on'[b] = on[b]
    BY <1>1, <2>1 DEF LockInv, TypeOK
  <2>. QED
    BY <2>1, <2>2
<1>2. CASE UNCHANGED <<acquisition, at, on>>
  BY <1>2 DEF LockInv, TransitKnown
<1>3. ASSUME NEW e \in Device,
             StartRecording(e) \/ RecordingEnds(e) \/ StartScope(e) \/ ScopeMoves(e)
      PROVE  UNCHANGED <<acquisition, at, on>>
  BY <1>3 DEF StartRecording, RecordingEnds, StartScope, ScopeMoves, commands
<1>4. ASSUME NEW c \in Command, NEW k \in Kind, NEW e \in Device, Request(c, k, e)
      PROVE  \E b \in Command : Moving(b, d)'
  BY <1>1, <1>4 DEF Request, subsystems, LockInv, TypeOK
<1>5. ASSUME NEW c \in Command,
             \/ DisconnectBegins(c) \/ ScopeStopped(c) \/ ReconnectBegins(c)
             \/ Conflict(c) \/ ReconnectRefused(c) \/ Release(c)
      PROVE  \E b \in Command : Moving(b, d)'
  <2>1. acquisition' = acquisition /\ on' = on /\ at[c] # "moving"
    BY <1>5 DEF DisconnectBegins, ScopeStopped, ReconnectBegins, Conflict, ReconnectRefused,
       Release, Answer, subsystems
  <2>2. \E p \in Place : at' = [at EXCEPT ![c] = p]
    BY <1>5 DEF DisconnectBegins, ScopeStopped, ReconnectBegins, Conflict, ReconnectRefused,
       Release, Answer, Place
  <2>. QED
    BY <1>1, <2>1, <2>2 DEF LockInv, TypeOK
<1>6. ASSUME NEW c \in Command, TransitionBegins(c)
      PROVE  \E b \in Command : Moving(b, d)'
  <2>1. CASE on[c] = d
    BY <1>6, <2>1 DEF TransitionBegins, LockInv, TypeOK
  <2>2. CASE on[c] # d
    BY <1>1, <1>6, <2>2 DEF TransitionBegins, LockInv, TypeOK
  <2>. QED
    BY <2>1, <2>2
<1>7. ASSUME NEW c \in Command, Disconnected(c) \/ Reconnected(c)
      PROVE  \E b \in Command : Moving(b, d)'
  <2>1. /\ at[c] = "moving" /\ on' = on /\ at' = [at EXCEPT ![c] = "answered"]
        /\ \E s \in AcquisitionState \ Transit : acquisition' = [acquisition EXCEPT ![on[c]] = s]
    BY <1>7 DEF Disconnected, Reconnected, Answer, AcquisitionState
  <2>2. on[c] \in Device /\ on[c] # d
    BY <2>1 DEF LockInv, TypeOK
  <2>3. acquisition'[d] = acquisition[d]
    BY <2>1, <2>2 DEF LockInv, TypeOK
  <2>4. PICK b \in Command : Moving(b, d)
    BY <2>3 DEF LockInv, TransitKnown
  <2>. QED
    BY <2>1, <2>2, <2>4 DEF LockInv, TypeOK
<1>8. CASE UNCHANGED vars
  BY <1>2, <1>8 DEF vars, commands, subsystems
<1>. QED
  BY <1>2, <1>3, <1>4, <1>5, <1>6, <1>7, <1>8 DEF Next, CommandStep

(* LockInv is inductive.                                                     *)
LEMMA LockNext == LockInv /\ [Next]_vars => LockInv'
<1>. SUFFICES ASSUME LockInv, [Next]_vars PROVE LockOrder'
  BY TypeNext, TransitNext DEF LockInv
<1>1. CASE UNCHANGED <<queue, on, at>>
  BY <1>1 DEF LockInv, LockOrder
<1>2. ASSUME NEW d \in Device,
             StartRecording(d) \/ RecordingEnds(d) \/ StartScope(d) \/ ScopeMoves(d)
      PROVE  UNCHANGED <<queue, on, at>>
  BY <1>2 DEF StartRecording, RecordingEnds, StartScope, ScopeMoves, commands
<1>3. CASE UNCHANGED vars
  BY <1>1, <1>3 DEF vars, commands
<1>4. ASSUME NEW c \in Command, CommandStep(c) PROVE LockOrder'
  BY <1>4, CommandAdvances, AdvanceKeepsOrder, ReleaseKeepsOrder DEF CommandStep
<1>. QED
  BY <1>1, <1>2, <1>3, <1>4, RequestKeepsOrder DEF Next

(* What a command began is what it ends, so successes alternate.             *)
LEMMA MatchNext ==
  LockInv /\ MoversMatch /\ CommandsAlternate /\ [Next]_vars => MoversMatch' /\ CommandsAlternate'
<1>. SUFFICES ASSUME LockInv, MoversMatch, CommandsAlternate, [Next]_vars
              PROVE  MoversMatch' /\ CommandsAlternate'
  OBVIOUS
<1>1. ASSUME UNCHANGED <<acquisition, stopped, resumed>>,
             \A b \in Command : at'[b] = "moving" =>
               at[b] = "moving" /\ on'[b] = on[b] /\ kind'[b] = kind[b]
      PROVE  MoversMatch' /\ CommandsAlternate'
  BY <1>1 DEF MoversMatch, CommandsAlternate
<1>2. ASSUME NEW d \in Device,
             StartRecording(d) \/ RecordingEnds(d) \/ StartScope(d) \/ ScopeMoves(d)
      PROVE  MoversMatch' /\ CommandsAlternate'
  BY <1>1, <1>2 DEF StartRecording, RecordingEnds, StartScope, ScopeMoves, commands
<1>3. ASSUME NEW c \in Command, NEW k \in Kind, NEW d \in Device, Request(c, k, d)
      PROVE  MoversMatch' /\ CommandsAlternate'
  BY <1>1, <1>3 DEF Request, subsystems, LockInv, TypeOK
<1>4. ASSUME NEW c \in Command,
             \/ DisconnectBegins(c) \/ ScopeStopped(c) \/ ReconnectBegins(c)
             \/ Conflict(c) \/ ReconnectRefused(c) \/ Release(c)
      PROVE  MoversMatch' /\ CommandsAlternate'
  <2>1. UNCHANGED <<acquisition, stopped, resumed, on, kind>>
    BY <1>4 DEF DisconnectBegins, ScopeStopped, ReconnectBegins, Conflict, ReconnectRefused,
       Release, Answer, subsystems
  <2>2. \E p \in Place \ {"moving"} : at' = [at EXCEPT ![c] = p]
    BY <1>4 DEF DisconnectBegins, ScopeStopped, ReconnectBegins, Conflict, ReconnectRefused,
       Release, Answer, Place
  <2>. QED
    BY <1>1, <2>1, <2>2 DEF LockInv, TypeOK
<1>5. ASSUME NEW c \in Command, TransitionBegins(c) \/ Disconnected(c) \/ Reconnected(c)
      PROVE  MoversMatch' /\ CommandsAlternate'
  <2>1. at[c] \in PastLock /\ on[c] \in Device /\ kind[c] \in Kind /\ on' = on /\ kind' = kind
    BY <1>5 DEF TransitionBegins, Disconnected, Reconnected, LockInv, TypeOK, PastLock
  <2>2. \E p \in Place : at' = [at EXCEPT ![c] = p]
    BY <1>5 DEF TransitionBegins, Disconnected, Reconnected, Answer, Place
  <2>3. \E s \in AcquisitionState : acquisition' = [acquisition EXCEPT ![on[c]] = s]
    BY <1>5 DEF TransitionBegins, Disconnected, Reconnected, AcquisitionState
  <2>4. /\ \A d \in Device : d # on[c] => stopped'[d] = stopped[d] /\ resumed'[d] = resumed[d]
        /\ \A d \in Device : d # on[c] => acquisition'[d] = acquisition[d]
    BY <1>5, <2>3 DEF TransitionBegins, Disconnected, Reconnected, LockInv, TypeOK
  <2>5. \A b \in Command : b # c /\ at'[b] = "moving" =>
          at[b] = "moving" /\ on[b] # on[c] /\ on[b] \in Device
    BY <2>1, <2>2, NoOtherMover DEF LockInv, TypeOK
  <2>6. at'[c] = "moving" =>
          acquisition'[on[c]] = IF kind[c] = "disconnect" THEN "DISCONNECTING" ELSE "CONNECTING"
    BY <1>5, <2>1 DEF TransitionBegins, Disconnected, Reconnected, Answer, LockInv, TypeOK
  <2>7. MoversMatch'
    BY <2>1, <2>4, <2>5, <2>6 DEF MoversMatch
  <2>8. acquisition'[on[c]] # "ERROR" => stopped'[on[c]] - resumed'[on[c]] =
          IF acquisition'[on[c]] \in {"DISCONNECTED", "CONNECTING"} THEN 1 ELSE 0
    <3>. DEFINE d == on[c]
    <3>1. stopped[d] \in Nat /\ resumed[d] \in Nat
      BY <2>1 DEF LockInv, TypeOK
    <3>2. CASE TransitionBegins(c)
      BY <2>1, <3>1, <3>2 DEF TransitionBegins, Needed, CommandsAlternate, LockInv, TypeOK, Kind
    <3>3. CASE Disconnected(c)
      <4>1. acquisition[d] = "DISCONNECTING"
        BY <3>3 DEF Disconnected, MoversMatch
      <4>2. stopped[d] - resumed[d] = 0
        BY <2>1, <4>1 DEF CommandsAlternate
      <4>3. \/ acquisition'[d] = "DISCONNECTED" /\ stopped'[d] = stopped[d] + 1
            \/ acquisition'[d] = "ERROR"
        BY <2>1, <3>3 DEF Disconnected, LockInv, TypeOK
      <4>4. resumed' = resumed
        BY <3>3 DEF Disconnected
      <4>. QED
        BY <3>1, <4>2, <4>3, <4>4
    <3>4. CASE Reconnected(c)
      <4>1. acquisition[d] = "CONNECTING"
        BY <3>4 DEF Reconnected, MoversMatch
      <4>2. stopped[d] - resumed[d] = 1
        BY <2>1, <4>1 DEF CommandsAlternate
      <4>3. \/ acquisition'[d] = "RUNNING" /\ resumed'[d] = resumed[d] + 1
            \/ acquisition'[d] = "DISCONNECTED" /\ resumed' = resumed
            \/ acquisition'[d] = "ERROR"
        BY <2>1, <3>4 DEF Reconnected, LockInv, TypeOK
      <4>4. stopped' = stopped
        BY <3>4 DEF Reconnected
      <4>. QED
        BY <3>1, <4>2, <4>3, <4>4
    <3>. QED
      BY <1>5, <3>2, <3>3, <3>4
  <2>9. CommandsAlternate'
    BY <2>4, <2>8 DEF CommandsAlternate
  <2>. QED
    BY <2>7, <2>9
<1>6. CASE UNCHANGED vars
  BY <1>1, <1>6 DEF vars, commands, subsystems
<1>. QED
  BY <1>2, <1>3, <1>4, <1>5, <1>6 DEF Next, CommandStep

LEMMA LifecycleInit == Init => LifecycleInv
<1>1. Init => CommandsAlternate
  <2>. SUFFICES ASSUME Init, NEW d \in Device PROVE
         stopped[d] - resumed[d] = IF acquisition[d] \in {"DISCONNECTED", "CONNECTING"} THEN 1 ELSE 0
    BY DEF CommandsAlternate
  <2>1. acquisition[d] \in {"RUNNING", "DISCONNECTED"}
    BY DEF Init
  <2>2. /\ stopped[d] = IF acquisition[d] = "DISCONNECTED" THEN 1 ELSE 0
        /\ resumed[d] = 0
    BY DEF Init
  <2>. QED
    BY <2>1, <2>2
<1>. QED
  BY <1>1, LockInit DEF Init, LifecycleInv, MoversMatch

-----------------------------------------------------------------------------
(* A device's DISCONNECTING or CONNECTING state has, for any number of       *)
(* devices and commands, exactly one command that will end it, and that one  *)
(* holds the device's lock (DeviceLifecycleService.disconnect, reconnect).   *)
THEOREM TransitIsOwned == Spec => []TransitOwned
<1>1. LifecycleInv /\ [Next]_vars => LifecycleInv'
  BY LockNext, MatchNext DEF LifecycleInv
<1>2. LifecycleInv => TransitOwned
  BY LockGivesOwner DEF LifecycleInv
<1>. QED
  BY <1>1, <1>2, LifecycleInit, PTL DEF Spec

(* Successful disconnects and reconnects of a device alternate, in whatever  *)
(* order requests arrive and however their steps interleave (disconnect,     *)
(* reconnect, disconnect_device, reconnect_device).                          *)
THEOREM SuccessesAlternate == Spec => []CommandsAlternate
<1>1. LifecycleInv /\ [Next]_vars => LifecycleInv'
  BY LockNext, MatchNext DEF LifecycleInv
<1>2. LifecycleInv => CommandsAlternate
  BY DEF LifecycleInv
<1>. QED
  BY <1>1, <1>2, LifecycleInit, PTL DEF Spec

-----------------------------------------------------------------------------
Late == {"joining", "cleanup", "ended"}

(* No request was handled before the coordinator has started.               *)
FreshStart ==
  program = "loaded" =>
    /\ ~server
    /\ \A c \in Command : at[c] = "idle"
    /\ \A d \in Device : stopped[d] = 1 /\ resumed[d] = 0

(* Until stop() begins the lifecycle is that of DeviceLifecycle.            *)
UntilStop == stopping \/ (MoversMatch /\ CommandsAlternate)

(* What each stage of the shutdown leaves to the next                       *)
Stages ==
  /\ stopping => program \in Late
  /\ program = "joining" => stopping
  /\ old \subseteq toClose
  /\ program \in Late => /\ recorder = "told" /\ ~accepting
                         /\ \A d \in Device : ~recording[d]
                         /\ started => stopping
                         /\ toClose = {}

(* A worker that runs after stop() is one stop() could not end, or one of a *)
(* reconnect that was under way.                                            *)
LateWorkers ==
  /\ stopping => \A d \in Device : Reconnecting(d) => d \in racing
  /\ program \in {"cleanup", "ended"} /\ started => \A d \in Device :
       acquisition[d] = "RUNNING" => d \in racing \/ "WORKERS" \in failed

ViewerInv == LockInv /\ FreshStart /\ UntilStop /\ Stages /\ LateWorkers

-----------------------------------------------------------------------------
LEMMA ViewerInitInv == ViewerInit => ViewerInv
<1>. SUFFICES ASSUME ViewerInit PROVE ViewerInv
  OBVIOUS
<1>1. Init
  BY DEF ViewerInit
<1>2. LockInv /\ MoversMatch /\ CommandsAlternate
  BY <1>1, LifecycleInit DEF LifecycleInv
<1>3. FreshStart
  BY DEF ViewerInit, Init, FreshStart
<1>. QED
  BY <1>2, <1>3 DEF ViewerInit, ViewerInv, UntilStop, Stages, LateWorkers, Late

(* The steps of DeviceLifecycle that the viewer takes, and what guards them *)
LifecycleStep ==
  /\ Next /\ UNCHANGED programVars
  /\ \A c \in Command : at[c] = "idle" => at'[c] = "idle" \/ server
  /\ (\A c \in Command : at[c] = "idle") => server \/ UNCHANGED <<stopped, resumed>>
  /\ \A d \in Device : recording'[d] => recording[d] \/ accepting
  /\ \A d \in Device : Reconnecting(d)' => Reconnecting(d) \/ ~stopping
  /\ \A d \in Device : acquisition'[d] = "RUNNING" => acquisition[d] = "RUNNING" \/ Reconnecting(d)

LEMMA ViewerTakesLifecycleSteps ==
  ASSUME LockInv,
         LoopStep \/ RecorderStep \/ \E c \in Command : CoroutineStep(c) \/ ThreadStep(c)
  PROVE  LifecycleStep
<1>. USE DEF LockInv, TypeOK
<1>1. CASE RecorderStep
  BY <1>1 DEF RecorderStep, RecordingEnds, LifecycleStep, Next, commands, Reconnecting, Moving
<1>2. CASE LoopStep
  <2>1. ASSUME NEW d \in Device, (MayRecord /\ StartRecording(d)) \/ StartScope(d) \/ ScopeMoves(d)
        PROVE  LifecycleStep
    BY <1>2, <2>1 DEF LoopStep, StartRecording, StartScope, ScopeMoves, MayRecord, LifecycleStep,
       Next, commands, Reconnecting, Moving
  <2>2. ASSUME NEW c \in Command, NEW k \in Kind, NEW d \in Device, Request(c, k, d)
        PROVE  LifecycleStep
    <3>1. Next /\ UNCHANGED programVars /\ server
      BY <1>2, <2>2 DEF LoopStep, LoopFree, Next
    <3>2. UNCHANGED <<recording, acquisition>>
      BY <2>2 DEF Request, subsystems
    <3>3. \A e \in Device : Reconnecting(e)' => Reconnecting(e)
      BY <2>2 DEF Request, Reconnecting, Moving
    <3>. QED
      BY <3>1, <3>2, <3>3 DEF LifecycleStep
  <2>. QED
    BY <1>2, <2>1, <2>2 DEF LoopStep
<1>3. ASSUME NEW c \in Command, CoroutineStep(c) PROVE LifecycleStep
  <2>1. Next /\ UNCHANGED programVars /\ server
    BY <1>3 DEF CoroutineStep, LoopFree, Next, CommandStep
  <2>2. /\ acquisition' = acquisition /\ on' = on /\ kind' = kind
        /\ \A d \in Device : recording'[d] => recording[d]
        /\ \E p \in Place \ {"moving"} : at' = [at EXCEPT ![c] = p]
    BY <1>3 DEF CoroutineStep, DisconnectBegins, ScopeStopped, ReconnectBegins, Release, Answer,
       subsystems, Place
  <2>3. \A e \in Device : Reconnecting(e)' => Reconnecting(e)
    BY <2>2 DEF Reconnecting, Moving
  <2>. QED
    BY <2>1, <2>2, <2>3 DEF LifecycleStep
<1>4. ASSUME NEW c \in Command, ThreadStep(c) PROVE LifecycleStep
  <2>1. Next /\ UNCHANGED programVars
    BY <1>4 DEF ThreadStep, Next, CommandStep
  <2>2. /\ recording' = recording /\ on' = on /\ kind' = kind /\ at[c] \in {"thread", "moving"}
        /\ on[c] \in Device
    BY <1>4 DEF ThreadStep, TransitionBegins, Conflict, ReconnectRefused, Disconnected, Reconnected,
       subsystems
  <2>3. \/ at' = [at EXCEPT ![c] = "answered"]
        \/ at' = [at EXCEPT ![c] = "moving"] /\ ~(stopping /\ kind[c] = "reconnect")
    BY <1>4 DEF ThreadStep, TransitionBegins, Conflict, ReconnectRefused, Disconnected, Reconnected,
       Answer
  <2>4. \A d \in Device : Reconnecting(d)' => Reconnecting(d) \/ ~stopping
    BY <2>2, <2>3 DEF Reconnecting, Moving
  <2>5. ASSUME NEW d \in Device, acquisition'[d] = "RUNNING", acquisition[d] # "RUNNING"
        PROVE  Reconnecting(d)
    BY <1>4, <2>5, ZenonT(60) DEF ThreadStep, TransitionBegins, Conflict, ReconnectRefused, Disconnected,
       Reconnected, subsystems, Reconnecting, Moving
  <2>6. \A b \in Command : at[b] = "idle" => at'[b] = "idle"
    BY <2>2, <2>3
  <2>. QED
    BY <2>1, <2>2, <2>4, <2>5, <2>6 DEF LifecycleStep
<1>. QED
  BY <1>1, <1>2, <1>3, <1>4

-----------------------------------------------------------------------------
LEMMA LifecycleStepKeeps == ViewerInv /\ LifecycleStep => ViewerInv'
<1>. SUFFICES ASSUME ViewerInv, LifecycleStep PROVE ViewerInv'
  OBVIOUS
<1>1. LockInv' /\ (MoversMatch /\ CommandsAlternate => MoversMatch' /\ CommandsAlternate')
  BY LockNext, MatchNext DEF LifecycleStep, ViewerInv
<1>2. UntilStop'
  BY <1>1 DEF LifecycleStep, ViewerInv, UntilStop, programVars
<1>3. FreshStart'
  BY DEF LifecycleStep, ViewerInv, FreshStart, programVars
<1>4. Stages'
  BY DEF LifecycleStep, ViewerInv, Stages, programVars
<1>5. LateWorkers'
  <2>1. UNCHANGED <<program, started, stopping, racing, failed>>
    BY DEF LifecycleStep, programVars
  <2>2. stopping => \A d \in Device : Reconnecting(d)' => d \in racing
    BY DEF LifecycleStep, ViewerInv, LateWorkers
  <2>3. ASSUME program \in {"cleanup", "ended"}, started, NEW d \in Device,
               acquisition'[d] = "RUNNING"
        PROVE  d \in racing \/ "WORKERS" \in failed
    <3>1. stopping
      BY <2>3 DEF ViewerInv, Stages, Late
    <3>2. acquisition[d] = "RUNNING" \/ Reconnecting(d)
      BY <2>3 DEF LifecycleStep
    <3>. QED
      BY <2>3, <3>1, <3>2 DEF ViewerInv, LateWorkers
  <2>. QED
    BY <2>1, <2>2, <2>3 DEF LateWorkers
<1>. QED
  BY <1>1, <1>2, <1>3, <1>4, <1>5 DEF ViewerInv

(* A step of the program that no command takes: the commands are where they *)
(* were, and the invariant of the locks needs only the acquisition states.  *)
LEMMA ProgramStepKeepsLock ==
  ASSUME LockInv, UNCHANGED commands, UNCHANGED stopped,
         recording' \in [Device -> BOOLEAN], resumed' \in [Device -> Nat],
         scope' \in [Device -> {"DISCONNECTED", "CONNECTING", "LIVE", "ERROR"}],
         acquisition' \in [Device -> AcquisitionState],
         \A d \in Device : acquisition'[d] \in Transit => acquisition[d] \in Transit
  PROVE  LockInv'
<1>1. TypeOK'
  BY DEF LockInv, TypeOK, commands
<1>2. LockOrder' /\ TransitKnown'
  BY DEF LockInv, LockOrder, TransitKnown, Moving, commands
<1>. QED
  BY <1>1, <1>2 DEF LockInv

LEMMA StartKeeps ==
  ASSUME ViewerInv, NEW running \in SUBSET Device, CoordinatorStarts(running)
  PROVE  ViewerInv'
<1>1. LockInv'
  <2>1. /\ acquisition' \in [Device -> AcquisitionState]
        /\ \A d \in Device : acquisition'[d] \notin Transit
    BY DEF CoordinatorStarts, AcquisitionState, Transit
  <2>2. resumed' \in [Device -> Nat]
    BY DEF CoordinatorStarts
  <2>3. UNCHANGED <<recording, scope, commands, stopped>>
    BY DEF CoordinatorStarts
  <2>. QED
    BY <2>1, <2>2, <2>3, ProgramStepKeepsLock DEF ViewerInv, LockInv, TypeOK
<1>2. program = "loaded" /\ program' \in {"waiting", "closing"} /\ ~stopping
  BY DEF CoordinatorStarts, ShutdownBegins, ViewerInv, Stages, Late
<1>3. MoversMatch'
  BY <1>2 DEF CoordinatorStarts, ViewerInv, FreshStart, MoversMatch, commands
<1>4. CommandsAlternate'
  <2>. SUFFICES ASSUME NEW d \in Device
                PROVE  stopped'[d] - resumed'[d] = IF d \in running THEN 0 ELSE 1
    BY DEF CommandsAlternate, CoordinatorStarts
  <2>1. stopped'[d] = 1 /\ resumed'[d] = IF d \in running THEN 1 ELSE 0
    BY <1>2 DEF CoordinatorStarts, ViewerInv, FreshStart
  <2>. QED
    BY <2>1
<1>5. FreshStart' /\ UntilStop'
  BY <1>2, <1>3, <1>4 DEF FreshStart, UntilStop
<1>6. Stages'
  <2>1. old' \subseteq toClose'
    BY DEF CoordinatorStarts, ShutdownBegins, OpenSessions, ViewerInv, Stages
  <2>. QED
    BY <1>2, <2>1 DEF CoordinatorStarts, Stages, Late
<1>7. LateWorkers'
  BY <1>2 DEF CoordinatorStarts, LateWorkers
<1>. QED
  BY <1>1, <1>5, <1>6, <1>7 DEF ViewerInv

(* Steps that leave the lifecycle alone                                     *)
LEMMA QuietStepKeeps ==
  ASSUME ViewerInv,
         FrontendMissing \/ ServerStarts \/ ShutdownRequested \/ SessionClosed \/ ServerStops
  PROVE  ViewerInv'
<1>1. UNCHANGED vars
  BY DEF FrontendMissing, ServerStarts, ShutdownRequested, SessionClosed, ServerStops
<1>2. UNCHANGED <<recorder, accepting, started, stopping, racing>> /\ failed \subseteq failed'
  BY DEF FrontendMissing, ServerStarts, ShutdownRequested, SessionClosed, ServerStops
<1>3. LockInv' /\ UntilStop'
  BY <1>1, <1>2 DEF vars, subsystems, commands, ViewerInv, LockInv, TypeOK, LockOrder,
     TransitKnown, Moving, UntilStop, MoversMatch, CommandsAlternate
<1>4. program' # "loaded" /\ program' # "joining"
      /\ (program' \in Late => program \in Late) /\ (stopping => program' \in Late)
      /\ (program' \in {"cleanup", "ended"} => program \in {"cleanup", "ended"})
  BY DEF FrontendMissing, ServerStarts, ShutdownRequested, SessionClosed, ServerStops,
     ShutdownBegins, ViewerInv, Stages, Late
<1>5. old' \subseteq toClose' /\ (program' \in Late => toClose' = toClose)
  BY DEF FrontendMissing, ServerStarts, ShutdownRequested, SessionClosed, ServerStops,
     ShutdownBegins, OpenSessions, ViewerInv, Stages, Late
<1>6. Stages'
  BY <1>1, <1>2, <1>4, <1>5 DEF ViewerInv, Stages, vars, subsystems
<1>7. LateWorkers'
  BY <1>1, <1>2, <1>4 DEF ViewerInv, LateWorkers, Reconnecting, Moving, vars, subsystems, commands
<1>8. FreshStart'
  BY <1>4 DEF FreshStart
<1>. QED
  BY <1>3, <1>6, <1>7, <1>8 DEF ViewerInv

LEMMA CloseSessionKeeps ==
  ASSUME ViewerInv, NEW d \in Device, CloseSession(d)
  PROVE  ViewerInv'
<1>1. UNCHANGED <<recording, acquisition, commands, stopped, resumed, program, server, recorder,
                  accepting, started, stopping, failed, racing>>
  BY DEF CloseSession
<1>2. LockInv'
  <2>1. scope' \in [Device -> {"DISCONNECTED", "CONNECTING", "LIVE", "ERROR"}]
    BY DEF CloseSession, ViewerInv, LockInv, TypeOK
  <2>. QED
    BY <1>1, <2>1, ProgramStepKeepsLock DEF ViewerInv, LockInv, TypeOK
<1>3. FreshStart' /\ UntilStop'
  BY <1>1 DEF ViewerInv, FreshStart, UntilStop, MoversMatch, CommandsAlternate, commands
<1>4. Stages'
  <2>1. program = "closing" /\ old' = old \ {d} /\ toClose' = toClose \ {d}
    BY DEF CloseSession
  <2>. QED
    BY <1>1, <2>1 DEF ViewerInv, Stages, Late
<1>5. LateWorkers'
  BY <1>1 DEF ViewerInv, LateWorkers, Reconnecting, Moving, commands
<1>. QED
  BY <1>2, <1>3, <1>4, <1>5 DEF ViewerInv

LEMMA StopRecordersKeeps == ViewerInv /\ StopRecordersAndSignal => ViewerInv'
<1>. SUFFICES ASSUME ViewerInv, StopRecordersAndSignal PROVE ViewerInv'
  OBVIOUS
<1>1. UNCHANGED <<scope, acquisition, commands, starts, stopped, resumed, server, started, toClose, old>>
  BY DEF StopRecordersAndSignal
<1>2. LockInv'
  <2>1. recording' \in [Device -> BOOLEAN]
    BY DEF StopRecordersAndSignal
  <2>. QED
    BY <1>1, <2>1, ProgramStepKeepsLock DEF ViewerInv, LockInv, TypeOK
<1>3. program = "closing" /\ ~stopping /\ program' \in {"joining", "cleanup"}
  BY DEF StopRecordersAndSignal, ViewerInv, Stages, Late
<1>4. FreshStart' /\ UntilStop'
  BY <1>1, <1>3 DEF ViewerInv, FreshStart, UntilStop, MoversMatch, CommandsAlternate, commands
<1>5. Stages'
  BY <1>1 DEF StopRecordersAndSignal, ViewerInv, Stages, Late
<1>6. LateWorkers'
  <2>1. \A d \in Device : Reconnecting(d)' => d \in racing'
    BY <1>1 DEF StopRecordersAndSignal, Reconnecting, Moving, commands
  <2>2. ~(program' \in {"cleanup", "ended"} /\ started')
    BY <1>1 DEF StopRecordersAndSignal
  <2>. QED
    BY <2>1, <2>2 DEF LateWorkers
<1>. QED
  BY <1>2, <1>4, <1>5, <1>6 DEF ViewerInv

LEMMA JoinKeeps == ViewerInv /\ WorkersJoined => ViewerInv'
<1>. SUFFICES ASSUME ViewerInv, WorkersJoined PROVE ViewerInv'
  OBVIOUS
<1>1. /\ UNCHANGED <<recording, scope, commands, starts, stopped, resumed, server, recorder, accepting,
                     started, stopping, toClose, old, racing>>
      /\ program = "joining" /\ program' = "cleanup" /\ stopping
  BY DEF WorkersJoined, ViewerInv, Stages
<1>2. \/ acquisition' = acquisition /\ "WORKERS" \in failed'
      \/ acquisition' = [d \in Device |-> IF acquisition[d] = "ERROR" THEN "ERROR" ELSE "DISCONNECTED"]
  BY DEF WorkersJoined
<1>3. LockInv'
  <2>1. /\ acquisition' \in [Device -> AcquisitionState]
        /\ \A d \in Device : acquisition'[d] \in Transit => acquisition[d] \in Transit
    <3>1. acquisition \in [Device -> AcquisitionState]
      BY DEF ViewerInv, LockInv, TypeOK
    <3>2. CASE acquisition' = acquisition
      BY <3>1, <3>2
    <3>3. CASE acquisition' = [d \in Device |-> IF acquisition[d] = "ERROR" THEN "ERROR" ELSE "DISCONNECTED"]
      BY <3>1, <3>3 DEF AcquisitionState, Transit
    <3>. QED
      BY <1>2, <3>2, <3>3
  <2>. QED
    BY <1>1, <2>1, ProgramStepKeepsLock DEF ViewerInv, LockInv, TypeOK
<1>4. FreshStart' /\ UntilStop' /\ Stages'
  BY <1>1 DEF ViewerInv, FreshStart, UntilStop, Stages, Late
<1>5. LateWorkers'
  <2>1. \A d \in Device : acquisition'[d] = "RUNNING" => "WORKERS" \in failed'
    BY <1>2
  <2>2. \A d \in Device : Reconnecting(d)' => d \in racing'
    BY <1>1 DEF ViewerInv, LateWorkers, Reconnecting, Moving, commands
  <2>. QED
    BY <2>1, <2>2 DEF LateWorkers
<1>. QED
  BY <1>3, <1>4, <1>5 DEF ViewerInv

(* ViewerInv is inductive.                                                  *)
LEMMA ViewerNextInv == ViewerInv /\ [ViewerNext]_viewerVars => ViewerInv'
<1>. SUFFICES ASSUME ViewerInv, [ViewerNext]_viewerVars PROVE ViewerInv'
  OBVIOUS
<1>1. CASE LoopStep \/ RecorderStep \/ \E c \in Command : CoroutineStep(c) \/ ThreadStep(c)
  BY <1>1, ViewerTakesLifecycleSteps, LifecycleStepKeeps DEF ViewerInv
<1>2. CASE \E running \in SUBSET Device : CoordinatorStarts(running)
  BY <1>2, StartKeeps
<1>3. CASE FrontendMissing \/ ServerStarts \/ ShutdownRequested \/ SessionClosed \/ ServerStops
  BY <1>3, QuietStepKeeps
<1>4. CASE ShutdownStep
  BY <1>4, CloseSessionKeeps, StopRecordersKeeps, JoinKeeps, QuietStepKeeps DEF ShutdownStep
<1>5. CASE UNCHANGED viewerVars
  BY <1>5 DEF viewerVars, programVars, vars, subsystems, commands, ViewerInv, LockInv, TypeOK,
     LockOrder, TransitKnown, Moving, UntilStop, MoversMatch, CommandsAlternate, FreshStart,
     Stages, LateWorkers, Reconnecting
<1>. QED
  BY <1>1, <1>2, <1>3, <1>4, <1>5 DEF ViewerNext

-----------------------------------------------------------------------------
(* From the start of the program to the end of its shutdown, for any devices *)
(* and requests, a device in transit has one command that will end it        *)
(* (run_viewer, shutdown_viewer, DeviceLifecycleService).                    *)
THEOREM OwnedThroughout == ViewerSpec => []TransitOwned
<1>1. ViewerInv => TransitOwned
  BY LockGivesOwner DEF ViewerInv
<1>. QED
  BY <1>1, ViewerInitInv, ViewerNextInv, PTL DEF ViewerSpec

(* Successful commands alternate until the coordinator is stopped, also      *)
(* those that arrive while the SCOPE sessions are being closed               *)
(* (shutdown_viewer).                                                        *)
THEOREM AlternatesThroughout == ViewerSpec => []AlternateUntilStop
<1>1. ViewerInv => AlternateUntilStop
  BY DEF ViewerInv, UntilStop, AlternateUntilStop
<1>. QED
  BY <1>1, ViewerInitInv, ViewerNextInv, PTL DEF ViewerSpec

(* Whatever stages raise and whatever requests arrive in between, a program  *)
(* that has ended records nothing, has stopped every SCOPE session that      *)
(* close() found, and runs a worker only if stop() said so or a reconnect    *)
(* was under way (shutdown_viewer, shutdown_runtime).                        *)
THEOREM ShutdownIsComplete == ViewerSpec => []EndedIsQuiet
<1>1. ViewerInv => EndedIsQuiet
  BY DEF ViewerInv, Stages, LateWorkers, Late, EndedIsQuiet
<1>. QED
  BY <1>1, ViewerInitInv, ViewerNextInv, PTL DEF ViewerSpec
=============================================================================
