------------------------------ MODULE Recording ------------------------------
(***************************************************************************)
(* RecordingManager and its SessionRecorders. Commands run on the event    *)
(* loop thread; the consumer thread takes events from the manager's queue  *)
(* and gives them to the session that is active when it has the lock,      *)
(* which may not be the one that was active when the event was published.  *)
(* Every command and every handled event holds the manager's lock, so each *)
(* is one step; taking an event out of the queue and publishing a write    *)
(* error happen outside it.                                                *)
(*                                                                         *)
(* The bus is the drop-oldest queue EventBus describes, with the publisher *)
(* as one step. Every write to a session's files may raise.                *)
(***************************************************************************)
EXTENDS Integers, Sequences, FiniteSets, SequencesExt

CONSTANTS
  Device,
  Session,      \* SessionRecorder objects
  NoSession,
  Interval,     \* recording intervals a user asks for, in ticks
  Poll,         \* poll_interval_s of every device, in ticks
  Second,       \* ticks in a second: the resolution of a session's directory
  MaxQueue,     \* maxsize of the manager's queue
  MaxTime       \* bound on the clock

ASSUME RecordingAssumption ==
  /\ NoSession \notin Session
  /\ Interval \subseteq Nat \ {0} /\ Poll \in Nat \ {0} /\ Second \in Nat \ {0}
  /\ MaxQueue \in Nat \ {0} /\ MaxTime \in Nat

VARIABLES
  now,
  lastCycle,    \* when the worker's last cycle ended, -1 for never
  newest,       \* RuntimeStore: cycle_finished_utc of last_sample, -1 for None
  queue,        \* _subscriber
  active,       \* _active
  failed,       \* _failed: the session whose error is shown for the device
  accept,       \* _accept_commands
  stopFlag,     \* _stop
  consumer, taken,   \* where the consumer thread is; the event it holds
  stopPc,       \* stop_all
  \* per session
  status,       \* "unused", "open", then "finished", "failed" or "abandoned"
  owner,        \* its device
  directory,    \* the second in the name of its directory
  interval, next,    \* _interval, _next_record_utc
  rows,         \* cycle_finished_utc of every CSV row; names the cycle too
  missed,       \* _missed
  base, before  \* history: start of the current grid; points settled before it

busVars == <<lastCycle, newest, queue>>
managerVars == <<active, failed, accept>>
threadVars == <<stopFlag, consumer, taken, stopPc>>
gridVars == <<interval, next, base, before>>
sessionVars == <<status, owner, directory, gridVars, rows, missed>>
vars == <<now, busVars, managerVars, threadVars, sessionVars>>

Init ==
  /\ now = 0
  /\ lastCycle = [d \in Device |-> -1]
  /\ newest = [d \in Device |-> -1]
  /\ queue = <<>>
  /\ active = [d \in Device |-> NoSession]
  /\ failed = [d \in Device |-> NoSession]
  /\ accept = TRUE /\ stopFlag = FALSE
  /\ consumer = "get" /\ taken = <<>> /\ stopPc = "idle"
  /\ status = [s \in Session |-> "unused"]
  /\ owner \in [Session -> Device]
  /\ directory = [s \in Session |-> -1]
  /\ interval = [s \in Session |-> 1]
  /\ next = [s \in Session |-> 0]
  /\ rows = [s \in Session |-> <<>>]
  /\ missed = [s \in Session |-> 0]
  /\ base = [s \in Session |-> 0]
  /\ before = [s \in Session |-> 0]

-----------------------------------------------------------------------------
(* RuntimeEventBus.publish on the manager's queue                           *)
Put(q, e) == IF Len(q) < MaxQueue THEN Append(q, e) ELSE Append(Tail(q), e)

Tick == /\ now < MaxTime
        /\ now' = now + 1
        /\ UNCHANGED <<busVars, managerVars, threadVars, sessionVars>>

(* A worker's cycle ends with a sample or with a diagnostic event; a device *)
(* has at most one cycle per tick.                                          *)
CycleEnds(d) == lastCycle[d] < now /\ lastCycle' = [lastCycle EXCEPT ![d] = now]

Sample(d) ==
  /\ CycleEnds(d)
  /\ newest' = [newest EXCEPT ![d] = now]
  /\ queue' = Put(queue, [kind |-> "sample", dev |-> d, at |-> now])
  /\ UNCHANGED <<now, managerVars, threadVars, sessionVars>>

FailedCycle(d) ==
  /\ CycleEnds(d)
  /\ queue' = Put(queue, [kind |-> "diagnostic", dev |-> d])
  /\ UNCHANGED <<now, newest, managerVars, threadVars, sessionVars>>

-----------------------------------------------------------------------------
(* consider_sample: the recording points that passed without a sample are   *)
(* missed, and the sample is written if the next point has come.            *)
Skipped(s, at) ==
  IF at >= next[s] + interval[s] THEN (at - next[s]) \div interval[s] ELSE 0

(* Variant: every sample is written. *)
DueAlways(s, at) == TRUE

Due(s, at) == at >= next[s]

(* Variant: the next point is one interval after the sample. *)
ConsiderDrifts(s, at) ==
  /\ missed' = [missed EXCEPT ![s] = @ + Skipped(s, at)]
  /\ IF Due(s, at)
     THEN /\ rows' = [rows EXCEPT ![s] = Append(@, at)]
          /\ next' = [next EXCEPT ![s] = at + interval[s]]
     ELSE UNCHANGED <<rows, next>>

Consider(s, at) ==
  /\ missed' = [missed EXCEPT ![s] = @ + Skipped(s, at)]
  /\ IF Due(s, at)
     THEN /\ rows' = [rows EXCEPT ![s] = Append(@, at)]
          /\ next' = [next EXCEPT ![s] = @ + (Skipped(s, at) + 1) * interval[s]]
     ELSE UNCHANGED <<rows, next>>

(* A write raised after some of the missed points were noted. *)
ConsiderRaises(s, at) ==
  /\ Due(s, at)
  /\ \E k \in 0..Skipped(s, at) :
       /\ missed' = [missed EXCEPT ![s] = @ + k]
       /\ next' = [next EXCEPT ![s] = @ + k * interval[s]]
  /\ UNCHANGED rows

-----------------------------------------------------------------------------
(* RecordingManager.start: the session's directory must not exist. The      *)
(* newest sample of the store is considered first; it may be any age.       *)
Stamp(t) == t \div Second

DirectoryFree(d) ==
  \A s \in Session : owner[s] = d => directory[s] # Stamp(now)

MayStart(d) == accept /\ active[d] = NoSession

Start(d, i) ==
  /\ MayStart(d)
  /\ newest[d] # -1
  /\ i >= Poll
  /\ DirectoryFree(d)
  /\ \E s \in Session :
       /\ status[s] = "unused" /\ owner[s] = d
       /\ directory' = [directory EXCEPT ![s] = Stamp(now)]
       /\ interval' = [interval EXCEPT ![s] = i]
       /\ base' = [base EXCEPT ![s] = now]
       /\ \/ /\ status' = [status EXCEPT ![s] = "open"]
             /\ active' = [active EXCEPT ![d] = s]
             /\ failed' = [failed EXCEPT ![d] = NoSession]
             /\ IF newest[d] = now
                THEN /\ rows' = [rows EXCEPT ![s] = <<now>>]
                     /\ next' = [next EXCEPT ![s] = now + i]
                ELSE /\ next' = [next EXCEPT ![s] = now]
                     /\ UNCHANGED rows
          \/ \* a file of the new directory cannot be written
             /\ status' = [status EXCEPT ![s] = "abandoned"]
             /\ next' = [next EXCEPT ![s] = now]
             /\ UNCHANGED <<active, failed, rows>>
  /\ UNCHANGED <<now, busVars, accept, threadVars, owner, missed, before>>

(* Variant: a stop notes a missed point although the next one has not come. *)
NotedAlways(s) == 1

Noted(s) == IF now >= next[s] THEN 1 ELSE 0

(* SessionRecorder.stop: at most one of the points that passed is noted,    *)
(* and any of its writes may raise, the one that notes it or a later one.   *)
Finish(s, outcome) ==
  /\ status' = [status EXCEPT ![s] = outcome]
  /\ \E n \in {Noted(s)} \cup (IF outcome = "finished" THEN {} ELSE {0}) :
       missed' = [missed EXCEPT ![s] = @ + n]

(* RecordingManager.stop takes the session out before it stops it. *)
Stop(d) ==
  /\ accept /\ active[d] # NoSession
  /\ active' = [active EXCEPT ![d] = NoSession]
  /\ \E outcome \in {"finished", "abandoned"} : Finish(active[d], outcome)
  /\ UNCHANGED <<now, busVars, failed, accept, threadVars, owner, directory, gridVars,
                 rows>>

SetInterval(d, i) ==
  /\ accept /\ active[d] # NoSession
  /\ i >= Poll
  /\ LET s == active[d] IN
       /\ interval' = [interval EXCEPT ![s] = i]
       /\ next' = [next EXCEPT ![s] = now + i]
       /\ base' = [base EXCEPT ![s] = now + i]
       /\ before' = [before EXCEPT ![s] = Len(rows[s]) + missed[s]]
  /\ UNCHANGED <<now, busVars, managerVars, threadVars, status, owner, directory, rows,
                 missed>>

-----------------------------------------------------------------------------
(* _consume *)
ConsumerGet ==
  /\ consumer = "get"
  /\ IF stopFlag
     THEN consumer' = "ended" /\ UNCHANGED <<queue, taken>>
     ELSE /\ queue # <<>>
          /\ taken' = Head(queue)
          /\ queue' = Tail(queue)
          /\ consumer' = "handle"
  /\ UNCHANGED <<now, lastCycle, newest, managerVars, stopFlag, stopPc, sessionVars>>

(* The event is dealt with. *)
Done == consumer' = "get" /\ taken' = <<>>

(* Variant: the session that failed stays active. *)
FailStaysActive(d, s) ==
  /\ failed' = [failed EXCEPT ![d] = s]
  /\ status' = [status EXCEPT ![s] = "failed"]
  /\ consumer' = "publish"
  /\ UNCHANGED <<active, taken>>

(* _recording_failure_event *)
Fail(d, s) ==
  /\ active' = [active EXCEPT ![d] = NoSession]
  /\ failed' = [failed EXCEPT ![d] = s]
  /\ status' = [status EXCEPT ![s] = "failed"]
  /\ consumer' = "publish"
  /\ UNCHANGED taken

HandleSample ==
  /\ consumer = "handle" /\ taken.kind = "sample"
  /\ LET d == taken.dev
         s == active[d]
     IN \/ /\ s = NoSession
           /\ Done
           /\ UNCHANGED <<active, failed, status, missed, rows, next>>
        \/ /\ s # NoSession
           /\ Consider(s, taken.at)
           /\ Done
           /\ UNCHANGED <<active, failed, status>>
        \/ /\ s # NoSession
           /\ ConsiderRaises(s, taken.at)
           /\ Fail(d, s)
  /\ UNCHANGED <<now, busVars, accept, stopFlag, stopPc, owner, directory,
                 interval, base, before>>

(* record_invalid_cycle: one event row, which may raise *)
HandleDiagnostic ==
  /\ consumer = "handle" /\ taken.kind = "diagnostic"
  /\ LET d == taken.dev
         s == active[d]
     IN \/ /\ Done
           /\ UNCHANGED <<active, failed, status>>
        \/ s # NoSession /\ Fail(d, s)
  /\ UNCHANGED <<now, busVars, accept, stopFlag, stopPc, owner, directory,
                 gridVars, rows, missed>>

(* RECORDING_WRITE_ERROR goes to the bus, and so back to this queue. *)
ConsumerPublish ==
  /\ consumer = "publish"
  /\ queue' = Put(queue, [kind |-> "diagnostic", dev |-> taken.dev])
  /\ Done
  /\ UNCHANGED <<now, lastCycle, newest, managerVars, stopFlag, stopPc, sessionVars>>

-----------------------------------------------------------------------------
(* Shutdown: disable_commands, then stop_all.                               *)
DisableCommands ==
  /\ accept
  /\ accept' = FALSE
  /\ UNCHANGED <<now, busVars, active, failed, threadVars, sessionVars>>

(* Every session is stopped, whether or not another raised. *)
StopAllSessions ==
  /\ ~accept /\ stopPc = "idle"
  /\ active' = [d \in Device |-> NoSession]
  /\ \E raised \in SUBSET {active[d] : d \in Device} : \E unnoted \in SUBSET raised :
       /\ status' = [s \in Session |->
                       IF s # active[owner[s]] THEN status[s]
                       ELSE IF s \in raised THEN "abandoned" ELSE "finished"]
       /\ missed' = [s \in Session |->
                       IF s # active[owner[s]] \/ s \in unnoted THEN missed[s]
                       ELSE missed[s] + Noted(s)]
  /\ stopPc' = "signal"
  /\ UNCHANGED <<now, busVars, failed, accept, stopFlag, consumer, taken, owner,
                 directory, gridVars, rows>>

StopAllSignal ==
  /\ stopPc = "signal"
  /\ stopFlag' = TRUE
  /\ stopPc' = "join"
  /\ UNCHANGED <<now, busVars, managerVars, consumer, taken, sessionVars>>

(* The join ends, with the thread or at its timeout. *)
StopAllJoined ==
  /\ stopPc = "join"
  /\ stopPc' = IF consumer = "ended" THEN "done" ELSE "stuck"
  /\ UNCHANGED <<now, busVars, managerVars, stopFlag, consumer, taken, sessionVars>>

-----------------------------------------------------------------------------
ConsumerStep == ConsumerGet \/ HandleSample \/ HandleDiagnostic \/ ConsumerPublish
StopAllStep == StopAllSessions \/ StopAllSignal \/ StopAllJoined

Next ==
  \/ Tick \/ DisableCommands \/ ConsumerStep \/ StopAllStep
  \/ \E d \in Device : Sample(d) \/ FailedCycle(d) \/ Stop(d)
  \/ \E d \in Device, i \in Interval : Start(d, i) \/ SetInterval(d, i)

Spec == Init /\ [][Next]_vars

-----------------------------------------------------------------------------
(* The session of a device that receives events is open and its own, and    *)
(* every open session receives them: none is written to after it was        *)
(* closed, and none is left open without anybody feeding or closing it.     *)
ActiveIsOpen ==
  /\ \A d \in Device : active[d] # NoSession
       => status[active[d]] = "open" /\ owner[active[d]] = d
  /\ \A s \in Session : status[s] = "open" => active[owner[s]] = s

(* Rows and missed points are as many as the grid has points before next.  *)
PointsSettled ==
  \A s \in Session : status[s] \in {"open", "failed"}
    => next[s] = base[s] + interval[s] * (Len(rows[s]) + missed[s] - before[s])

(* The last row or missed point is one that the clock has reached.          *)
PointsHaveCome ==
  \A s \in Session : status[s] # "unused"
    => base[s] + interval[s] * (Len(rows[s]) + missed[s] - before[s]) <= now + interval[s]

(* Every recording point that was passed since the session began, or since  *)
(* set_interval last laid a new grid, is a row or a missed point, never     *)
(* both and never neither, however late the consumer is and whatever        *)
(* samples the queue lost. (Points of the old grid that no sample had       *)
(* passed when the interval changed are dropped: they are neither.) And no  *)
(* point is accounted for before it has come: not in an open session, nor   *)
(* in an ended one, whose stop() noted a point of its own or raised on the  *)
(* way.                                                                     *)
PointsAccounted == PointsSettled /\ PointsHaveCome

(* "a gap is event, not zero or repeated measurement" (tests): the rows of  *)
(* a session are distinct measurements in the order they were made, though  *)
(* the newest sample of the store and the queue both offer the same ones.   *)
RowsInOrder ==
  \A s \in Session : \A i \in 1..(Len(rows[s]) - 1) : rows[s][i] < rows[s][i + 1]
=============================================================================
