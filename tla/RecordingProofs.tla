-------------------------- MODULE RecordingProofs --------------------------
(***************************************************************************)
(* Proofs about Recording for any devices, sessions, intervals, queue size *)
(* and clock: the sessions that are fed are the open ones, the recording   *)
(* points add up, and no measurement is written twice.                     *)
(***************************************************************************)
EXTENDS Recording, SequenceTheorems, TLAPS

(* The events the bus has published by the time t *)
Event(t) ==
  [kind : {"sample"}, dev : Device, at : 0..t] \cup [kind : {"diagnostic"}, dev : Device]

Status == {"unused", "open", "finished", "failed", "abandoned"}

TypeOK ==
  /\ now \in Nat
  /\ queue \in Seq(Event(now))
  /\ active \in [Device -> Session \cup {NoSession}]
  /\ consumer \in {"get", "handle", "publish", "ended"}
  /\ consumer \in {"handle", "publish"} => taken \in Event(now)
  /\ status \in [Session -> Status]
  /\ owner \in [Session -> Device]
  /\ interval \in [Session -> Nat \ {0}]
  /\ next \in [Session -> Nat]
  /\ rows \in [Session -> Seq(0..now)]
  /\ missed \in [Session -> Nat]
  /\ base \in [Session -> Nat]
  /\ before \in [Session -> Nat]

(* No start has used the session yet. *)
Fresh ==
  \A s \in Session : status[s] = "unused" => rows[s] = <<>> /\ missed[s] = 0 /\ before[s] = 0

(* A row was written at a recording point that has passed. *)
RowsBeforeNext ==
  \A s \in Session : status[s] = "open" => \A i \in 1..Len(rows[s]) : rows[s][i] < next[s]

RecordingInv ==
  /\ TypeOK /\ Fresh /\ RowsBeforeNext /\ ActiveIsOpen
  /\ PointsSettled /\ PointsHaveCome /\ RowsInOrder

-----------------------------------------------------------------------------
(* The grid of recording points *)

(* The points a sample at the time a skips, and the point after it *)
LEMMA SkippedPoints ==
  \A a, n \in Nat, i \in Nat \ {0} : a >= n =>
    /\ (a - n) \div i \in Nat
    /\ a < n + ((a - n) \div i + 1) * i
    /\ n + ((a - n) \div i) * i <= a
<1>1. \A d \in Nat, i \in Nat \ {0} :
        d \div i \in Nat /\ d < (d \div i + 1) * i /\ (d \div i) * i <= d
  OBVIOUS
<1>. QED
  BY <1>1

Points(n, i, a) == IF a >= n + i THEN (a - n) \div i ELSE 0

LEMMA SkippedBound ==
  \A a, n \in Nat, i \in Nat \ {0} :
    /\ Points(n, i, a) \in Nat
    /\ a < n => Points(n, i, a) = 0
    /\ a >= n => a < n + (Points(n, i, a) + 1) * i /\ n + Points(n, i, a) * i <= a
<1>. SUFFICES ASSUME NEW a \in Nat, NEW n \in Nat, NEW i \in Nat \ {0}
              PROVE  /\ Points(n, i, a) \in Nat
                     /\ a < n => Points(n, i, a) = 0
                     /\ a >= n => a < n + (Points(n, i, a) + 1) * i /\ n + Points(n, i, a) * i <= a
  OBVIOUS
<1>1. CASE a >= n + i
  BY <1>1, SkippedPoints DEF Points
<1>2. CASE ~(a >= n + i)
  BY <1>2 DEF Points
<1>. QED
  BY <1>1, <1>2

(* Fewer points are not further. *)
LEMMA FewerPoints ==
  \A n, k \in Nat, i \in Nat \ {0} : \A m \in 0..k : n + m * i <= n + k * i
<1>1. \A x, y, i \in Nat : x * i <= (x + y) * i
  OBVIOUS
<1>2. \A k \in Nat : \A m \in 0..k : m \in Nat /\ k - m \in Nat /\ m + (k - m) = k
  OBVIOUS
<1>3. \A k, i \in Nat : \A m \in 0..k : m * i <= k * i
  BY <1>1, <1>2
<1>4. \A n, x, y \in Nat : x <= y => n + x <= n + y
  OBVIOUS
<1>5. \A x, y \in Nat : x * y \in Nat
  OBVIOUS
<1>. QED
  BY <1>2, <1>3, <1>4, <1>5

(* m points further on the same grid *)
LEMMA PointsAdd ==
  \A n, m \in Nat, i \in Nat \ {0}, b, c \in Int : n = b + i * c =>
    n + m * i \in Nat /\ n + m * i >= n /\ n + m * i = b + i * (c + m)
<1>. SUFFICES ASSUME NEW n \in Nat, NEW m \in Nat, NEW i \in Nat \ {0}, NEW b \in Int, NEW c \in Int,
                     n = b + i * c
              PROVE  n + m * i \in Nat /\ n + m * i >= n /\ n + m * i = b + i * (c + m)
  OBVIOUS
<1>1. m * i \in Nat
  OBVIOUS
<1>2. i * (c + m) = i * c + m * i /\ i * c \in Int
  OBVIOUS
<1>3. \A x \in Nat : n + x \in Nat /\ n + x >= n
  OBVIOUS
<1>. QED
  BY <1>1, <1>2, <1>3

LEMMA RowsGrow ==
  ASSUME NEW m \in Nat, NEW q \in Seq(0..m), NEW a \in 0..m, NEW n \in Nat, n > a,
         \A i \in 1..(Len(q) - 1) : q[i] < q[i + 1],
         \A i \in 1..Len(q) : q[i] < a
  PROVE  /\ Append(q, a) \in Seq(0..m) /\ Len(Append(q, a)) = Len(q) + 1
         /\ \A i \in 1..(Len(Append(q, a)) - 1) : Append(q, a)[i] < Append(q, a)[i + 1]
         /\ \A i \in 1..Len(Append(q, a)) : Append(q, a)[i] < n
<1>1. /\ Append(q, a) \in Seq(0..m) /\ Len(Append(q, a)) = Len(q) + 1
      /\ Append(q, a)[Len(q) + 1] = a
      /\ \A i \in 1..Len(q) : Append(q, a)[i] = q[i]
  BY AppendProperties
<1>2. Len(q) \in Nat /\ \A i \in 1..Len(q) : q[i] \in Int
  OBVIOUS
<1>3. ASSUME NEW i \in 1..Len(q) PROVE Append(q, a)[i] < Append(q, a)[i + 1]
  <2>1. CASE i = Len(q)
    BY <1>1, <1>2, <2>1
  <2>2. CASE i # Len(q)
    <3>1. i \in 1..(Len(q) - 1) /\ i + 1 \in 1..Len(q)
      BY <1>2, <2>2
    <3>. QED
      BY <1>1, <3>1
  <2>. QED
    BY <2>1, <2>2
<1>4. ASSUME NEW i \in 1..(Len(q) + 1) PROVE Append(q, a)[i] < n
  <2>1. CASE i = Len(q) + 1
    BY <1>1, <2>1
  <2>2. CASE i # Len(q) + 1
    <3>1. i \in 1..Len(q)
      BY <1>2, <2>2
    <3>2. q[i] < a /\ q[i] \in Int
      BY <1>2, <3>1
    <3>. QED
      BY <1>1, <3>1, <3>2
  <2>. QED
    BY <2>1, <2>2
<1>. QED
  BY <1>1, <1>2, <1>3, <1>4

-----------------------------------------------------------------------------
LEMMA RecordingInitInv == Init => RecordingInv
<1>. USE RecordingAssumption
<1>1. SUFFICES ASSUME Init PROVE RecordingInv
  OBVIOUS
<1>2. /\ now = 0 /\ queue = <<>> /\ consumer = "get"
      /\ active = [d \in Device |-> NoSession]
      /\ status = [s \in Session |-> "unused"] /\ owner \in [Session -> Device]
      /\ interval = [s \in Session |-> 1] /\ next = [s \in Session |-> 0]
      /\ rows = [s \in Session |-> <<>>] /\ missed = [s \in Session |-> 0]
      /\ base = [s \in Session |-> 0] /\ before = [s \in Session |-> 0]
  BY <1>1 DEF Init
<1>3. <<>> \in Seq(Event(0)) /\ <<>> \in Seq(0..0) /\ Len(<<>>) = 0
  OBVIOUS
<1>4. TypeOK
  BY <1>2, <1>3 DEF TypeOK, Status
<1>5. Fresh /\ RowsBeforeNext /\ ActiveIsOpen /\ PointsSettled /\ PointsHaveCome
  BY <1>2 DEF Fresh, RowsBeforeNext, ActiveIsOpen, PointsSettled, PointsHaveCome
<1>6. RowsInOrder
  BY <1>2, <1>3 DEF RowsInOrder
<1>. QED
  BY <1>4, <1>5, <1>6 DEF RecordingInv

(* Steps that leave every session, and who feeds it, as it is *)
LEMMA SessionsKept ==
  ASSUME RecordingInv, TypeOK', UNCHANGED <<active, status, owner, gridVars, rows, missed>>,
         now' = now \/ now' = now + 1
  PROVE  RecordingInv'
<1>1. Fresh' /\ RowsBeforeNext' /\ ActiveIsOpen' /\ PointsSettled' /\ RowsInOrder'
  BY DEF RecordingInv, Fresh, RowsBeforeNext, ActiveIsOpen, PointsSettled, RowsInOrder, gridVars
<1>2. PointsHaveCome'
  <2>. SUFFICES ASSUME NEW s \in Session, status[s] # "unused"
                PROVE  base[s] + interval[s] * (Len(rows[s]) + missed[s] - before[s]) <= now' + interval[s]
    BY DEF PointsHaveCome, gridVars
  <2>. DEFINE p == base[s] + interval[s] * (Len(rows[s]) + missed[s] - before[s])
  <2>1. p <= now + interval[s]
    BY DEF RecordingInv, PointsHaveCome
  <2>2. /\ interval[s] \in Nat /\ base[s] \in Nat /\ now \in Nat
        /\ Len(rows[s]) + missed[s] - before[s] \in Int
    BY DEF RecordingInv, TypeOK
  <2>3. \A x, y, z \in Int : x + y * z \in Int
    OBVIOUS
  <2>4. p \in Int
    BY <2>2, <2>3
  <2>. HIDE DEF p
  <2>5. p <= now' + interval[s]
    BY <2>1, <2>2, <2>4
  <2>. QED
    BY <2>5 DEF p
<1>. QED
  BY <1>1, <1>2 DEF RecordingInv

LEMMA PutTypes ==
  ASSUME NEW S, NEW q \in Seq(S), NEW e \in S
  PROVE  Put(q, e) \in Seq(S)
<1>1. Append(q, e) \in Seq(S)
  BY AppendProperties
<1>2. CASE Len(q) < MaxQueue
  BY <1>1, <1>2 DEF Put
<1>3. CASE ~(Len(q) < MaxQueue)
  <2>1. q # <<>>
    BY <1>3, RecordingAssumption
  <2>2. Tail(q) \in Seq(S)
    BY <2>1, HeadTailProperties
  <2>. QED
    BY <1>3, <2>2, AppendProperties DEF Put
<1>. QED
  BY <1>2, <1>3

LEMMA BusInv ==
  ASSUME RecordingInv, Tick \/ \E d \in Device : Sample(d) \/ FailedCycle(d)
  PROVE  RecordingInv'
<1>. USE DEF RecordingInv, TypeOK
<1>1. CASE Tick
  <2>1. 0..now \subseteq 0..now' /\ now' \in Nat
    BY <1>1 DEF Tick
  <2>2. Event(now) \subseteq Event(now')
    BY <2>1 DEF Event
  <2>3. queue' \in Seq(Event(now')) /\ rows' \in [Session -> Seq(0..now')]
    BY <1>1, <2>1, <2>2 DEF Tick, busVars, sessionVars
  <2>4. TypeOK'
    BY <1>1, <2>1, <2>2, <2>3 DEF Tick, busVars, managerVars, threadVars, sessionVars, gridVars
  <2>. QED
    BY <1>1, <2>4, SessionsKept DEF Tick, managerVars, sessionVars
<1>2. ASSUME NEW d \in Device, Sample(d) \/ FailedCycle(d) PROVE RecordingInv'
  <2>1. /\ [kind |-> "sample", dev |-> d, at |-> now] \in Event(now)
        /\ [kind |-> "diagnostic", dev |-> d] \in Event(now)
    BY DEF Event
  <2>2. queue' \in Seq(Event(now))
    <3>1. queue \in Seq(Event(now))
      BY DEF TypeOK
    <3>2. \/ queue' = Put(queue, [kind |-> "sample", dev |-> d, at |-> now])
          \/ queue' = Put(queue, [kind |-> "diagnostic", dev |-> d])
      BY ONLY <1>2 DEF Sample, FailedCycle
    <3>. QED
      BY ONLY <2>1, <3>1, <3>2, RecordingAssumption, PutTypes
  <2>3. TypeOK'
    BY <1>2, <2>2 DEF Sample, FailedCycle, managerVars, threadVars, sessionVars, gridVars
  <2>. QED
    BY <1>2, <2>3, SessionsKept DEF Sample, FailedCycle, managerVars, sessionVars
<1>. QED
  BY <1>1, <1>2

LEMMA QueueInv ==
  ASSUME RecordingInv, ConsumerGet \/ ConsumerPublish
  PROVE  RecordingInv'
<1>. USE DEF RecordingInv, TypeOK
<1>1. CASE ConsumerGet
  <2>1. CASE stopFlag
    BY <1>1, <2>1, SessionsKept DEF ConsumerGet, managerVars, sessionVars, gridVars
  <2>2. CASE ~stopFlag
    <3>1. Head(queue) \in Event(now) /\ Tail(queue) \in Seq(Event(now))
      BY <1>1, <2>2, HeadTailProperties DEF ConsumerGet
    <3>2. TypeOK'
      BY <1>1, <2>2, <3>1 DEF ConsumerGet, managerVars, sessionVars, gridVars
    <3>. QED
      BY <1>1, <3>2, SessionsKept DEF ConsumerGet, managerVars, sessionVars
  <2>. QED
    BY <2>1, <2>2
<1>2. CASE ConsumerPublish
  <2>1. [kind |-> "diagnostic", dev |-> taken.dev] \in Event(now)
    BY <1>2 DEF ConsumerPublish, Event
  <2>2. TypeOK'
    BY <1>2, <2>1, PutTypes DEF ConsumerPublish, Done, managerVars, sessionVars, gridVars
  <2>. QED
    BY <1>2, <2>2, SessionsKept DEF ConsumerPublish, managerVars, sessionVars
<1>. QED
  BY <1>1, <1>2

-----------------------------------------------------------------------------
(* A sample in the session that is fed *)

(* What a step does to the grid of one session, and to no other session *)
OnlyGridOf(s) ==
  /\ next' \in [Session -> Nat] /\ missed' \in [Session -> Nat]
  /\ rows' \in [Session -> Seq(0..now)]
  /\ \A r \in Session \ {s} : next'[r] = next[r] /\ missed'[r] = missed[r] /\ rows'[r] = rows[r]
  /\ next'[s] = base[s] + interval[s] * (Len(rows'[s]) + missed'[s] - before[s])
  /\ next'[s] <= now + interval[s]
  /\ \A i \in 1..Len(rows'[s]) : rows'[s][i] < next'[s]
  /\ \A i \in 1..(Len(rows'[s]) - 1) : rows'[s][i] < rows'[s][i + 1]

LEMMA ConsiderKeepsGrid ==
  ASSUME RecordingInv, NEW s \in Session, status[s] = "open", NEW a \in 0..now,
         Consider(s, a) \/ ConsiderRaises(s, a)
  PROVE  OnlyGridOf(s)
<1>. DEFINE n == next[s]
            i == interval[s]
            k == Skipped(s, a)
            c == Len(rows[s]) + missed[s] - before[s]
<1>1. /\ n \in Nat /\ i \in Nat \ {0} /\ a \in Nat /\ rows[s] \in Seq(0..now) /\ now \in Nat
      /\ missed[s] \in Nat /\ before[s] \in Nat /\ base[s] \in Nat /\ Len(rows[s]) \in Nat
  BY DEF RecordingInv, TypeOK
<1>2. /\ n = base[s] + i * c /\ c \in Int
      /\ n <= now + i
  <2>1. c \in Int
    BY <1>1
  <2>2. n = base[s] + i * c
    BY DEF RecordingInv, PointsSettled
  <2>3. base[s] + i * c <= now + i
    BY DEF RecordingInv, PointsHaveCome
  <2>. QED
    BY ONLY <2>1, <2>2, <2>3
<1>12. /\ \A j \in 1..Len(rows[s]) : rows[s][j] < n
       /\ \A j \in 1..(Len(rows[s]) - 1) : rows[s][j] < rows[s][j + 1]
  BY DEF RecordingInv, RowsBeforeNext, RowsInOrder
<1>3. k = Points(n, i, a)
  BY DEF Skipped, Points
<1>4. \A j \in 1..Len(rows[s]) : rows[s][j] \in Int
  BY <1>1
<1>5. /\ next \in [Session -> Nat] /\ missed \in [Session -> Nat]
      /\ rows \in [Session -> Seq(0..now)]
  BY DEF RecordingInv, TypeOK
<1>. HIDE DEF n, i, k
<1>6. k \in Nat /\ (a < n => k = 0) /\ (a >= n => a < n + (k + 1) * i /\ n + k * i <= a)
  <2>1. n \in Nat /\ i \in Nat \ {0} /\ a \in Nat
    BY <1>1
  <2>. QED
    BY ONLY <1>3, <2>1, SkippedBound
<1>7. c \in Int /\ c = Len(rows[s]) + missed[s] - before[s]
  BY <1>2
<1>. HIDE DEF c
<1>8. ASSUME NEW m \in Nat
      PROVE  n + m * i \in Nat /\ n + m * i >= n /\ n + m * i = base[s] + i * (c + m)
  <2>1. n \in Nat /\ i \in Nat \ {0} /\ base[s] \in Int /\ c \in Int /\ n = base[s] + i * c
    BY <1>1, <1>2, <1>7
  <2>. QED
    BY ONLY <2>1, m \in Nat, PointsAdd
<1>9. CASE Consider(s, a) /\ a >= n
  <2>1. /\ rows' = [rows EXCEPT ![s] = Append(rows[s], a)]
        /\ next' = [next EXCEPT ![s] = n + (k + 1) * i]
        /\ missed' = [missed EXCEPT ![s] = missed[s] + k]
    BY <1>9 DEF Consider, Due, n, i, k
  <2>2. \A j \in 1..Len(rows[s]) : rows[s][j] < a
    BY <1>1, <1>12, <1>4, <1>9
  <2>3. k + 1 \in Nat
    BY <1>6
  <2>30. n + (k + 1) * i \in Nat
    BY <1>8, <2>3, Zenon
  <2>31. n + (k + 1) * i > a
    BY <1>1, <1>6, <1>9, <2>30
  <2>4. rows'[s] = Append(rows[s], a) /\ missed'[s] = missed[s] + k /\ next'[s] = n + (k + 1) * i
    BY <1>5, <2>1
  <2>5. /\ rows'[s] \in Seq(0..now) /\ Len(rows'[s]) = Len(rows[s]) + 1
        /\ \A j \in 1..(Len(rows'[s]) - 1) : rows'[s][j] < rows'[s][j + 1]
        /\ \A j \in 1..Len(rows'[s]) : rows'[s][j] < next'[s]
    <3>1. next'[s] \in Nat /\ next'[s] > a
      BY <2>30, <2>31, <2>4
    <3>2. /\ Append(rows[s], a) \in Seq(0..now) /\ Len(Append(rows[s], a)) = Len(rows[s]) + 1
      BY ONLY <1>1, a \in 0..now, AppendProperties
    <3>3. \A j \in 1..(Len(Append(rows[s], a)) - 1) : Append(rows[s], a)[j] < Append(rows[s], a)[j + 1]
      BY ONLY <1>1, <1>12, a \in 0..now, <2>2, <3>1, RowsGrow
    <3>4. \A j \in 1..Len(Append(rows[s], a)) : Append(rows[s], a)[j] < next'[s]
      BY ONLY <1>1, <1>12, a \in 0..now, <2>2, <3>1, RowsGrow
    <3>. QED
      BY ONLY <2>4, <3>1, <3>2, <3>3, <3>4
  <2>6. c + (k + 1) = Len(rows'[s]) + missed'[s] - before[s]
    <3>1. Len(rows'[s]) = Len(rows[s]) + 1 /\ missed'[s] = missed[s] + k
      BY <2>4, <2>5
    <3>. DEFINE l == Len(rows[s])
                x == missed[s]
                b == before[s]
    <3>2. c = l + x - b /\ {l, x, b, k} \subseteq Nat
      BY <1>1, <1>6, <1>7
    <3>. HIDE DEF l, x, b
    <3>3. c + (k + 1) = (l + 1) + (x + k) - b
      BY ONLY <3>2
    <3>. QED
      BY ONLY <3>1, <3>3 DEF l, x, b
  <2>7. next'[s] = base[s] + interval[s] * (Len(rows'[s]) + missed'[s] - before[s])
    BY <1>8, <2>3, <2>4, <2>6 DEF i
  <2>8. missed[s] + k \in Nat
    BY <1>1, <1>6
  <2>9. /\ next' \in [Session -> Nat] /\ missed' \in [Session -> Nat]
        /\ rows' \in [Session -> Seq(0..now)]
    BY <1>5, <2>1, <2>30, <2>4, <2>5, <2>8
  <2>10. next'[s] <= now + interval[s]
    <3>1. (k + 1) * i = k * i + i /\ k * i \in Nat
      BY <1>1, <1>6
    <3>2. n + (k * i + i) <= now + i
      BY <1>1, <1>6, <1>9, <3>1
    <3>. QED
      BY <2>4, <3>1, <3>2 DEF i
  <2>. QED
    BY <1>5, <2>1, <2>10, <2>5, <2>7, <2>9 DEF OnlyGridOf
<1>10. CASE Consider(s, a) /\ ~(a >= n)
  <2>1. UNCHANGED <<rows, next>> /\ missed' = [missed EXCEPT ![s] = missed[s] + k]
    BY <1>10 DEF Consider, Due, n, k
  <2>2. missed' = missed
    BY <1>1, <1>5, <1>6, <1>10, <2>1
  <2>. QED
    BY <1>2, <1>12, <1>5, <1>7, <2>1, <2>2 DEF OnlyGridOf, n, i
<1>11. CASE ConsiderRaises(s, a)
  <2>1. PICK m \in 0..k : /\ missed' = [missed EXCEPT ![s] = missed[s] + m]
                          /\ next' = [next EXCEPT ![s] = n + m * i]
                          /\ rows' = rows
    BY <1>11 DEF ConsiderRaises, n, i, k
  <2>2. m \in Nat
    BY <1>6, <2>1
  <2>3. n + m * i \in Nat /\ n + m * i >= n /\ n + m * i = base[s] + i * (c + m)
    BY <1>8, <2>2
  <2>4. missed'[s] = missed[s] + m /\ next'[s] = n + m * i /\ rows'[s] = rows[s]
    BY <1>5, <2>1
  <2>5. c + m = Len(rows'[s]) + missed'[s] - before[s]
    <3>. DEFINE l == Len(rows[s])
                x == missed[s]
                b == before[s]
    <3>1. c = l + x - b /\ {l, x, b, m} \subseteq Nat
      BY <1>1, <1>7, <2>2
    <3>. HIDE DEF l, x, b
    <3>2. c + m = l + (x + m) - b
      BY ONLY <3>1
    <3>. QED
      BY ONLY <2>4, <3>2 DEF l, x, b
  <2>6. next'[s] = base[s] + interval[s] * (Len(rows'[s]) + missed'[s] - before[s])
    BY <2>3, <2>4, <2>5 DEF i
  <2>7. \A j \in 1..Len(rows[s]) : rows[s][j] < n + m * i
    <3>1. \A x, y, z \in Int : x < y /\ z >= y => x < z
      OBVIOUS
    <3>2. n \in Int /\ n + m * i \in Int /\ n + m * i >= n
      BY <1>1, <2>3
    <3>3. ASSUME NEW j \in 1..Len(rows[s]) PROVE rows[s][j] < n + m * i
      <4>1. rows[s][j] \in Int /\ rows[s][j] < n
        BY <1>12, <1>4, Zenon
      <4>. QED
        BY ONLY <3>1, <3>2, <4>1, Zenon
    <3>. QED
      BY <3>3, Zenon
  <2>8. missed[s] + m \in Nat
    BY <1>1, <2>2
  <2>9. next' \in [Session -> Nat] /\ missed' \in [Session -> Nat]
    BY <1>5, <2>1, <2>3, <2>8
  <2>10. next'[s] <= now + interval[s]
    <3>1. a >= n
      BY <1>11 DEF ConsiderRaises, Due, n
    <3>2. n + m * i <= n + k * i
      BY <1>1, <1>6, <2>1, FewerPoints
    <3>3. k * i \in Nat
      BY <1>1, <1>6
    <3>4. n + m * i <= now + i
      <4>1. n + k * i <= a /\ a <= now
        BY <1>6, <3>1
      <4>2. n \in Nat /\ now \in Nat /\ a \in Nat /\ i \in Nat /\ n + k * i \in Nat
        BY <1>1, <3>3
      <4>3. \A w, x, y, z, j \in Nat : w <= x /\ x <= y /\ y <= z => w <= z + j
        OBVIOUS
      <4>. QED
        BY ONLY <2>3, <3>2, <4>1, <4>2, <4>3, ZenonT(30)
    <3>. QED
      BY <2>4, <3>4 DEF i
  <2>. QED
    BY <1>12, <1>5, <2>1, <2>10, <2>4, <2>6, <2>7, <2>9 DEF OnlyGridOf
<1>. QED
  BY <1>9, <1>10, <1>11

LEMMA HandleInv ==
  ASSUME RecordingInv, HandleSample \/ HandleDiagnostic
  PROVE  RecordingInv'
<1>. USE RecordingAssumption DEF RecordingInv
<1>1. consumer = "handle" /\ taken \in Event(now)
  BY DEF HandleSample, HandleDiagnostic, TypeOK
<1>. DEFINE d == taken.dev
            s == active[d]
<1>2. d \in Device /\ (taken.kind = "sample" => taken.at \in 0..now)
  BY <1>1 DEF Event
<1>3. UNCHANGED <<now, queue, owner, interval, base, before>> /\ consumer' \in {"get", "publish"}
      /\ (consumer' = "publish" => taken' = taken)
  BY DEF HandleSample, HandleDiagnostic, Done, Fail, busVars, gridVars
<1>4. s # NoSession => s \in Session /\ status[s] = "open" /\ owner[s] = d
  BY <1>2 DEF TypeOK, ActiveIsOpen
<1>. HIDE DEF d, s
<1>5. \/ UNCHANGED <<next, missed, rows>>
      \/ s # NoSession /\ OnlyGridOf(s)
  BY <1>2, <1>4, ConsiderKeepsGrid DEF HandleSample, HandleDiagnostic, d, s, gridVars
<1>6. \/ UNCHANGED <<active, status>>
      \/ /\ s # NoSession
         /\ active' = [active EXCEPT ![d] = NoSession]
         /\ status' = [status EXCEPT ![s] = "failed"]
  BY DEF HandleSample, HandleDiagnostic, Fail, d, s
<1>7. TypeOK'
  BY <1>1, <1>3, <1>4, <1>5, <1>6 DEF TypeOK, OnlyGridOf, Status
<1>8. Fresh'
  BY <1>3, <1>4, <1>5, <1>6 DEF TypeOK, Fresh, OnlyGridOf
<1>9. RowsBeforeNext'
  BY <1>3, <1>4, <1>5, <1>6 DEF TypeOK, RowsBeforeNext, OnlyGridOf
<1>10. ActiveIsOpen'
  <2>1. CASE UNCHANGED <<active, status>>
    BY <1>3, <2>1 DEF ActiveIsOpen
  <2>2. CASE ~UNCHANGED <<active, status>>
    <3>1. /\ s \in Session /\ owner[s] = d /\ d \in Device
          /\ \A e \in Device : active'[e] = IF e = d THEN NoSession ELSE active[e]
          /\ \A r \in Session : status'[r] = IF r = s THEN "failed" ELSE status[r]
      BY <1>2, <1>4, <1>6, <2>2 DEF TypeOK, d
    <3>2. \A e \in Device \ {d} : active[e] # s
      BY <3>1 DEF ActiveIsOpen
    <3>3. \A r \in Session \ {s} : status[r] = "open" => owner[r] # d
      BY <3>1 DEF ActiveIsOpen, s
    <3>4. ASSUME NEW e \in Device, active'[e] # NoSession
          PROVE  status'[active'[e]] = "open" /\ owner'[active'[e]] = e
      <4>1. e # d /\ active'[e] = active[e] /\ active[e] \in Session \ {s}
        BY <3>1, <3>2, <3>4 DEF TypeOK
      <4>. QED
        BY <1>3, <3>1, <4>1 DEF ActiveIsOpen
    <3>5. ASSUME NEW r \in Session, status'[r] = "open" PROVE active'[owner'[r]] = r
      <4>1. r # s /\ status[r] = "open"
        BY <3>1, <3>5
      <4>2. active[owner[r]] = r /\ owner[r] # d /\ owner[r] \in Device
        BY <3>3, <4>1 DEF ActiveIsOpen, TypeOK
      <4>. QED
        BY <1>3, <3>1, <4>2
    <3>. QED
      BY <3>4, <3>5 DEF ActiveIsOpen
  <2>. QED
    BY <2>1, <2>2
<1>11. PointsSettled'
  BY <1>3, <1>4, <1>5, <1>6 DEF TypeOK, PointsSettled, OnlyGridOf
<1>12. RowsInOrder'
  BY <1>3, <1>4, <1>5 DEF TypeOK, RowsInOrder, OnlyGridOf
<1>13. PointsHaveCome'
  <2>. SUFFICES ASSUME NEW r \in Session, status'[r] # "unused"
                PROVE  base[r] + interval[r] * (Len(rows'[r]) + missed'[r] - before[r])
                         <= now + interval[r]
    BY <1>3 DEF PointsHaveCome
  <2>1. status[r] # "unused"
    BY <1>4, <1>6 DEF TypeOK
  <2>2. CASE rows'[r] = rows[r] /\ missed'[r] = missed[r]
    BY <2>1, <2>2 DEF PointsHaveCome
  <2>3. CASE r = s /\ OnlyGridOf(s)
    BY <2>3 DEF OnlyGridOf
  <2>. QED
    BY <1>4, <1>5, <2>2, <2>3 DEF OnlyGridOf
<1>. QED
  BY <1>7, <1>8, <1>9, <1>10, <1>11, <1>12, <1>13

-----------------------------------------------------------------------------
LEMMA StartInv ==
  ASSUME RecordingInv, NEW d \in Device, NEW i \in Interval, Start(d, i)
  PROVE  RecordingInv'
<1>. USE RecordingAssumption DEF RecordingInv
<1>1. PICK s \in Session :
        /\ status[s] = "unused" /\ owner[s] = d
        /\ interval' = [interval EXCEPT ![s] = i]
        /\ base' = [base EXCEPT ![s] = now]
        /\ \/ /\ status' = [status EXCEPT ![s] = "open"]
              /\ active' = [active EXCEPT ![d] = s]
              /\ \/ /\ rows' = [rows EXCEPT ![s] = <<now>>]
                    /\ next' = [next EXCEPT ![s] = now + i]
                 \/ /\ next' = [next EXCEPT ![s] = now]
                    /\ rows' = rows
           \/ /\ status' = [status EXCEPT ![s] = "abandoned"]
              /\ next' = [next EXCEPT ![s] = now]
              /\ UNCHANGED <<active, rows>>
  BY DEF Start
<1>2. active[d] = NoSession /\ UNCHANGED <<now, queue, consumer, taken, owner, missed, before>>
  BY DEF Start, MayStart, busVars, threadVars
<1>3. i \in Nat \ {0} /\ now \in Nat /\ now + i \in Nat /\ now + i > now /\ <<now>> \in Seq(0..now)
  BY DEF TypeOK
<1>4. rows[s] = <<>> /\ missed[s] = 0 /\ before[s] = 0
  BY <1>1 DEF Fresh
<1>5. \/ rows'[s] = <<now>> /\ next'[s] = now + i
      \/ rows'[s] = <<>> /\ next'[s] = now
  BY <1>1, <1>4 DEF TypeOK
<1>6. /\ base'[s] = now /\ interval'[s] = i /\ missed'[s] = 0 /\ before'[s] = 0
      /\ status'[s] \in {"open", "abandoned"}
      /\ \A r \in Session \ {s} : /\ status'[r] = status[r] /\ next'[r] = next[r]
                                  /\ rows'[r] = rows[r] /\ interval'[r] = interval[r]
                                  /\ base'[r] = base[r]
  BY <1>1, <1>2, <1>4 DEF TypeOK
<1>7. TypeOK'
  <2>1. /\ status' \in [Session -> Status] /\ interval' \in [Session -> Nat \ {0}]
        /\ base' \in [Session -> Nat] /\ next' \in [Session -> Nat]
        /\ active' \in [Device -> Session \cup {NoSession}]
    <3>1. status' \in [Session -> Status]
      BY <1>1 DEF TypeOK, Status
    <3>2. interval' \in [Session -> Nat \ {0}] /\ base' \in [Session -> Nat]
      BY <1>1, <1>3 DEF TypeOK
    <3>3. next' \in [Session -> Nat]
      BY <1>1, <1>3 DEF TypeOK
    <3>4. active' \in [Device -> Session \cup {NoSession}]
      BY <1>1 DEF TypeOK
    <3>. QED
      BY <3>1, <3>2, <3>3, <3>4
  <2>2. rows' \in [Session -> Seq(0..now)]
    BY <1>1, <1>3 DEF TypeOK
  <2>. QED
    BY <1>2, <2>1, <2>2 DEF TypeOK
<1>8. Fresh'
  BY <1>2, <1>6 DEF Fresh
<1>9. RowsBeforeNext'
  <2>1. \A j \in 1..Len(rows'[s]) : rows'[s][j] < next'[s]
    BY <1>3, <1>5
  <2>. QED
    BY <1>6, <2>1 DEF RowsBeforeNext
<1>10. ActiveIsOpen'
  <2>1. \A e \in Device : active[e] # s
    BY <1>1 DEF ActiveIsOpen
  <2>2. \A r \in Session : status[r] = "open" => owner[r] # d
    BY <1>2 DEF ActiveIsOpen
  <2>3. CASE active' = [active EXCEPT ![d] = s] /\ status'[s] = "open"
    <3>1. \A e \in Device : active'[e] = IF e = d THEN s ELSE active[e]
      BY <2>3 DEF TypeOK
    <3>2. ASSUME NEW e \in Device, active'[e] # NoSession
          PROVE  status'[active'[e]] = "open" /\ owner'[active'[e]] = e
      <4>1. CASE e = d
        BY <1>1, <1>2, <2>3, <3>1, <4>1
      <4>2. CASE e # d
        <5>1. active'[e] = active[e] /\ active[e] \in Session \ {s}
          BY <2>1, <3>1, <3>2, <4>2 DEF TypeOK
        <5>. QED
          BY <1>2, <1>6, <3>2, <5>1 DEF ActiveIsOpen
      <4>. QED
        BY <4>1, <4>2
    <3>3. ASSUME NEW r \in Session, status'[r] = "open" PROVE active'[owner'[r]] = r
      <4>0. owner[r] \in Device /\ owner'[r] = owner[r]
        BY <1>2 DEF TypeOK
      <4>1. CASE r = s
        BY <1>1, <3>1, <4>0, <4>1
      <4>2. CASE r # s
        <5>1. status[r] = "open"
          BY <1>6, <3>3, <4>2
        <5>2. owner[r] # d /\ active[owner[r]] = r
          BY <2>2, <5>1 DEF ActiveIsOpen
        <5>. QED
          BY <3>1, <4>0, <5>2
      <4>. QED
        BY <4>1, <4>2
    <3>. QED
      BY <3>2, <3>3 DEF ActiveIsOpen
  <2>4. CASE active' = active /\ status'[s] = "abandoned"
    <3>1. ASSUME NEW e \in Device, active'[e] # NoSession
          PROVE  status'[active'[e]] = "open" /\ owner'[active'[e]] = e
      BY <1>2, <1>6, <2>1, <2>4, <3>1 DEF ActiveIsOpen, TypeOK
    <3>2. ASSUME NEW r \in Session, status'[r] = "open" PROVE active'[owner'[r]] = r
      BY <1>2, <1>6, <2>4, <3>2 DEF ActiveIsOpen
    <3>. QED
      BY <3>1, <3>2 DEF ActiveIsOpen
  <2>5. status \in [Session -> Status]
    BY DEF TypeOK
  <2>. QED
    BY <1>1, <2>3, <2>4, <2>5
<1>11. PointsSettled'
  <2>1. next'[s] = base'[s] + interval'[s] * (Len(rows'[s]) + missed'[s] - before'[s])
    <3>1. \A m, k \in Nat : m + k * (1 + 0 - 0) = m + k /\ m + k * (0 + 0 - 0) = m
      OBVIOUS
    <3>2. Len(<<now>>) = 1 /\ Len(<<>>) = 0
      OBVIOUS
    <3>3. CASE rows'[s] = <<now>> /\ next'[s] = now + i
      BY <1>3, <1>6, <3>1, <3>2, <3>3
    <3>4. CASE rows'[s] = <<>> /\ next'[s] = now
      BY <1>3, <1>6, <3>1, <3>2, <3>4
    <3>. QED
      BY <1>5, <3>3, <3>4
  <2>. QED
    BY <1>2, <1>6, <2>1 DEF PointsSettled
<1>12. RowsInOrder'
  <2>1. \A j \in 1..(Len(rows'[s]) - 1) : rows'[s][j] < rows'[s][j + 1]
    <3>1. Len(<<now>>) - 1 = 0 /\ Len(<<>>) - 1 = 0 - 1 /\ 1..0 = {} /\ 1..(0 - 1) = {}
      OBVIOUS
    <3>. QED
      BY <1>5, <3>1
  <2>. QED
    BY <1>6, <2>1 DEF RowsInOrder
<1>13. PointsHaveCome'
  <2>1. base'[s] + interval'[s] * (Len(rows'[s]) + missed'[s] - before'[s]) <= now + i
    <3>1. \A m, k \in Nat : m + k * (1 + 0 - 0) = m + k /\ m + k * (0 + 0 - 0) = m
      OBVIOUS
    <3>2. Len(<<now>>) = 1 /\ Len(<<>>) = 0
      OBVIOUS
    <3>3. CASE rows'[s] = <<now>>
      BY <1>3, <1>6, <3>1, <3>2, <3>3
    <3>4. CASE rows'[s] = <<>>
      BY <1>3, <1>6, <3>1, <3>2, <3>4
    <3>. QED
      BY <1>5, <3>3, <3>4
  <2>. QED
    BY <1>2, <1>6, <2>1 DEF PointsHaveCome
<1>. QED
  BY <1>7, <1>8, <1>9, <1>10, <1>11, <1>12, <1>13

(* The point that a stop notes has come. *)
LEMMA NotedHasCome ==
  ASSUME RecordingInv, NEW s \in Session, status[s] = "open",
         NEW m, m = missed[s] \/ m = missed[s] + Noted(s)
  PROVE  m \in Nat /\ base[s] + interval[s] * (Len(rows[s]) + m - before[s]) <= now + interval[s]
<1>. DEFINE c == Len(rows[s]) + missed[s] - before[s]
<1>1. /\ now \in Nat /\ next[s] \in Nat /\ interval[s] \in Nat \ {0} /\ base[s] \in Nat
      /\ missed[s] \in Nat /\ before[s] \in Nat /\ Len(rows[s]) \in Nat
  BY DEF RecordingInv, TypeOK
<1>2. c \in Int /\ next[s] = base[s] + interval[s] * c /\ next[s] <= now + interval[s]
  BY <1>1 DEF RecordingInv, PointsSettled, PointsHaveCome
<1>3. CASE m = missed[s]
  BY <1>1, <1>2, <1>3
<1>. HIDE DEF c
<1>4. CASE m = missed[s] + 1 /\ now >= next[s]
  <2>1. Len(rows[s]) + m - before[s] = c + 1
    <3>1. \A k, l, x \in Nat : k + (l + 1) - x = (k + l - x) + 1
      OBVIOUS
    <3>2. Len(rows[s]) + (missed[s] + 1) - before[s] = (Len(rows[s]) + missed[s] - before[s]) + 1
      BY <1>1, <3>1
    <3>. QED
      BY <1>4, <3>2 DEF c
  <2>2. next[s] + 1 * interval[s] = base[s] + interval[s] * (c + 1)
    <3>1. \A n, b \in Nat, i \in Nat \ {0}, x \in Int :
            n = b + i * x => n + 1 * i = b + i * (x + 1)
      <4>1. 1 \in Nat /\ Nat \subseteq Int
        OBVIOUS
      <4>. QED
        BY <4>1, PointsAdd
    <3>2. next[s] \in Nat /\ base[s] \in Nat /\ interval[s] \in Nat \ {0}
      BY <1>1
    <3>3. c \in Int /\ next[s] = base[s] + interval[s] * c
      BY <1>2
    <3>. QED
      BY <3>1, <3>2, <3>3, ZenonT(30)
  <2>3. next[s] + 1 * interval[s] <= now + interval[s]
    BY <1>1, <1>4
  <2>4. m \in Nat
    BY <1>1, <1>4
  <2>5. base[s] + interval[s] * (Len(rows[s]) + m - before[s]) = next[s] + 1 * interval[s]
    BY <2>1, <2>2
  <2>. QED
    BY <2>3, <2>4, <2>5
<1>5. m = missed[s] \/ (m = missed[s] + 1 /\ now >= next[s])
  BY <1>1 DEF Noted
<1>. QED
  BY <1>3, <1>4, <1>5

(* A session that leaves the active table leaves the state "open" with it. *)
LEMMA StopInv ==
  ASSUME RecordingInv, NEW d \in Device, Stop(d)
  PROVE  RecordingInv'
<1>. USE RecordingAssumption DEF RecordingInv
<1>. DEFINE s == active[d]
<1>1. s \in Session /\ status[s] = "open" /\ owner[s] = d
  BY DEF Stop, TypeOK, ActiveIsOpen
<1>2. PICK outcome \in {"finished", "abandoned"} :
        /\ status' = [status EXCEPT ![s] = outcome]
        /\ \E n \in {0, Noted(s)} : missed' = [missed EXCEPT ![s] = missed[s] + n]
  BY DEF Stop, Finish
<1>3. /\ active' = [active EXCEPT ![d] = NoSession]
      /\ UNCHANGED <<now, queue, consumer, taken, owner, interval, next, base, before, rows>>
  BY DEF Stop, busVars, threadVars, gridVars
<1>4. \A e \in Device \ {d} : active[e] # s
  BY <1>1 DEF ActiveIsOpen
<1>5. \A r \in Session \ {s} : status[r] = "open" => owner[r] # d
  BY <1>1 DEF ActiveIsOpen
<1>. HIDE DEF s
<1>6. /\ \A r \in Session \ {s} : status'[r] = status[r] /\ missed'[r] = missed[r]
      /\ status'[s] = outcome
      /\ \A e \in Device : active'[e] = IF e = d THEN NoSession ELSE active[e]
  <2>1. d \in Device /\ active \in [Device -> Session \cup {NoSession}]
        /\ status \in [Session -> Status] /\ missed \in [Session -> Nat]
    BY DEF TypeOK
  <2>2. \A r \in Session \ {s} : status'[r] = status[r] /\ missed'[r] = missed[r]
    BY <1>2, <2>1
  <2>3. status'[s] = outcome
    BY <1>1, <1>2, <2>1
  <2>. QED
    BY <1>3, <2>1, <2>2, <2>3
<1>6a. missed'[s] = missed[s] \/ missed'[s] = missed[s] + Noted(s)
  BY <1>1, <1>2 DEF TypeOK
<1>6b. /\ missed'[s] \in Nat
       /\ base[s] + interval[s] * (Len(rows[s]) + missed'[s] - before[s]) <= now + interval[s]
  BY <1>1, <1>6a, NotedHasCome
<1>7. TypeOK'
  <2>1. missed' \in [Session -> Nat]
    BY <1>2, <1>6, <1>6b DEF TypeOK
  <2>. QED
    BY <1>2, <1>3, <2>1 DEF TypeOK, Status
<1>8. /\ Fresh' /\ RowsBeforeNext' /\ PointsSettled' /\ RowsInOrder'
      /\ PointsHaveCome'
  <2>1. Fresh' /\ RowsBeforeNext' /\ PointsSettled' /\ RowsInOrder'
    BY <1>1, <1>3, <1>6 DEF Fresh, RowsBeforeNext, PointsSettled, RowsInOrder
  <2>2. PointsHaveCome'
    BY <1>1, <1>3, <1>6, <1>6b DEF PointsHaveCome
  <2>. QED
    BY <2>1, <2>2
<1>9. ActiveIsOpen'
  <2>1. ASSUME NEW e \in Device, active'[e] # NoSession
        PROVE  status'[active'[e]] = "open" /\ owner'[active'[e]] = e
    <3>1. e # d /\ active'[e] = active[e] /\ active[e] # s
      BY <1>4, <1>6, <2>1
    <3>2. active[e] \in Session \ {s} /\ status[active[e]] = "open" /\ owner[active[e]] = e
      BY <2>1, <3>1 DEF ActiveIsOpen, TypeOK
    <3>. QED
      BY <1>3, <1>6, <3>1, <3>2
  <2>2. ASSUME NEW r \in Session, status'[r] = "open" PROVE active'[owner'[r]] = r
    <3>1. r # s
      BY <1>6, <2>2
    <3>2. status[r] = "open" /\ owner[r] # d /\ owner[r] \in Device
      BY <1>5, <1>6, <2>2, <3>1 DEF TypeOK
    <3>. QED
      BY <1>3, <1>6, <3>2 DEF ActiveIsOpen
  <2>. QED
    BY <2>1, <2>2 DEF ActiveIsOpen
<1>. QED
  BY <1>7, <1>8, <1>9

LEMMA SetIntervalInv ==
  ASSUME RecordingInv, NEW d \in Device, NEW i \in Interval, SetInterval(d, i)
  PROVE  RecordingInv'
<1>. USE RecordingAssumption DEF RecordingInv
<1>. DEFINE s == active[d]
<1>1. s \in Session /\ status[s] = "open"
  BY DEF SetInterval, TypeOK, ActiveIsOpen
<1>2. /\ interval' = [interval EXCEPT ![s] = i]
      /\ next' = [next EXCEPT ![s] = now + i]
      /\ base' = [base EXCEPT ![s] = now + i]
      /\ before' = [before EXCEPT ![s] = Len(rows[s]) + missed[s]]
      /\ UNCHANGED <<now, queue, active, consumer, taken, status, owner, rows, missed>>
  BY DEF SetInterval, busVars, managerVars, threadVars
<1>. HIDE DEF s
<1>3. /\ now \in Nat /\ i \in Nat \ {0} /\ now + i \in Nat /\ now + i > now
      /\ rows[s] \in Seq(0..now) /\ Len(rows[s]) \in Nat /\ missed[s] \in Nat
      /\ Len(rows[s]) + missed[s] \in Nat
  BY <1>1 DEF TypeOK
<1>4. /\ interval'[s] = i /\ next'[s] = now + i /\ base'[s] = now + i
      /\ before'[s] = Len(rows[s]) + missed[s]
      /\ \A r \in Session \ {s} : /\ interval'[r] = interval[r] /\ next'[r] = next[r]
                                  /\ base'[r] = base[r] /\ before'[r] = before[r]
  BY <1>1, <1>2 DEF TypeOK
<1>5. TypeOK'
  BY <1>2, <1>3 DEF TypeOK
<1>6. Fresh' /\ ActiveIsOpen' /\ RowsInOrder'
  BY <1>1, <1>2, <1>4 DEF Fresh, ActiveIsOpen, RowsInOrder
<1>7. RowsBeforeNext'
  <2>1. \A j \in 1..Len(rows[s]) : rows[s][j] \in 0..now
    BY <1>3
  <2>2. \A j \in 1..Len(rows[s]) : rows[s][j] < next'[s]
    BY <1>3, <1>4, <2>1
  <2>. QED
    BY <1>2, <1>4, <2>2 DEF RowsBeforeNext
<1>8. PointsSettled'
  <2>1. \A m, k, l, x \in Nat : m = m + k * (l + x - (l + x))
    OBVIOUS
  <2>2. next'[s] = base'[s] + interval'[s] * (Len(rows'[s]) + missed'[s] - before'[s])
    BY <1>2, <1>3, <1>4, <2>1
  <2>. QED
    BY <1>2, <1>4, <2>2 DEF PointsSettled
<1>9. PointsHaveCome'
  <2>2. base'[s] + interval'[s] * (Len(rows'[s]) + missed'[s] - before'[s]) <= now + interval'[s]
    <3>. DEFINE l == Len(rows[s])
                x == missed[s]
    <3>1. l \in Nat /\ x \in Nat /\ now + i \in Nat /\ i \in Nat
      BY <1>3
    <3>. HIDE DEF l, x
    <3>2. (now + i) + i * (l + x - (l + x)) = now + i
      BY ONLY <3>1
    <3>3. rows'[s] = rows[s] /\ missed'[s] = missed[s]
      BY <1>2
    <3>4. base'[s] + interval'[s] * (Len(rows'[s]) + missed'[s] - before'[s]) = now + i
      BY ONLY <1>4, <3>2, <3>3, Zenon DEF l, x
    <3>. QED
      BY <1>3, <1>4, <3>4
  <2>. QED
    BY <1>2, <1>4, <2>2 DEF PointsHaveCome
<1>. QED
  BY <1>5, <1>6, <1>7, <1>8, <1>9

LEMMA StopAllInv ==
  ASSUME RecordingInv, StopAllStep \/ DisableCommands
  PROVE  RecordingInv'
<1>. USE RecordingAssumption DEF RecordingInv
<1>1. CASE StopAllSessions
  <2>1. UNCHANGED <<now, queue, consumer, taken, owner, interval, next, base, before, rows>>
    BY <1>1 DEF StopAllSessions, busVars, gridVars
  <2>2. active' = [d \in Device |-> NoSession]
    BY <1>1 DEF StopAllSessions
  <2>3. /\ \A s \in Session : \/ s # active[owner[s]] /\ status'[s] = status[s]
                              \/ s = active[owner[s]] /\ status'[s] \in {"abandoned", "finished"}
        /\ status' \in [Session -> Status]
    BY <1>1 DEF StopAllSessions, TypeOK, Status
  <2>40. /\ missed' = [s \in Session |-> missed'[s]]
         /\ \A s \in Session : \/ missed'[s] = missed[s]
                               \/ s = active[owner[s]] /\ missed'[s] = missed[s] + Noted(s)
    BY <1>1 DEF StopAllSessions
  <2>41. \A s \in Session : s = active[owner[s]] => status[s] = "open"
    <3>1. ASSUME NEW s \in Session, s = active[owner[s]] PROVE status[s] = "open"
      <4>1. owner[s] \in Device /\ active[owner[s]] # NoSession
        BY <3>1 DEF TypeOK
      <4>. QED
        BY <3>1, <4>1 DEF ActiveIsOpen
    <3>. QED
      BY <3>1
  <2>4. /\ missed' \in [Session -> Nat]
        /\ \A s \in Session : status[s] # "open" => missed'[s] = missed[s]
    <3>1. \A s \in Session : missed[s] \in Nat /\ missed[s] + Noted(s) \in Nat
      BY DEF TypeOK, Noted
    <3>. QED
      BY <2>40, <2>41, <3>1
  <2>5. \A s \in Session : status'[s] # "open" /\ (status'[s] = status[s] \/ status[s] = "open")
    <3>. SUFFICES ASSUME NEW s \in Session
                  PROVE  status'[s] # "open" /\ (status'[s] = status[s] \/ status[s] = "open")
      OBVIOUS
    <3>1. CASE s = active[owner[s]]
      <4>1. owner[s] \in Device /\ active[owner[s]] # NoSession
        BY <3>1 DEF TypeOK
      <4>. QED
        BY <2>3, <3>1, <4>1 DEF ActiveIsOpen
    <3>2. CASE s # active[owner[s]]
      BY <2>3, <3>2 DEF ActiveIsOpen
    <3>. QED
      BY <3>1, <3>2
  <2>6. TypeOK'
    BY <2>1, <2>2, <2>3, <2>4 DEF TypeOK
  <2>7. Fresh' /\ RowsBeforeNext' /\ PointsSettled' /\ RowsInOrder'
    BY <2>1, <2>3, <2>4, <2>5 DEF Fresh, RowsBeforeNext, PointsSettled, RowsInOrder
  <2>8. ActiveIsOpen'
    BY <2>2, <2>5 DEF ActiveIsOpen
  <2>9. PointsHaveCome'
    <3>. SUFFICES ASSUME NEW s \in Session, status'[s] # "unused"
                  PROVE  base[s] + interval[s] * (Len(rows[s]) + missed'[s] - before[s])
                           <= now + interval[s]
      BY <2>1 DEF PointsHaveCome
    <3>1. CASE missed'[s] = missed[s]
      BY <2>5, <3>1 DEF PointsHaveCome
    <3>2. CASE status[s] = "open" /\ missed'[s] = missed[s] + Noted(s)
      BY <3>2, NotedHasCome
    <3>. QED
      BY <2>40, <2>41, <3>1, <3>2
  <2>. QED
    BY <2>6, <2>7, <2>8, <2>9
<1>2. CASE StopAllSignal \/ StopAllJoined \/ DisableCommands
  <2>1. TypeOK'
    BY <1>2 DEF StopAllSignal, StopAllJoined, DisableCommands, busVars, managerVars, threadVars,
       sessionVars, gridVars, TypeOK
  <2>. QED
    BY <1>2, <2>1, SessionsKept DEF StopAllSignal, StopAllJoined, DisableCommands, managerVars,
       sessionVars
<1>. QED
  BY <1>1, <1>2 DEF StopAllStep

LEMMA RecordingNext == RecordingInv /\ [Next]_vars => RecordingInv'
<1>. SUFFICES ASSUME RecordingInv, [Next]_vars PROVE RecordingInv'
  OBVIOUS
<1>1. CASE UNCHANGED vars
  <2>1. TypeOK'
    BY <1>1 DEF vars, busVars, managerVars, threadVars, sessionVars, gridVars, RecordingInv, TypeOK
  <2>. QED
    BY <1>1, <2>1, SessionsKept DEF vars, managerVars, sessionVars
<1>2. CASE Next
  BY <1>2, BusInv, QueueInv, HandleInv, StartInv, StopInv, SetIntervalInv, StopAllInv
     DEF Next, ConsumerStep
<1>. QED
  BY <1>1, <1>2

-----------------------------------------------------------------------------
(* The inductive invariant holds in every execution. *)
THEOREM RecordingInvariant == Spec => []RecordingInv
<1>. QED
  BY RecordingInitInv, RecordingNext, PTL DEF Spec

(* start, stop, set_interval, _consume, stop_all: the session that is fed is open
   and its device's own, and no open session is without anybody who feeds it. *)
THEOREM ActiveAlwaysOpen == Spec => []ActiveIsOpen
<1>. RecordingInv => ActiveIsOpen
  BY DEF RecordingInv
<1>. QED
  BY RecordingInvariant, PTL

(* consider_sample, set_interval, stop: every point of the grid that start or the last
   set_interval laid is one row or one missed point once it was passed, for every
   interval, queue size and delay of the consumer, and none before it has come, also in
   a session whose stop noted one or raised. (Points that were pending when the interval
   changed belong to the old grid and are dropped.) *)
THEOREM PointsAlwaysAccounted == Spec => []PointsAccounted
<1>. RecordingInv => PointsAccounted
  BY DEF RecordingInv, PointsAccounted
<1>. QED
  BY RecordingInvariant, PTL

(* start, consider_sample: the rows of a session are distinct measurements in the
   order in which they were made. *)
THEOREM RowsAlwaysInOrder == Spec => []RowsInOrder
<1>. RecordingInv => RowsInOrder
  BY DEF RecordingInv
<1>. QED
  BY RecordingInvariant, PTL
=============================================================================
