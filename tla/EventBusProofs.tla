--------------------------- MODULE EventBusProofs ---------------------------
(***************************************************************************)
(* Proofs about EventBus for any publishers, subscribers, devices, queue   *)
(* size and number of events: every subscriber sees the events in order,   *)
(* none vanishes, and the diagnostic counters are the drops.               *)
(***************************************************************************)
EXTENDS EventBus, SequenceTheorems, FiniteSetTheorems, TLAPS

TypeOK ==
  /\ subscribers \in Seq(Subscriber)
  /\ queue \in [Subscriber -> Seq(Event)]
  /\ total \in Nat
  /\ byDevice \in [Device -> Nat]
  /\ pc \in [Publisher -> {"idle", "put", "full", "record"}]
  /\ event \in [Publisher -> Event \cup {NoEvent}]
  /\ todo \in [Publisher -> Seq(Subscriber)]
  /\ dropped \in [Publisher -> Event \cup {NoEvent}]
  /\ sent \in [Publisher -> Nat]
  /\ owed \in [Subscriber -> SUBSET Event]
  /\ taken \in [Subscriber -> SUBSET Event]
  /\ lost \in SUBSET (Subscriber \X Event) /\ IsFiniteSet(lost)

(* A publisher that is not idle puts its newest event, and one that has     *)
(* dropped an event knows which.                                            *)
Calls ==
  \A p \in Publisher :
    /\ todo[p] = <<>> <=> pc[p] = "idle"
    /\ todo[p] # <<>> => event[p] \in Event /\ event[p].by = p /\ event[p].number = sent[p]
    /\ pc[p] = "record" => dropped[p] \in Event

Distinct(q) == \A i, j \in 1..Len(q) : q[i] = q[j] => i = j

(* No subscriber is listed twice, so none gets an event twice.              *)
ListedOnce == Distinct(subscribers) /\ \A p \in Publisher : Distinct(todo[p])

(* Whatever a subscriber was owed is the newest event of its publisher or   *)
(* has a smaller number.                                                    *)
Numbered(o, sentSoFar, newest) ==
  \A e \in o : e.number <= sentSoFar[e.by] /\ (e.number = sentSoFar[e.by] => e = newest[e.by])
NewestLast == \A s \in Subscriber : Numbered(owed[s], sent, event)

BusInv ==
  TypeOK /\ Calls /\ ListedOnce /\ NewestLast /\ OrderKept /\ NothingVanishes /\ DropsCounted

USE BusAssumption

-----------------------------------------------------------------------------
(* Sequences without repetition *)

LEMMA TailSet ==
  ASSUME NEW S, NEW q \in Seq(S), q # <<>>
  PROVE  /\ Head(q) \in S /\ Tail(q) \in Seq(S)
         /\ ToSet(q) = {Head(q)} \cup ToSet(Tail(q))
         /\ ToSet(q) \subseteq S
         /\ Distinct(q) => Distinct(Tail(q)) /\ Head(q) \notin ToSet(Tail(q))
<1>1. /\ Head(q) \in S /\ Tail(q) \in Seq(S) /\ Len(Tail(q)) = Len(q) - 1
      /\ \A i \in 1..Len(Tail(q)) : Tail(q)[i] = q[i + 1]
  BY HeadTailProperties
<1>2. Len(q) \in Nat \ {0} /\ Head(q) = q[1] /\ DOMAIN q = 1..Len(q)
  OBVIOUS
<1>3. DOMAIN Tail(q) = 1..Len(Tail(q))
  BY <1>1
<1>4. \A i \in 1..Len(q) : i = 1 \/ (i - 1 \in 1..Len(Tail(q)) /\ q[i] = Tail(q)[i - 1])
  BY <1>1, <1>2
<1>5. \A i \in 1..Len(Tail(q)) : i + 1 \in 1..Len(q)
  BY <1>1, <1>2
<1>6. ToSet(q) = {Head(q)} \cup ToSet(Tail(q))
  <2>1. ASSUME NEW x \in ToSet(q) PROVE x \in {Head(q)} \cup ToSet(Tail(q))
    BY <1>2, <1>3, <1>4, <2>1 DEF ToSet
  <2>2. ASSUME NEW x \in ToSet(Tail(q)) PROVE x \in ToSet(q)
    BY <1>1, <1>2, <1>3, <1>5, <2>2 DEF ToSet
  <2>3. Head(q) \in ToSet(q)
    BY <1>2 DEF ToSet
  <2>. QED
    BY <2>1, <2>2, <2>3
<1>7. ASSUME Distinct(q) PROVE Distinct(Tail(q)) /\ Head(q) \notin ToSet(Tail(q))
  <2>1. ASSUME NEW i \in 1..Len(Tail(q)), NEW j \in 1..Len(Tail(q)), Tail(q)[i] = Tail(q)[j]
        PROVE  i = j
    <3>1. i + 1 \in 1..Len(q) /\ j + 1 \in 1..Len(q) /\ q[i + 1] = q[j + 1]
      BY <1>1, <1>5, <2>1
    <3>2. i + 1 = j + 1
      BY <1>7, <3>1 DEF Distinct
    <3>. QED
      BY <3>2
  <2>2. ASSUME NEW i \in 1..Len(Tail(q)) PROVE Tail(q)[i] # Head(q)
    <3>1. i + 1 \in 1..Len(q) /\ 1 \in 1..Len(q) /\ i + 1 # 1
      BY <1>2, <1>5
    <3>. QED
      BY <1>1, <1>2, <1>7, <3>1 DEF Distinct
  <2>. QED
    BY <1>3, <2>1, <2>2 DEF Distinct, ToSet
<1>8. ToSet(q) \subseteq S
  BY <1>2 DEF ToSet
<1>. QED
  BY <1>1, <1>6, <1>7, <1>8

LEMMA AppendSet ==
  ASSUME NEW S, NEW q \in Seq(S), NEW e \in S
  PROVE  /\ Append(q, e) \in Seq(S)
         /\ ToSet(Append(q, e)) = ToSet(q) \cup {e}
         /\ Distinct(q) /\ e \notin ToSet(q) => Distinct(Append(q, e))
<1>1. /\ Append(q, e) \in Seq(S) /\ Len(Append(q, e)) = Len(q) + 1
      /\ \A i \in 1..Len(q) : Append(q, e)[i] = q[i]
      /\ Append(q, e)[Len(q) + 1] = e
  BY AppendProperties
<1>2. Len(q) \in Nat /\ DOMAIN q = 1..Len(q) /\ DOMAIN Append(q, e) = 1..Len(Append(q, e))
  BY <1>1
<1>3. \A i \in 1..(Len(q) + 1) : i \in 1..Len(q) \/ i = Len(q) + 1
  BY <1>2
<1>4. \A i \in 1..Len(q) : i \in 1..(Len(q) + 1) /\ i # Len(q) + 1
  BY <1>2
<1>5. Len(q) + 1 \in 1..(Len(q) + 1)
  BY <1>2
<1>6. ToSet(Append(q, e)) = ToSet(q) \cup {e}
  <2>1. ASSUME NEW x \in ToSet(Append(q, e)) PROVE x \in ToSet(q) \cup {e}
    BY <1>1, <1>2, <1>3, <2>1 DEF ToSet
  <2>2. ASSUME NEW x \in ToSet(q) PROVE x \in ToSet(Append(q, e))
    BY <1>1, <1>2, <1>4, <2>2 DEF ToSet
  <2>3. e \in ToSet(Append(q, e))
    BY <1>1, <1>2, <1>5 DEF ToSet
  <2>. QED
    BY <2>1, <2>2, <2>3
<1>7. ASSUME Distinct(q), e \notin ToSet(q) PROVE Distinct(Append(q, e))
  <2>1. \A i \in 1..Len(q) : q[i] # e
    BY <1>2, <1>7 DEF ToSet
  <2>. QED
    BY <1>1, <1>3, <1>7, <2>1 DEF Distinct
<1>. QED
  BY <1>1, <1>6, <1>7

LEMMA RemoveKeepsDistinct ==
  ASSUME NEW S, NEW q \in Seq(S), NEW k \in 1..Len(q), Distinct(q)
  PROVE  RemoveAt(q, k) \in Seq(S) /\ Distinct(RemoveAt(q, k))
<1>. DEFINE a == SubSeq(q, 1, k - 1)
            b == SubSeq(q, k + 1, Len(q))
<1>1. Len(q) \in Nat /\ k \in Nat /\ 1 <= k /\ k <= Len(q)
  OBVIOUS
<1>2. a \in Seq(S) /\ Len(a) = k - 1 /\ \A i \in 1..(k - 1) : a[i] = q[i]
  BY <1>1, SubSeqProperties
<1>3. b \in Seq(S) /\ Len(b) = Len(q) - k /\ \A i \in 1..(Len(q) - k) : b[i] = q[k + i]
  <2>1. /\ b \in Seq(S) /\ Len(b) = IF k + 1 <= Len(q) THEN Len(q) - (k + 1) + 1 ELSE 0
        /\ \A i \in 1..(Len(q) - (k + 1) + 1) : b[i] = q[k + 1 + i - 1]
    BY <1>1, SubSeqProperties
  <2>. QED
    BY <1>1, <2>1
<1>. HIDE DEF a, b
<1>4. /\ a \o b \in Seq(S) /\ Len(a \o b) = Len(a) + Len(b)
      /\ \A i \in 1..(Len(a) + Len(b)) : (a \o b)[i] = IF i <= Len(a) THEN a[i] ELSE b[i - Len(a)]
  BY <1>2, <1>3, ConcatProperties
<1>5. Len(a) + Len(b) = Len(q) - 1
  BY <1>1, <1>2, <1>3
<1>6. ASSUME NEW i \in 1..(Len(q) - 1) PROVE (a \o b)[i] = q[IF i < k THEN i ELSE i + 1]
  <2>1. (a \o b)[i] = IF i <= k - 1 THEN a[i] ELSE b[i - (k - 1)]
    BY <1>2, <1>4, <1>5
  <2>2. CASE i < k
    <3>1. i <= k - 1 /\ i \in 1..(k - 1)
      BY <1>1, <2>2
    <3>. QED
      BY <1>2, <2>1, <2>2, <3>1
  <2>3. CASE ~(i < k)
    <3>1. ~(i <= k - 1) /\ i - (k - 1) \in 1..(Len(q) - k) /\ k + (i - (k - 1)) = i + 1
      BY <1>1, <2>3
    <3>. QED
      BY <1>3, <2>1, <2>3, <3>1
  <2>. QED
    BY <2>2, <2>3
<1>7. Distinct(a \o b)
  <2>. SUFFICES ASSUME NEW i \in 1..(Len(q) - 1), NEW j \in 1..(Len(q) - 1), (a \o b)[i] = (a \o b)[j]
                PROVE  i = j
    BY <1>4, <1>5 DEF Distinct
  <2>. DEFINE at(n) == IF n < k THEN n ELSE n + 1
  <2>1. at(i) \in 1..Len(q) /\ at(j) \in 1..Len(q) /\ (at(i) = at(j) => i = j)
    BY <1>1
  <2>2. q[at(i)] = q[at(j)]
    BY <1>6
  <2>3. at(i) = at(j)
    <3>. HIDE DEF at
    <3>. QED
      BY <2>1, <2>2 DEF Distinct
  <2>. QED
    BY <2>1, <2>3
<1>. QED
  BY <1>4, <1>7 DEF RemoveAt, a, b

-----------------------------------------------------------------------------
(* The order of a queue, after the events t that were taken from it         *)
Sorted(t, q) ==
  \A j \in 1..Len(q) :
    /\ \A e \in t : Older(e, q[j])
    /\ \A i \in 1..(j - 1) : Older(q[i], q[j])

LEMMA SortedTail ==
  ASSUME NEW q \in Seq(Event), q # <<>>, NEW t \in SUBSET Event, Sorted(t, q)
  PROVE  /\ Sorted(t, Tail(q)) /\ Sorted(t \cup {Head(q)}, Tail(q))
         /\ Head(q) \notin ToSet(Tail(q))
<1>1. /\ Head(q) \in Event /\ Tail(q) \in Seq(Event) /\ Len(Tail(q)) = Len(q) - 1
      /\ \A i \in 1..Len(Tail(q)) : Tail(q)[i] = q[i + 1]
  BY HeadTailProperties
<1>2. Len(q) \in Nat \ {0} /\ Head(q) = q[1]
  OBVIOUS
<1>3. ASSUME NEW j \in 1..Len(Tail(q))
      PROVE  /\ \A e \in t \cup {Head(q)} : Older(e, Tail(q)[j])
             /\ \A i \in 1..(j - 1) : Older(Tail(q)[i], Tail(q)[j])
  <2>1. /\ j + 1 \in 1..Len(q) /\ Tail(q)[j] = q[j + 1] /\ 1 \in 1..((j + 1) - 1)
        /\ \A i \in 1..(j - 1) : i + 1 \in 1..((j + 1) - 1) /\ Tail(q)[i] = q[i + 1]
    BY <1>1, <1>2
  <2>. QED
    BY <1>2, <2>1 DEF Sorted
<1>4. ASSUME NEW j \in 1..Len(Tail(q)) PROVE Tail(q)[j] # Head(q)
  <2>1. Older(Head(q), Tail(q)[j])
    BY <1>3
  <2>. QED
    BY <1>1, <2>1 DEF Older, Event
<1>. QED
  BY <1>1, <1>3, <1>4 DEF Sorted, ToSet

LEMMA SortedAppend ==
  ASSUME NEW q \in Seq(Event), NEW t \in SUBSET Event, NEW f \in Event, Sorted(t, q),
         \A e \in t \cup ToSet(q) : Older(e, f)
  PROVE  Sorted(t, Append(q, f))
<1>1. /\ Len(Append(q, f)) = Len(q) + 1
      /\ \A i \in 1..Len(q) : Append(q, f)[i] = q[i]
      /\ Append(q, f)[Len(q) + 1] = f
  BY AppendProperties
<1>2. Len(q) \in Nat /\ DOMAIN q = 1..Len(q)
  OBVIOUS
<1>3. \A i \in 1..Len(q) : Older(q[i], f)
  BY <1>2 DEF ToSet
<1>4. ASSUME NEW j \in 1..(Len(q) + 1)
      PROVE  /\ \A e \in t : Older(e, Append(q, f)[j])
             /\ \A i \in 1..(j - 1) : Older(Append(q, f)[i], Append(q, f)[j])
  <2>1. CASE j \in 1..Len(q)
    <3>1. \A i \in 1..(j - 1) : i \in 1..Len(q)
      BY <2>1
    <3>. QED
      BY <1>1, <2>1, <3>1 DEF Sorted
  <2>2. CASE j = Len(q) + 1
    <3>1. \A i \in 1..(j - 1) : i \in 1..Len(q)
      BY <1>2, <2>2
    <3>. QED
      BY <1>1, <1>3, <2>2, <3>1
  <2>. QED
    BY <1>2, <2>1, <2>2
<1>. QED
  BY <1>1, <1>4 DEF Sorted

-----------------------------------------------------------------------------
(* What a subscriber was owed is split into four sets.                      *)
Split(o, t, q, l, n) ==
  /\ o = t \cup q \cup l \cup n
  /\ t \cap q = {}
  /\ (t \cup q) \cap l = {}
  /\ (t \cup q \cup l) \cap n = {}

LEMMA BusInitInv == Init => BusInv
<1>. SUFFICES ASSUME Init PROVE BusInv
  OBVIOUS
<1>1. TypeOK
  BY FS_EmptySet DEF Init, TypeOK
<1>2. Calls /\ ListedOnce /\ NewestLast /\ OrderKept
  BY DEF Init, Calls, ListedOnce, Distinct, NewestLast, Numbered, OrderKept
<1>3. NothingVanishes
  BY DEF Init, NothingVanishes, Dropped, Pending, ToSet
<1>4. DropsCounted
  <2>1. AboutToCount(Device) = {} /\ \A d \in Device : AboutToCount({d}) = {}
    BY DEF Init, AboutToCount
  <2>2. LostOf(Device) = {} /\ \A d \in Device : LostOf({d}) = {}
    BY DEF Init, LostOf
  <2>3. Cardinality({}) = 0 /\ total = 0 /\ \A d \in Device : byDevice[d] = 0
    BY FS_EmptySet DEF Init
  <2>. QED
    BY <2>1, <2>2, <2>3 DEF DropsCounted
<1>. QED
  BY <1>1, <1>2, <1>3, <1>4 DEF BusInv

(* subscribe and unsubscribe change the list alone.                         *)
LEMMA ListChangeKeeps ==
  ASSUME BusInv, UNCHANGED <<queue, total, byDevice, callVars, history>>,
         subscribers' \in Seq(Subscriber), Distinct(subscribers')
  PROVE  BusInv'
<1>. USE DEF callVars, history
<1>1. TypeOK' /\ Calls' /\ ListedOnce'
  BY DEF BusInv, TypeOK, Calls, ListedOnce, Distinct
<1>2. NewestLast' /\ OrderKept'
  BY DEF BusInv, NewestLast, OrderKept
<1>3. NothingVanishes'
  <2>1. \A s \in Subscriber : Dropped(s)' = Dropped(s) /\ Pending(s)' = Pending(s)
    BY DEF Dropped, Pending
  <2>. QED
    BY <2>1 DEF BusInv, NothingVanishes
<1>4. DropsCounted'
  BY DEF BusInv, DropsCounted, AboutToCount, LostOf
<1>. QED
  BY <1>1, <1>2, <1>3, <1>4 DEF BusInv

LEMMA SubscribeInv ==
  ASSUME BusInv, NEW s \in Subscriber, Subscribe(s) \/ Unsubscribe(s)
  PROVE  BusInv'
<1>1. subscribers \in Seq(Subscriber) /\ Distinct(subscribers)
  BY DEF BusInv, TypeOK, ListedOnce
<1>2. CASE Subscribe(s)
  <2>1. subscribers' \in Seq(Subscriber) /\ Distinct(subscribers')
    BY <1>1, <1>2, AppendSet DEF Subscribe
  <2>. QED
    BY <1>2, <2>1, ListChangeKeeps DEF Subscribe
<1>3. CASE Unsubscribe(s)
  <2>1. subscribers' \in Seq(Subscriber) /\ Distinct(subscribers')
    BY <1>1, <1>3, RemoveKeepsDistinct DEF Unsubscribe
  <2>. QED
    BY <1>3, <2>1, ListChangeKeeps DEF Unsubscribe
<1>. QED
  BY <1>2, <1>3

-----------------------------------------------------------------------------
(* get() *)
LEMMA TakeInv ==
  ASSUME BusInv, NEW s \in Subscriber, Take(s)
  PROVE  BusInv'
<1>1. /\ queue[s] \in Seq(Event) /\ queue[s] # <<>> /\ taken[s] \in SUBSET Event
      /\ Sorted(taken[s], queue[s])
  BY DEF BusInv, TypeOK, Take, OrderKept, Sorted
<1>2. /\ Head(queue[s]) \in Event /\ Tail(queue[s]) \in Seq(Event)
      /\ ToSet(queue[s]) = {Head(queue[s])} \cup ToSet(Tail(queue[s]))
      /\ Head(queue[s]) \notin ToSet(Tail(queue[s]))
      /\ Sorted(taken[s] \cup {Head(queue[s])}, Tail(queue[s]))
  BY <1>1, TailSet, SortedTail
<1>3. /\ UNCHANGED <<subscribers, total, byDevice, callVars, owed, lost>>
      /\ queue' = [queue EXCEPT ![s] = Tail(@)]
      /\ taken' = [taken EXCEPT ![s] = @ \cup {Head(queue[s])}]
  BY DEF Take
<1>4. /\ queue'[s] = Tail(queue[s]) /\ taken'[s] = taken[s] \cup {Head(queue[s])}
      /\ \A u \in Subscriber : u # s => queue'[u] = queue[u] /\ taken'[u] = taken[u]
  BY <1>3 DEF BusInv, TypeOK
<1>5. TypeOK'
  BY <1>2, <1>3 DEF BusInv, TypeOK, callVars
<1>6. Calls' /\ ListedOnce' /\ NewestLast'
  BY <1>3 DEF BusInv, callVars, Calls, ListedOnce, NewestLast
<1>7. OrderKept'
  <2>1. \A u \in Subscriber : Sorted(taken'[u], queue'[u])
    BY <1>2, <1>4 DEF BusInv, OrderKept, Sorted
  <2>. QED
    BY <2>1 DEF OrderKept, Sorted
<1>8. NothingVanishes'
  <2>1. \A u \in Subscriber : Split(owed[u], taken[u], ToSet(queue[u]), Dropped(u), Pending(u))
    BY DEF BusInv, NothingVanishes, Split
  <2>2. \A u \in Subscriber : Dropped(u)' = Dropped(u) /\ Pending(u)' = Pending(u)
    BY <1>3 DEF Dropped, Pending, callVars
  <2>3. \A u \in Subscriber : Split(owed[u], taken'[u], ToSet(queue'[u]), Dropped(u), Pending(u))
    <3>1. Split(owed[s], taken'[s], ToSet(queue'[s]), Dropped(s), Pending(s))
      BY <1>2, <1>4, <2>1 DEF Split
    <3>. QED
      BY <1>4, <2>1, <3>1
  <2>. QED
    BY <1>3, <2>2, <2>3 DEF NothingVanishes, Split
<1>9. DropsCounted'
  BY <1>3 DEF BusInv, DropsCounted, AboutToCount, LostOf, callVars
<1>. QED
  BY <1>5, <1>6, <1>7, <1>8, <1>9 DEF BusInv

(* publish() begins: the event is newer than all that anybody was owed.     *)
LEMMA PublishInv ==
  ASSUME BusInv, NEW p \in Publisher, NEW d \in Speaks[p], Publish(p, d)
  PROVE  BusInv'
<1>. DEFINE e == [by |-> p, number |-> sent[p] + 1, device |-> d]
<1>1. /\ e \in Event /\ e.by = p /\ e.number = sent[p] + 1 /\ sent[p] \in Nat
      /\ pc[p] = "idle" /\ todo[p] = <<>>
  BY DEF BusInv, TypeOK, Calls, Event, Publish
<1>2. /\ sent' = [sent EXCEPT ![p] = @ + 1]
      /\ event' = [event EXCEPT ![p] = e]
      /\ todo' = [todo EXCEPT ![p] = subscribers]
      /\ pc' = [pc EXCEPT ![p] = IF subscribers = <<>> THEN "idle" ELSE "put"]
      /\ owed' = [s \in Subscriber |-> owed[s] \cup {x \in {e} : s \in ToSet(subscribers)}]
      /\ UNCHANGED <<busVars, dropped, taken, lost>>
  BY DEF Publish
<1>. HIDE DEF e
<1>3. /\ sent'[p] = sent[p] + 1 /\ event'[p] = e /\ todo'[p] = subscribers
      /\ pc'[p] = IF subscribers = <<>> THEN "idle" ELSE "put"
      /\ \A q \in Publisher : q # p =>
           sent'[q] = sent[q] /\ event'[q] = event[q] /\ todo'[q] = todo[q] /\ pc'[q] = pc[q]
  BY <1>2 DEF BusInv, TypeOK
<1>4. \A s \in Subscriber : owed'[s] = IF s \in ToSet(subscribers) THEN owed[s] \cup {e} ELSE owed[s]
  BY <1>2
<1>5. TypeOK'
  <2>1. sent' \in [Publisher -> Nat]
    BY <1>1, <1>2 DEF BusInv, TypeOK
  <2>2. event' \in [Publisher -> Event \cup {NoEvent}]
    BY <1>1, <1>2 DEF BusInv, TypeOK
  <2>3. todo' \in [Publisher -> Seq(Subscriber)]
    BY <1>2 DEF BusInv, TypeOK
  <2>4. pc' \in [Publisher -> {"idle", "put", "full", "record"}]
    BY <1>2 DEF BusInv, TypeOK
  <2>5. owed' \in [Subscriber -> SUBSET Event]
    <3>1. ASSUME NEW s \in Subscriber PROVE owed'[s] \in SUBSET Event
      <4>1. owed[s] \in SUBSET Event
        BY DEF BusInv, TypeOK
      <4>. QED
        BY <1>1, <1>4, <4>1
    <3>. QED
      BY <1>2, <3>1
  <2>. QED
    BY <1>2, <2>1, <2>2, <2>3, <2>4, <2>5 DEF BusInv, TypeOK, busVars
<1>6. Calls'
  BY <1>1, <1>2, <1>3 DEF BusInv, Calls
<1>7. ListedOnce'
  BY <1>2, <1>3 DEF BusInv, ListedOnce, Distinct, busVars
<1>8. \A s \in Subscriber : e \notin owed[s]
  BY <1>1 DEF BusInv, TypeOK, NewestLast, Numbered
<1>9. NewestLast'
  <2>. SUFFICES ASSUME NEW s \in Subscriber, NEW x \in owed'[s]
                PROVE  x.number <= sent'[x.by] /\ (x.number = sent'[x.by] => x = event'[x.by])
    BY DEF NewestLast, Numbered
  <2>1. x = e \/ x \in owed[s]
    BY <1>4
  <2>2. CASE x = e
    BY <1>1, <1>3, <2>2
  <2>3. CASE x \in owed[s]
    <3>1. /\ x \in Event /\ x.by \in Publisher /\ x.number \in Nat
          /\ x.number <= sent[x.by] /\ (x.number = sent[x.by] => x = event[x.by])
      BY <2>3 DEF BusInv, TypeOK, NewestLast, Numbered, Event
    <3>2. CASE x.by = p
      BY <1>1, <1>3, <3>1, <3>2
    <3>3. CASE x.by # p
      BY <1>3, <3>1, <3>3
    <3>. QED
      BY <3>2, <3>3
  <2>. QED
    BY <2>1, <2>2, <2>3
<1>10. OrderKept'
  BY <1>2 DEF BusInv, OrderKept, busVars
<1>11. NothingVanishes'
  <2>1. \A s \in Subscriber : Split(owed[s], taken[s], ToSet(queue[s]), Dropped(s), Pending(s))
    BY DEF BusInv, NothingVanishes, Split
  <2>2. \A s \in Subscriber : Dropped(s)' = Dropped(s)
    BY <1>2 DEF Dropped
  <2>3. ASSUME NEW s \in Subscriber
        PROVE  Pending(s)' = IF s \in ToSet(subscribers) THEN Pending(s) \cup {e} ELSE Pending(s)
    <3>1. ~(s \in ToSet(todo[p]))
      BY <1>1 DEF ToSet
    <3>2. \A q \in Publisher : s \in ToSet(todo'[q]) <=>
            IF q = p THEN s \in ToSet(subscribers) ELSE s \in ToSet(todo[q])
      BY <1>3
    <3>. QED
      BY <1>3, <3>1, <3>2 DEF Pending
  <2>4. ASSUME NEW s \in Subscriber
        PROVE  Split(owed'[s], taken[s], ToSet(queue[s]), Dropped(s), Pending(s)')
    BY <1>4, <1>8, <2>1, <2>3 DEF Split
  <2>. QED
    BY <1>2, <2>2, <2>4 DEF NothingVanishes, Split, busVars
<1>12. DropsCounted'
  <2>1. \A D : AboutToCount(D)' = AboutToCount(D)
    <3>1. \A q \in Publisher : pc'[q] = "record" <=> pc[q] = "record"
      BY <1>1, <1>3
    <3>. QED
      BY <1>2, <3>1 DEF AboutToCount
  <2>. QED
    BY <1>2, <2>1 DEF BusInv, DropsCounted, LostOf, busVars
<1>. QED
  BY <1>5, <1>6, <1>7, <1>9, <1>10, <1>11, <1>12 DEF BusInv



(* put_nowait(): the publisher's own event goes to the end of the queue,    *)
(* which holds older ones only.                                             *)
LEMMA PutInv ==
  ASSUME BusInv, NEW p \in Publisher, PutNowait(p),
         NEW s, s = Head(todo[p]), NEW e, e = event[p]
  PROVE  BusInv'
<1>1. /\ pc[p] = "put" /\ todo[p] \in Seq(Subscriber) /\ todo[p] # <<>> /\ Distinct(todo[p])
      /\ e \in Event /\ e.by = p /\ e.number = sent[p]
  BY DEF BusInv, TypeOK, Calls, ListedOnce, PutNowait
<1>2. /\ s \in Subscriber /\ Tail(todo[p]) \in Seq(Subscriber) /\ Distinct(Tail(todo[p]))
      /\ ToSet(todo[p]) = {s} \cup ToSet(Tail(todo[p])) /\ s \notin ToSet(Tail(todo[p]))
  BY <1>1, TailSet
<1>3. UNCHANGED <<subscribers, total, byDevice, event, dropped, sent, owed, taken, lost>>
  BY DEF PutNowait, history
<1>4. \/ pc' = [pc EXCEPT ![p] = "full"] /\ queue' = queue /\ todo' = todo
      \/ /\ queue' = [queue EXCEPT ![s] = Append(@, e)]
         /\ todo' = [todo EXCEPT ![p] = Tail(@)]
         /\ pc' = [pc EXCEPT ![p] = IF Len(todo[p]) = 1 THEN "idle" ELSE "put"]
  BY DEF PutNowait
<1>5. DropsCounted'
  <2>1. \A q \in Publisher : pc'[q] = "record" <=> pc[q] = "record"
    BY <1>1, <1>4 DEF BusInv, TypeOK
  <2>2. \A D : AboutToCount(D)' = AboutToCount(D)
    BY <1>3, <2>1 DEF AboutToCount
  <2>. QED
    BY <1>3, <2>2 DEF BusInv, DropsCounted, LostOf
<1>6. NewestLast'
  BY <1>3 DEF BusInv, NewestLast
<1>7. \A u \in Subscriber : Split(owed[u], taken[u], ToSet(queue[u]), Dropped(u), Pending(u))
  BY DEF BusInv, NothingVanishes, Split
<1>8. \A u \in Subscriber : Dropped(u)' = Dropped(u)
  BY <1>3 DEF Dropped
<1>9. CASE pc' = [pc EXCEPT ![p] = "full"] /\ queue' = queue /\ todo' = todo
  <2>1. TypeOK' /\ ListedOnce'
    BY <1>3, <1>9 DEF BusInv, TypeOK, ListedOnce, Distinct
  <2>2. Calls'
    BY <1>1, <1>3, <1>9 DEF BusInv, TypeOK, Calls
  <2>3. OrderKept'
    BY <1>3, <1>9 DEF BusInv, OrderKept
  <2>4. NothingVanishes'
    <3>1. \A u \in Subscriber : Pending(u)' = Pending(u)
      BY <1>3, <1>9 DEF Pending
    <3>. QED
      BY <1>3, <1>7, <1>8, <1>9, <3>1 DEF NothingVanishes, Split
  <2>. QED
    BY <1>5, <1>6, <2>1, <2>2, <2>3, <2>4 DEF BusInv
<1>10. CASE /\ queue' = [queue EXCEPT ![s] = Append(@, e)]
            /\ todo' = [todo EXCEPT ![p] = Tail(@)]
            /\ pc' = [pc EXCEPT ![p] = IF Len(todo[p]) = 1 THEN "idle" ELSE "put"]
  <2>1. /\ queue'[s] = Append(queue[s], e)
        /\ \A u \in Subscriber : u # s => queue'[u] = queue[u]
    BY <1>2, <1>10 DEF BusInv, TypeOK
  <2>2. /\ todo'[p] = Tail(todo[p])
        /\ pc'[p] = IF Len(todo[p]) = 1 THEN "idle" ELSE "put"
        /\ \A q \in Publisher : q # p => todo'[q] = todo[q] /\ pc'[q] = pc[q]
    BY <1>10 DEF BusInv, TypeOK
  <2>3. /\ queue[s] \in Seq(Event) /\ Append(queue[s], e) \in Seq(Event)
        /\ ToSet(Append(queue[s], e)) = ToSet(queue[s]) \cup {e}
    <3>1. queue[s] \in Seq(Event)
      BY <1>2 DEF BusInv, TypeOK
    <3>. QED
      BY <1>1, <3>1, AppendSet
  <2>4. TypeOK'
    <3>1. queue' \in [Subscriber -> Seq(Event)]
      BY <1>2, <1>10, <2>3 DEF BusInv, TypeOK
    <3>2. todo' \in [Publisher -> Seq(Subscriber)]
      BY <1>2, <1>10 DEF BusInv, TypeOK
    <3>3. pc' \in [Publisher -> {"idle", "put", "full", "record"}]
      BY <1>10 DEF BusInv, TypeOK
    <3>. QED
      BY <1>3, <3>1, <3>2, <3>3 DEF BusInv, TypeOK
  <2>5. Calls'
    <3>1. Len(todo[p]) = 1 <=> Tail(todo[p]) = <<>>
      <4>1. Len(todo[p]) \in Nat \ {0} /\ Len(Tail(todo[p])) = Len(todo[p]) - 1
        BY <1>1, HeadTailProperties
      <4>2. Tail(todo[p]) = <<>> <=> Len(Tail(todo[p])) = 0
        BY <1>2, EmptySeq
      <4>. QED
        BY <4>1, <4>2
    <3>2. ASSUME NEW q \in Publisher
          PROVE  /\ todo'[q] = <<>> <=> pc'[q] = "idle"
                 /\ todo'[q] # <<>> => event[q] \in Event /\ event[q].by = q /\ event[q].number = sent[q]
                 /\ pc'[q] = "record" => dropped[q] \in Event
      <4>1. CASE q = p
        BY <1>1, <2>2, <3>1, <4>1
      <4>2. CASE q # p
        BY <2>2, <4>2 DEF BusInv, Calls
      <4>. QED
        BY <4>1, <4>2
    <3>. QED
      BY <1>3, <3>2 DEF Calls
  <2>6. ListedOnce'
    <3>1. \A q \in Publisher : Distinct(todo'[q])
      BY <1>2, <2>2 DEF BusInv, ListedOnce
    <3>. QED
      BY <1>3, <3>1 DEF BusInv, ListedOnce, Distinct
  <2>7. e \in Pending(s)
    BY <1>1, <1>2 DEF Pending
  <2>8. e \notin taken[s] \cup ToSet(queue[s]) /\ taken[s] \cup ToSet(queue[s]) \subseteq owed[s]
    BY <1>2, <1>7, <2>7 DEF Split
  <2>9. OrderKept'
    <3>1. ASSUME NEW x \in taken[s] \cup ToSet(queue[s]) PROVE Older(x, e)
      <4>1. x \in owed[s] /\ x # e
        BY <2>8
      <4>2. x \in Event /\ x.number <= sent[x.by] /\ (x.number = sent[x.by] => x = event[x.by])
        BY <1>2, <4>1 DEF BusInv, TypeOK, NewestLast, Numbered
      <4>3. x.by \in Publisher /\ x.number \in Nat /\ sent[p] \in Nat
        BY <4>2 DEF BusInv, TypeOK, Event
      <4>4. ASSUME x.by = p PROVE x.number < sent[p]
        BY <4>1, <4>2, <4>3, <4>4
      <4>. QED
        BY <1>1, <4>4 DEF Older
    <3>2. taken[s] \in SUBSET Event /\ Sorted(taken[s], queue[s])
      BY <1>2 DEF BusInv, TypeOK, OrderKept, Sorted
    <3>3. Sorted(taken[s], Append(queue[s], e))
      BY <1>1, <2>3, <3>1, <3>2, SortedAppend
    <3>4. \A u \in Subscriber : Sorted(taken[u], queue'[u])
      BY <2>1, <3>3 DEF BusInv, OrderKept, Sorted
    <3>. QED
      BY <1>3, <3>4 DEF OrderKept, Sorted
  <2>10. NothingVanishes'
    <3>1. \A q \in Publisher : q # p /\ todo[q] # <<>> => event[q] # e
      BY <1>1 DEF BusInv, Calls
    <3>2. \A u \in Subscriber, q \in Publisher : u \in ToSet(todo[q]) => todo[q] # <<>>
      BY DEF ToSet
    <3>3. ASSUME NEW u \in Subscriber, NEW q \in Publisher
          PROVE  u \in ToSet(todo'[q]) <=> u \in ToSet(todo[q]) /\ ~(q = p /\ u = s)
      <4>1. CASE q = p
        BY <1>2, <2>2, <4>1
      <4>2. CASE q # p
        BY <2>2, <4>2
      <4>. QED
        BY <4>1, <4>2
    <3>4. Pending(s)' = Pending(s) \ {e}
      <4>1. Pending(s)' = {event[q] : q \in {r \in Publisher : s \in ToSet(todo'[r])}}
        BY <1>3 DEF Pending
      <4>2. \A r \in Publisher : s \in ToSet(todo'[r]) <=> s \in ToSet(todo[r]) /\ r # p
        BY <1>2, <3>3
      <4>3. ASSUME NEW x \in Pending(s)' PROVE x \in Pending(s) /\ x # e
        BY <3>1, <3>2, <1>2, <4>1, <4>2 DEF Pending
      <4>4. ASSUME NEW x \in Pending(s), x # e PROVE x \in Pending(s)'
        BY <4>1, <4>2, <4>4 DEF Pending
      <4>. QED
        BY <4>3, <4>4
    <3>5. \A u \in Subscriber : u # s => Pending(u)' = Pending(u)
      BY <1>3, <3>3 DEF Pending
    <3>6. Split(owed[s], taken[s], ToSet(queue'[s]), Dropped(s), Pending(s)')
      <4>1. Split(owed[s], taken[s], ToSet(queue[s]), Dropped(s), Pending(s))
        BY <1>2, <1>7
      <4>2. ToSet(queue'[s]) = ToSet(queue[s]) \cup {e}
        BY <2>1, <2>3
      <4>. QED
        BY <2>7, <3>4, <4>1, <4>2 DEF Split
    <3>7. \A u \in Subscriber : Split(owed[u], taken[u], ToSet(queue'[u]), Dropped(u), Pending(u)')
      BY <1>7, <2>1, <3>5, <3>6
    <3>. QED
      BY <1>3, <1>8, <3>7 DEF NothingVanishes, Split
  <2>. QED
    BY <1>5, <1>6, <2>4, <2>5, <2>6, <2>9, <2>10 DEF BusInv
<1>. QED
  BY <1>4, <1>9, <1>10




-----------------------------------------------------------------------------
(* A drop: get_nowait() takes the oldest event of a queue, and a publisher  *)
(* that has an event in its hand has yet to count it.                       *)

LEMMA AboutToCountFinite == \A D : IsFiniteSet(AboutToCount(D))
  BY FS_Subset DEF AboutToCount

LEMMA LostFinite == ASSUME IsFiniteSet(lost) PROVE \A D : IsFiniteSet(LostOf(D))
  BY FS_Subset DEF LostOf

(* The two sets when p has taken x from the queue of s                      *)
LEMMA DropCounted ==
  ASSUME BusInv, NEW p \in Publisher, NEW s \in Subscriber, NEW x \in Event, NEW D,
         pc[p] # "record", <<s, x>> \notin lost,
         lost' = lost \cup {<<s, x>>},
         pc' = [pc EXCEPT ![p] = "record"], dropped' = [dropped EXCEPT ![p] = x]
  PROVE  Cardinality(LostOf(D)') - Cardinality(AboutToCount(D)')
           = Cardinality(LostOf(D)) - Cardinality(AboutToCount(D))
<1>1. IsFiniteSet(LostOf(D)) /\ IsFiniteSet(AboutToCount(D))
  BY LostFinite, AboutToCountFinite DEF BusInv, TypeOK
<1>2. Cardinality(LostOf(D)) \in Nat /\ Cardinality(AboutToCount(D)) \in Nat
  BY <1>1, FS_CardinalityType
<1>3. /\ pc'[p] = "record" /\ dropped'[p] = x
      /\ \A q \in Publisher : q # p => pc'[q] = pc[q] /\ dropped'[q] = dropped[q]
  BY DEF BusInv, TypeOK
<1>4. p \notin AboutToCount(D) /\ <<s, x>> \notin LostOf(D)
  BY DEF AboutToCount, LostOf
<1>5. CASE x.device \in D
  <2>1. LostOf(D)' = LostOf(D) \cup {<<s, x>>}
    BY <1>5 DEF LostOf
  <2>2. AboutToCount(D)' = AboutToCount(D) \cup {p}
    BY <1>3, <1>5 DEF AboutToCount
  <2>3. /\ Cardinality(LostOf(D)') = Cardinality(LostOf(D)) + 1
        /\ Cardinality(AboutToCount(D)') = Cardinality(AboutToCount(D)) + 1
    BY <1>1, <1>4, <2>1, <2>2, FS_AddElement
  <2>. QED
    BY <1>2, <2>3
<1>6. CASE x.device \notin D
  <2>1. LostOf(D)' = LostOf(D)
    BY <1>6 DEF LostOf
  <2>2. AboutToCount(D)' = AboutToCount(D)
    BY <1>3, <1>4, <1>6 DEF AboutToCount
  <2>. QED
    BY <2>1, <2>2
<1>. QED
  BY <1>5, <1>6

LEMMA GetInv ==
  ASSUME BusInv, NEW p \in Publisher, GetNowait(p), NEW s, s = Head(todo[p])
  PROVE  BusInv'
<1>1. pc[p] = "full" /\ todo[p] \in Seq(Subscriber) /\ todo[p] # <<>>
  BY DEF BusInv, TypeOK, Calls, GetNowait
<1>2. s \in Subscriber /\ queue[s] \in Seq(Event) /\ taken[s] \in SUBSET Event
  <2>1. s \in Subscriber
    BY <1>1, TailSet
  <2>. QED
    BY <2>1 DEF BusInv, TypeOK
<1>3. UNCHANGED <<subscribers, total, byDevice, event, todo, sent, owed, taken>>
  BY DEF GetNowait
<1>4. ListedOnce' /\ NewestLast'
  BY <1>3 DEF BusInv, ListedOnce, Distinct, NewestLast
<1>5. \A u \in Subscriber : Pending(u)' = Pending(u)
  BY <1>3 DEF Pending
<1>6. CASE queue[s] = <<>>
  <2>1. pc' = [pc EXCEPT ![p] = "put"] /\ UNCHANGED <<queue, dropped, lost>>
    BY <1>6 DEF GetNowait
  <2>2. TypeOK'
    BY <1>3, <2>1 DEF BusInv, TypeOK
  <2>3. Calls'
    BY <1>1, <1>3, <2>1 DEF BusInv, TypeOK, Calls
  <2>4. OrderKept'
    BY <1>3, <2>1 DEF BusInv, OrderKept
  <2>5. NothingVanishes'
    <3>1. \A u \in Subscriber : Dropped(u)' = Dropped(u)
      BY <2>1 DEF Dropped
    <3>. QED
      BY <1>3, <1>5, <2>1, <3>1 DEF BusInv, NothingVanishes
  <2>6. DropsCounted'
    <3>1. \A q \in Publisher : pc'[q] = "record" <=> pc[q] = "record"
      BY <1>1, <2>1 DEF BusInv, TypeOK
    <3>2. \A D : AboutToCount(D)' = AboutToCount(D)
      BY <2>1, <3>1 DEF AboutToCount
    <3>. QED
      BY <1>3, <2>1, <3>2 DEF BusInv, DropsCounted, LostOf
  <2>. QED
    BY <1>4, <2>2, <2>3, <2>4, <2>5, <2>6 DEF BusInv
<1>7. ASSUME queue[s] # <<>>, NEW x, x = Head(queue[s]) PROVE BusInv'
  <2>1. /\ queue' = [queue EXCEPT ![s] = Tail(@)]
        /\ dropped' = [dropped EXCEPT ![p] = x]
        /\ lost' = lost \cup {<<s, x>>}
        /\ pc' = [pc EXCEPT ![p] = "record"]
    BY <1>7 DEF GetNowait
  <2>2. Sorted(taken[s], queue[s])
    BY <1>2 DEF BusInv, OrderKept, Sorted
  <2>3. /\ x \in Event /\ Tail(queue[s]) \in Seq(Event)
        /\ ToSet(queue[s]) = {x} \cup ToSet(Tail(queue[s]))
        /\ x \notin ToSet(Tail(queue[s]))
        /\ Sorted(taken[s], Tail(queue[s]))
    BY <1>2, <1>7, <2>2, TailSet, SortedTail
  <2>4. /\ queue'[s] = Tail(queue[s])
        /\ \A u \in Subscriber : u # s => queue'[u] = queue[u]
    BY <1>2, <2>1 DEF BusInv, TypeOK
  <2>5. \A u \in Subscriber : Split(owed[u], taken[u], ToSet(queue[u]), Dropped(u), Pending(u))
    BY DEF BusInv, NothingVanishes, Split
  <2>6. <<s, x>> \notin lost
    <3>1. x \notin Dropped(s)
      BY <1>2, <2>3, <2>5 DEF Split
    <3>. QED
      BY <3>1 DEF Dropped
  <2>7. TypeOK'
    <3>1. queue' \in [Subscriber -> Seq(Event)]
      BY <1>2, <2>1, <2>3 DEF BusInv, TypeOK
    <3>2. lost' \in SUBSET (Subscriber \X Event) /\ IsFiniteSet(lost')
      <4>1. lost \in SUBSET (Subscriber \X Event) /\ IsFiniteSet(lost)
        BY DEF BusInv, TypeOK
      <4>2. <<s, x>> \in Subscriber \X Event
        BY <1>2, <2>3
      <4>3. IsFiniteSet(lost \cup {<<s, x>>})
        BY <4>1, FS_AddElement
      <4>. QED
        BY <2>1, <4>1, <4>2, <4>3
    <3>3. /\ dropped' \in [Publisher -> Event \cup {NoEvent}]
          /\ pc' \in [Publisher -> {"idle", "put", "full", "record"}]
      BY <2>1, <2>3 DEF BusInv, TypeOK
    <3>. QED
      BY <1>3, <3>1, <3>2, <3>3 DEF BusInv, TypeOK
  <2>8. Calls'
    <3>1. ASSUME NEW q \in Publisher
          PROVE  /\ todo[q] = <<>> <=> pc'[q] = "idle"
                 /\ pc'[q] = "record" => dropped'[q] \in Event
      BY <1>1, <2>1, <2>3 DEF BusInv, TypeOK, Calls
    <3>. QED
      BY <1>3, <3>1 DEF BusInv, Calls
  <2>9. OrderKept'
    <3>1. \A u \in Subscriber : Sorted(taken[u], queue'[u])
      BY <2>3, <2>4 DEF BusInv, OrderKept, Sorted
    <3>. QED
      BY <1>3, <3>1 DEF OrderKept, Sorted
  <2>10. NothingVanishes'
    <3>1. Dropped(s)' = Dropped(s) \cup {x} /\ \A u \in Subscriber : u # s => Dropped(u)' = Dropped(u)
      <4>1. \A u \in Subscriber : Dropped(u) = {z[2] : z \in {y \in lost : y[1] = u}}
        BY DEF Dropped
      <4>2. \A u \in Subscriber : Dropped(u)' = {z[2] : z \in {y \in lost' : y[1] = u}}
        BY DEF Dropped
      <4>3. /\ \A u \in Subscriber : u # s => {y \in lost' : y[1] = u} = {y \in lost : y[1] = u}
            /\ {y \in lost' : y[1] = s} = {y \in lost : y[1] = s} \cup {<<s, x>>}
        BY <2>1
      <4>4. \A A : {z[2] : z \in A \cup {<<s, x>>}} = {z[2] : z \in A} \cup {x}
        <5>. SUFFICES ASSUME NEW A
                      PROVE {z[2] : z \in A \cup {<<s, x>>}} = {z[2] : z \in A} \cup {x}
          OBVIOUS
        <5>1. ASSUME NEW v \in {z[2] : z \in A \cup {<<s, x>>}} PROVE v \in {z[2] : z \in A} \cup {x}
          OBVIOUS
        <5>2. \A v \in {z[2] : z \in A} : v \in {z[2] : z \in A \cup {<<s, x>>}}
          OBVIOUS
        <5>3. <<s, x>>[2] \in {z[2] : z \in A \cup {<<s, x>>}}
          OBVIOUS
        <5>. QED
          BY <5>1, <5>2, <5>3
      <4>5. Dropped(s)' = Dropped(s) \cup {x}
        BY <1>2, <4>1, <4>2, <4>3, <4>4
      <4>6. ASSUME NEW u \in Subscriber, u # s PROVE Dropped(u)' = Dropped(u)
        BY <4>1, <4>2, <4>3, <4>6
      <4>. QED
        BY <4>5, <4>6
    <3>2. Split(owed[s], taken[s], ToSet(queue'[s]), Dropped(s)', Pending(s))
      <4>1. Split(owed[s], taken[s], ToSet(queue[s]), Dropped(s), Pending(s))
        BY <1>2, <2>5
      <4>2. ToSet(queue[s]) = {x} \cup ToSet(queue'[s]) /\ x \notin ToSet(queue'[s])
        BY <2>3, <2>4
      <4>. QED
        BY <3>1, <4>1, <4>2 DEF Split
    <3>3. \A u \in Subscriber : Split(owed[u], taken[u], ToSet(queue'[u]), Dropped(u)', Pending(u))
      BY <2>4, <2>5, <3>1, <3>2
    <3>. QED
      BY <1>3, <1>5, <3>3 DEF NothingVanishes, Split
  <2>11. DropsCounted'
    <3>1. \A D : /\ Cardinality(LostOf(D)') - Cardinality(AboutToCount(D)')
                      = Cardinality(LostOf(D)) - Cardinality(AboutToCount(D))
      BY <1>1, <1>2, <2>1, <2>3, <2>6, DropCounted
    <3>2. \A D : /\ Cardinality(LostOf(D)) \in Nat /\ Cardinality(AboutToCount(D)) \in Nat
      BY LostFinite, AboutToCountFinite, FS_CardinalityType DEF BusInv, TypeOK
    <3>3. \A D : /\ Cardinality(LostOf(D)') \in Nat /\ Cardinality(AboutToCount(D)') \in Nat
      <4>1. IsFiniteSet(lost')
        BY <2>7 DEF TypeOK
      <4>2. \A D : IsFiniteSet(LostOf(D)') /\ IsFiniteSet(AboutToCount(D)')
        BY <4>1, FS_Subset DEF LostOf, AboutToCount
      <4>. QED
        BY <4>2, FS_CardinalityType
    <3>4. /\ \A d \in Device : byDevice[d] + Cardinality(AboutToCount({d})) = Cardinality(LostOf({d}))
          /\ total + Cardinality(AboutToCount(Device)) = Cardinality(LostOf(Device))
          /\ total \in Nat /\ \A d \in Device : byDevice[d] \in Nat
      BY DEF BusInv, TypeOK, DropsCounted
    <3>5. /\ \A d \in Device : byDevice[d] + Cardinality(AboutToCount({d})') = Cardinality(LostOf({d})')
          /\ total + Cardinality(AboutToCount(Device)') = Cardinality(LostOf(Device)')
      BY <3>1, <3>2, <3>3, <3>4
    <3>. QED
      BY <1>3, <3>5 DEF DropsCounted
  <2>. QED
    BY <1>4, <2>7, <2>8, <2>9, <2>10, <2>11 DEF BusInv
<1>. QED
  BY <1>6, <1>7

(* _record_dropped_delivery(): the event leaves the hand for the counters.  *)
LEMMA RecordInv ==
  ASSUME BusInv, NEW p \in Publisher, RecordDropped(p), NEW x, x = dropped[p]
  PROVE  BusInv'
<1>1. pc[p] = "record" /\ x \in Event /\ x.device \in Device
  BY DEF BusInv, TypeOK, Calls, Event, RecordDropped
<1>2. /\ total' = total + 1
      /\ byDevice' = [byDevice EXCEPT ![x.device] = @ + 1]
      /\ dropped' = [dropped EXCEPT ![p] = NoEvent]
      /\ pc' = [pc EXCEPT ![p] = "put"]
      /\ UNCHANGED <<subscribers, queue, event, todo, sent, owed, taken, lost>>
  BY DEF RecordDropped, history
<1>3. TypeOK'
  <2>1. total' \in Nat /\ byDevice' \in [Device -> Nat]
    BY <1>1, <1>2 DEF BusInv, TypeOK
  <2>2. /\ dropped' \in [Publisher -> Event \cup {NoEvent}]
        /\ pc' \in [Publisher -> {"idle", "put", "full", "record"}]
    BY <1>2 DEF BusInv, TypeOK
  <2>. QED
    BY <1>2, <2>1, <2>2 DEF BusInv, TypeOK
<1>4. Calls'
  <2>1. ASSUME NEW q \in Publisher
        PROVE  /\ todo[q] = <<>> <=> pc'[q] = "idle"
               /\ pc'[q] = "record" => dropped'[q] \in Event
    BY <1>1, <1>2 DEF BusInv, TypeOK, Calls
  <2>. QED
    BY <1>2, <2>1 DEF BusInv, Calls
<1>5. ListedOnce' /\ NewestLast' /\ OrderKept'
  BY <1>2 DEF BusInv, ListedOnce, Distinct, NewestLast, OrderKept
<1>6. NothingVanishes'
  <2>1. \A u \in Subscriber : Dropped(u)' = Dropped(u) /\ Pending(u)' = Pending(u)
    BY <1>2 DEF Dropped, Pending
  <2>. QED
    BY <1>2, <2>1 DEF BusInv, NothingVanishes
<1>7. DropsCounted'
  <2>1. \A D : AboutToCount(D)' = AboutToCount(D) \ {p}
    <3>1. /\ pc'[p] # "record"
          /\ \A q \in Publisher : q # p => pc'[q] = pc[q] /\ dropped'[q] = dropped[q]
      BY <1>2 DEF BusInv, TypeOK
    <3>. QED
      BY <3>1 DEF AboutToCount
  <2>2. \A D : p \in AboutToCount(D) <=> x.device \in D
    BY <1>1 DEF AboutToCount
  <2>3. \A D : Cardinality(AboutToCount(D)') =
                 IF x.device \in D THEN Cardinality(AboutToCount(D)) - 1 ELSE Cardinality(AboutToCount(D))
    BY <2>1, <2>2, AboutToCountFinite, FS_RemoveElement
  <2>4. \A D : Cardinality(AboutToCount(D)) \in Nat
    BY AboutToCountFinite, FS_CardinalityType
  <2>5. /\ \A d \in Device : byDevice[d] + Cardinality(AboutToCount({d})) = Cardinality(LostOf({d}))
        /\ total + Cardinality(AboutToCount(Device)) = Cardinality(LostOf(Device))
        /\ total \in Nat /\ \A d \in Device : byDevice[d] \in Nat
    BY DEF BusInv, TypeOK, DropsCounted
  <2>6. \A d \in Device : byDevice'[d] = IF x.device \in {d} THEN byDevice[d] + 1 ELSE byDevice[d]
    BY <1>1, <1>2 DEF BusInv, TypeOK
  <2>7. \A d \in Device : byDevice'[d] + Cardinality(AboutToCount({d})') = Cardinality(LostOf({d}))
    <3>. SUFFICES ASSUME NEW d \in Device
                  PROVE  byDevice'[d] + Cardinality(AboutToCount({d})') = Cardinality(LostOf({d}))
      OBVIOUS
    <3>1. Cardinality(AboutToCount({d})') =
            IF x.device \in {d} THEN Cardinality(AboutToCount({d})) - 1 ELSE Cardinality(AboutToCount({d}))
      BY <2>3
    <3>2. Cardinality(AboutToCount({d})) \in Nat
      BY <2>4
    <3>. QED
      BY <2>5, <2>6, <3>1, <3>2
  <2>8. total' + Cardinality(AboutToCount(Device)') = Cardinality(LostOf(Device))
    BY <1>1, <1>2, <2>3, <2>4, <2>5
  <2>9. \A D : LostOf(D)' = LostOf(D)
    BY <1>2 DEF LostOf
  <2>. QED
    BY <2>7, <2>8, <2>9 DEF DropsCounted
<1>. QED
  BY <1>3, <1>4, <1>5, <1>6, <1>7 DEF BusInv

-----------------------------------------------------------------------------
LEMMA BusNextInv == BusInv /\ [Next]_vars => BusInv'
<1>. SUFFICES ASSUME BusInv, [Next]_vars PROVE BusInv'
  OBVIOUS
<1>1. ASSUME NEW s \in Subscriber, Subscribe(s) \/ Unsubscribe(s) PROVE BusInv'
  BY <1>1, SubscribeInv
<1>2. ASSUME NEW s \in Subscriber, Take(s) PROVE BusInv'
  BY <1>2, TakeInv
<1>3. ASSUME NEW p \in Publisher, NEW d \in Speaks[p], Publish(p, d) PROVE BusInv'
  BY <1>3, PublishInv
<1>4. ASSUME NEW p \in Publisher, PublishStep(p) PROVE BusInv'
  BY <1>4, PutInv, GetInv, RecordInv DEF PublishStep
<1>5. CASE UNCHANGED vars
  <2>1. subscribers' \in Seq(Subscriber) /\ Distinct(subscribers')
    BY <1>5 DEF vars, busVars, BusInv, TypeOK, ListedOnce
  <2>. QED
    BY <1>5, <2>1, ListChangeKeeps DEF vars, busVars
<1>. QED
  BY <1>1, <1>2, <1>3, <1>4, <1>5 DEF Next

(* subscribe, unsubscribe, publish, get: the invariant holds throughout.    *)
THEOREM BusInvariant == Spec => []BusInv
<1>. QED
  BY BusInitInv, BusNextInv, PTL DEF Spec

(* publish(): a subscriber is handed the events of a publisher in the order *)
(* they were published, however publishers and drops interleave.            *)
THEOREM OrderAlwaysKept == Spec => []OrderKept
<1>1. BusInv => OrderKept
  BY DEF BusInv
<1>. QED
  BY BusInvariant, <1>1, PTL

(* publish(): an event a subscriber was owed was taken by it, waits, was    *)
(* dropped, or is about to be put into its queue, and only one of these.    *)
THEOREM NothingEverVanishes == Spec => []NothingVanishes
<1>1. BusInv => NothingVanishes
  BY DEF BusInv
<1>. QED
  BY BusInvariant, <1>1, PTL

(* _record_dropped_delivery(), dropped_deliveries(): both counters are the  *)
(* drops that happened, up to those a publisher is about to count.          *)
THEOREM DropsAlwaysCounted == Spec => []DropsCounted
<1>1. BusInv => DropsCounted
  BY DEF BusInv
<1>. QED
  BY BusInvariant, <1>1, PTL
=============================================================================
