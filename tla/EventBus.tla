------------------------------ MODULE EventBus ------------------------------
(***************************************************************************)
(* RuntimeEventBus: threads publish to the bounded queue of every          *)
(* subscriber, dropping the oldest entry of a full one. publish() holds no *)
(* lock while it works on a queue, so two publishers and the subscriber    *)
(* interleave between its put, get and counter updates.                    *)
(*                                                                         *)
(* A publisher is a thread that calls publish(): a worker, the thread that *)
(* adds or reconnects a device, or the recorder, which speaks of any       *)
(* device. Events are told apart by their publisher and their number.      *)
(***************************************************************************)
EXTENDS Integers, Sequences, FiniteSets, SequencesExt

CONSTANTS
  Device,
  Publisher,
  Speaks,      \* the devices that the events of a publisher are about
  Subscriber,
  MaxSize,     \* maxsize of every subscriber's queue
  MaxEvents    \* bound on the events of a publisher

ASSUME BusAssumption ==
  /\ IsFiniteSet(Publisher)
  /\ Speaks \in [Publisher -> SUBSET Device]
  /\ MaxSize \in Nat \ {0} /\ MaxEvents \in Nat

Event == [by : Publisher, number : Nat, device : Device]
NoEvent == <<>>

VARIABLES
  subscribers,   \* _subscribers, in order
  queue,         \* the Queue of each subscriber
  total,         \* _dropped_deliveries_total
  byDevice,      \* _dropped_deliveries_by_device
  \* publish() of each thread
  pc, event, todo, dropped,
  sent,          \* events published so far
  \* history: what each subscriber was owed and took, and what was dropped:
  \* <<subscriber, event>>
  owed, taken, lost

busVars == <<subscribers, queue, total, byDevice>>
callVars == <<pc, event, todo, dropped, sent>>
history == <<owed, taken, lost>>
vars == <<busVars, callVars, history>>

Init ==
  /\ subscribers = <<>>
  /\ queue = [s \in Subscriber |-> <<>>]
  /\ total = 0
  /\ byDevice = [d \in Device |-> 0]
  /\ pc = [p \in Publisher |-> "idle"]
  /\ event = [p \in Publisher |-> NoEvent]
  /\ todo = [p \in Publisher |-> <<>>]
  /\ dropped = [p \in Publisher |-> NoEvent]
  /\ sent = [p \in Publisher |-> 0]
  /\ owed = [s \in Subscriber |-> {}]
  /\ taken = [s \in Subscriber |-> {}]
  /\ lost = {}

-----------------------------------------------------------------------------
(* subscribe: a queue object is created once, so a subscriber never returns *)
Subscribe(s) ==
  /\ s \notin ToSet(subscribers) /\ owed[s] = {}
  /\ subscribers' = Append(subscribers, s)
  /\ UNCHANGED <<queue, total, byDevice, callVars, history>>

Unsubscribe(s) ==
  \E i \in 1..Len(subscribers) :
    /\ subscribers[i] = s
    /\ subscribers' = RemoveAt(subscribers, i)
    /\ UNCHANGED <<queue, total, byDevice, callVars, history>>

(* The subscriber's get() *)
Take(s) ==
  /\ queue[s] # <<>>
  /\ queue' = [queue EXCEPT ![s] = Tail(@)]
  /\ taken' = [taken EXCEPT ![s] = @ \cup {Head(queue[s])}]
  /\ UNCHANGED <<subscribers, total, byDevice, callVars, owed, lost>>

-----------------------------------------------------------------------------
(* publish: the subscribers are copied under the lock. *)
Publish(p, d) ==
  LET e == [by |-> p, number |-> sent[p] + 1, device |-> d] IN
  /\ pc[p] = "idle" /\ sent[p] < MaxEvents
  /\ sent' = [sent EXCEPT ![p] = @ + 1]
  /\ event' = [event EXCEPT ![p] = e]
  /\ todo' = [todo EXCEPT ![p] = subscribers]
  /\ pc' = [pc EXCEPT ![p] = IF subscribers = <<>> THEN "idle" ELSE "put"]
  /\ owed' = [s \in Subscriber |-> owed[s] \cup {x \in {e} : s \in ToSet(subscribers)}]
  /\ UNCHANGED <<busVars, dropped, taken, lost>>

(* Variant: put() waits for room. *)
PutBlocks(p) ==
  LET s == Head(todo[p]) IN
  /\ pc[p] = "put" /\ Len(queue[s]) < MaxSize
  /\ queue' = [queue EXCEPT ![s] = Append(@, event[p])]
  /\ todo' = [todo EXCEPT ![p] = Tail(@)]
  /\ pc' = [pc EXCEPT ![p] = IF Len(todo[p]) = 1 THEN "idle" ELSE "put"]
  /\ UNCHANGED <<subscribers, total, byDevice, event, dropped, sent, history>>

(* Variant: after a drop the publisher moves on without putting its event. *)
RecordDroppedMovesOn(p) ==
  /\ pc[p] = "record"
  /\ total' = total + 1
  /\ byDevice' = [byDevice EXCEPT ![dropped[p].device] = @ + 1]
  /\ dropped' = [dropped EXCEPT ![p] = NoEvent]
  /\ todo' = [todo EXCEPT ![p] = Tail(@)]
  /\ pc' = [pc EXCEPT ![p] = IF Len(todo[p]) = 1 THEN "idle" ELSE "put"]
  /\ UNCHANGED <<subscribers, queue, event, sent, history>>

(* Variant: the drop is counted for the device of the event to be put. *)
RecordDroppedPublisher(p) ==
  /\ pc[p] = "record"
  /\ total' = total + 1
  /\ byDevice' = [byDevice EXCEPT ![event[p].device] = @ + 1]
  /\ dropped' = [dropped EXCEPT ![p] = NoEvent]
  /\ pc' = [pc EXCEPT ![p] = "put"]
  /\ UNCHANGED <<subscribers, queue, event, todo, sent, history>>

(* Variant: the queue is a LifoQueue. *)
PutNowaitLifo(p) ==
  LET s == Head(todo[p]) IN
  /\ pc[p] = "put"
  /\ IF Len(queue[s]) < MaxSize
     THEN /\ queue' = [queue EXCEPT ![s] = <<event[p]>> \o @]
          /\ todo' = [todo EXCEPT ![p] = Tail(@)]
          /\ pc' = [pc EXCEPT ![p] = IF Len(todo[p]) = 1 THEN "idle" ELSE "put"]
     ELSE /\ pc' = [pc EXCEPT ![p] = "full"]
          /\ UNCHANGED <<queue, todo>>
  /\ UNCHANGED <<subscribers, total, byDevice, event, dropped, sent, history>>

(* put_nowait(event), or Full *)
PutNowait(p) ==
  LET s == Head(todo[p]) IN
  /\ pc[p] = "put"
  /\ IF Len(queue[s]) < MaxSize
     THEN /\ queue' = [queue EXCEPT ![s] = Append(@, event[p])]
          /\ todo' = [todo EXCEPT ![p] = Tail(@)]
          /\ pc' = [pc EXCEPT ![p] = IF Len(todo[p]) = 1 THEN "idle" ELSE "put"]
     ELSE /\ pc' = [pc EXCEPT ![p] = "full"]
          /\ UNCHANGED <<queue, todo>>
  /\ UNCHANGED <<subscribers, total, byDevice, event, dropped, sent, history>>

(* get_nowait() of the oldest entry; Empty means the subscriber, or another *)
(* publisher, emptied the queue meanwhile, and the put is tried again.      *)
GetNowait(p) ==
  LET s == Head(todo[p]) IN
  /\ pc[p] = "full"
  /\ IF queue[s] = <<>>
     THEN /\ pc' = [pc EXCEPT ![p] = "put"]
          /\ UNCHANGED <<queue, dropped, lost>>
     ELSE /\ queue' = [queue EXCEPT ![s] = Tail(@)]
          /\ dropped' = [dropped EXCEPT ![p] = Head(queue[s])]
          /\ lost' = lost \cup {<<s, Head(queue[s])>>}
          /\ pc' = [pc EXCEPT ![p] = "record"]
  /\ UNCHANGED <<subscribers, total, byDevice, event, todo, sent, owed, taken>>

(* _record_dropped_delivery, under the lock *)
RecordDropped(p) ==
  /\ pc[p] = "record"
  /\ total' = total + 1
  /\ byDevice' = [byDevice EXCEPT ![dropped[p].device] = @ + 1]
  /\ dropped' = [dropped EXCEPT ![p] = NoEvent]
  /\ pc' = [pc EXCEPT ![p] = "put"]
  /\ UNCHANGED <<subscribers, queue, event, todo, sent, history>>

PublishStep(p) == PutNowait(p) \/ GetNowait(p) \/ RecordDropped(p)

Next == \/ \E s \in Subscriber : Subscribe(s) \/ Unsubscribe(s) \/ Take(s)
        \/ \E p \in Publisher : \/ \E d \in Speaks[p] : Publish(p, d)
                                \/ PublishStep(p)

Spec == Init /\ [][Next]_vars

(* A publishing thread goes on; subscribers owe nobody a get().             *)
FairSpec == Spec /\ \A p \in Publisher : WF_vars(PublishStep(p))

-----------------------------------------------------------------------------
Older(e, f) == e.by = f.by => e.number < f.number

(* A subscriber sees the events of a publisher in the order they were       *)
(* published, whatever other publishers and drops do to its queue.          *)
OrderKept ==
  \A s \in Subscriber : \A j \in 1..Len(queue[s]) :
    /\ \A e \in taken[s] : Older(e, queue[s][j])
    /\ \A i \in 1..(j - 1) : Older(queue[s][i], queue[s][j])

(* Every event published while a subscriber was registered was taken by it, *)
(* waits in its queue, was dropped, or is still about to be put there, and  *)
(* only one of these, with subscribers coming and going and other           *)
(* publishers on the same queue.                                            *)
Dropped(s) == {x[2] : x \in {y \in lost : y[1] = s}}
Pending(s) == {event[p] : p \in {q \in Publisher : s \in ToSet(todo[q])}}

NothingVanishes ==
  \A s \in Subscriber :
    /\ owed[s] = taken[s] \cup ToSet(queue[s]) \cup Dropped(s) \cup Pending(s)
    /\ taken[s] \cap ToSet(queue[s]) = {}
    /\ (taken[s] \cup ToSet(queue[s])) \cap Dropped(s) = {}
    /\ (taken[s] \cup ToSet(queue[s]) \cup Dropped(s)) \cap Pending(s) = {}

(* The diagnostic counters are the drops that happened, by the device whose *)
(* event was lost, up to those a publisher is about to count.               *)
AboutToCount(D) == {p \in Publisher : pc[p] = "record" /\ dropped[p].device \in D}
LostOf(D) == {x \in lost : x[2].device \in D}

DropsCounted ==
  /\ \A d \in Device : byDevice[d] + Cardinality(AboutToCount({d})) = Cardinality(LostOf({d}))
  /\ total + Cardinality(AboutToCount(Device)) = Cardinality(LostOf(Device))

(* "Fan out runtime events without blocking acquisition workers" (class     *)
(* docstring): publish() returns though no subscriber ever takes anything.  *)
PublishCompletes == \A p \in Publisher : pc[p] # "idle" ~> pc[p] = "idle"
=============================================================================
