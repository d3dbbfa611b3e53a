-------------------------- MODULE MeasurementStream --------------------------
(***************************************************************************)
(* websocket_measurements over RuntimeStore: a worker thread publishes a   *)
(* cycle to the store and then to the event bus; the handler of one page   *)
(* takes events from its own bounded queue and sends each sample together  *)
(* with a snapshot it reads at that moment. The page may vanish at any     *)
(* time, and then connect again.                                           *)
(*                                                                         *)
(* EventBus has the steps of publish() and of the queue; here it is one.   *)
(***************************************************************************)
EXTENDS RuntimeStore, Sequences

CONSTANTS
  QueueSize,   \* maxsize of the handler's queue
  MaxPages     \* bound on the page's connections

ASSUME StreamAssumption == QueueSize \in Nat \ {0} /\ MaxPages \in Nat

VARIABLES
  unpublished,   \* event of each worker that the store has and the bus has not
  handler,       \* "none", at the "top" of its loop, "get", "sample", "send", "left"
  closed,        \* ws.closed
  queue,         \* the subscriber's queue
  inHand,        \* the sample taken from it
  snapshot,      \* what is sent with the sample
  newest, sent,  \* history: sample put on the queue last, 0 after a failed cycle;
                 \* sample sent last
  pages          \* connections so far

handlerVars == <<handler, closed, inHand, snapshot, sent, pages>>
streamVars == <<vars, handlerVars, unpublished, queue, newest>>

NoEvent == [cycle |-> 0]
NoSnapshot == [sampleAt |-> -1]
Subscribed == handler \notin {"none", "left"}

StreamInit ==
  /\ Init
  /\ unpublished = [d \in Device |-> NoEvent]
  /\ handler = "none" /\ closed = FALSE
  /\ queue = <<>> /\ inHand = NoEvent /\ snapshot = NoSnapshot
  /\ newest = 0 /\ sent = 0 /\ pages = 0

-----------------------------------------------------------------------------
(* The worker: store first, then bus (publish_sample, publish_failure).     *)
Event(d, isSample) ==
  [cycle |-> valid[d] + invalid[d] + 1, device |-> d, sample |-> isSample, stamp |-> now]

StoreCycle(d) ==
  /\ unpublished[d] = NoEvent
  /\ \/ /\ \E q \in Quality, total \in 1..MaxConn : PublishSample(d, q, total)
        /\ unpublished' = [unpublished EXCEPT ![d] = Event(d, TRUE)]
     \/ /\ \E total \in 0..MaxConn : PublishFailure(d, total)
        /\ unpublished' = [unpublished EXCEPT ![d] = Event(d, FALSE)]
  /\ UNCHANGED <<handlerVars, queue, newest>>

(* Variant: a full queue refuses the event. *)
PutRefused(q, e) == IF Len(q) < QueueSize THEN Append(q, e) ELSE q

(* A full queue loses its oldest entry. *)
Put(q, e) == Append(IF Len(q) < QueueSize THEN q ELSE Tail(q), e)

PublishBus(d) ==
  LET e == unpublished[d] IN
  /\ e # NoEvent
  /\ unpublished' = [unpublished EXCEPT ![d] = NoEvent]
  /\ IF Subscribed
     THEN /\ queue' = Put(queue, e)
          /\ newest' = IF e.sample THEN e.cycle ELSE 0
     ELSE UNCHANGED <<queue, newest>>
  /\ UNCHANGED <<vars, handlerVars>>

-----------------------------------------------------------------------------
PageConnects ==
  /\ ~Subscribed /\ pages < MaxPages
  /\ pages' = pages + 1
  /\ handler' = "top" /\ closed' = FALSE
  /\ queue' = <<>> /\ newest' = 0 /\ sent' = 0
  /\ UNCHANGED <<vars, unpublished, inHand, snapshot>>

(* A close, or a heartbeat without an answer *)
PageGone ==
  /\ Subscribed /\ ~closed
  /\ closed' = TRUE
  /\ UNCHANGED <<vars, unpublished, handler, queue, inHand, snapshot, newest, sent, pages>>

(* unsubscribe; the queue is garbage. *)
Leave ==
  /\ handler' = "left"
  /\ queue' = <<>> /\ inHand' = NoEvent /\ snapshot' = NoSnapshot
  /\ UNCHANGED <<vars, unpublished, closed, newest, sent, pages>>

LoopTop ==
  /\ handler = "top"
  /\ \/ closed /\ Leave
     \/ /\ ~closed
        /\ handler' = "get"
        /\ UNCHANGED <<vars, unpublished, closed, queue, inHand, snapshot, newest, sent, pages>>

(* Variant: get() waits without a time limit. *)
GetTimesOutNever == FALSE /\ UNCHANGED streamVars

(* get() in its thread: an event, or Empty after half a second *)
GetTimesOut ==
  /\ handler = "get" /\ queue = <<>>
  /\ handler' = "top"
  /\ UNCHANGED <<vars, unpublished, closed, queue, inHand, snapshot, newest, sent, pages>>

Get ==
  /\ handler = "get" /\ queue # <<>>
  /\ queue' = Tail(queue)
  /\ IF Head(queue).sample
     THEN handler' = "sample" /\ inHand' = Head(queue)
     ELSE handler' = "top" /\ UNCHANGED inHand
  /\ UNCHANGED <<vars, unpublished, closed, snapshot, newest, sent, pages>>

(* Variant: the snapshot read last is used again. *)
SnapshotCached(d) == seen[d]

SnapshotNow(d) == seen'[d]

(* get_device and then send_json to its await *)
Send ==
  /\ handler = "sample"
  /\ GetDevice(inHand.device)
  /\ snapshot' = SnapshotNow(inHand.device)
  /\ handler' = "send"
  /\ UNCHANGED <<unpublished, closed, queue, inHand, newest, sent, pages>>

Sent ==
  /\ handler = "send"
  /\ handler' = "top"
  /\ sent' = inHand.cycle
  /\ inHand' = NoEvent /\ snapshot' = NoSnapshot
  /\ UNCHANGED <<vars, unpublished, closed, queue, newest, pages>>

(* ClientConnectionResetError, or the handler is cancelled. *)
SendFails == handler = "send" /\ closed /\ Leave

-----------------------------------------------------------------------------
HandlerStep == LoopTop \/ GetTimesOut \/ Get \/ Send \/ Sent \/ SendFails

OtherStoreStep ==
  /\ \/ \E d \in Device : RegisterDevice(d) \/ GetDevice(d)
     \/ Tick
  /\ UNCHANGED <<handlerVars, unpublished, queue, newest>>

StreamNext ==
  \/ OtherStoreStep
  \/ \E d \in Device : StoreCycle(d) \/ PublishBus(d)
  \/ PageConnects \/ PageGone \/ HandlerStep

(* The loop and the threads run; a send that blocks ends, because a page that
   does not answer the heartbeat is closed. *)
StreamSpec ==
  /\ StreamInit /\ [][StreamNext]_streamVars
  /\ WF_streamVars(HandlerStep)
  /\ \A d \in Device : WF_streamVars(PublishBus(d))

-----------------------------------------------------------------------------
(* The snapshot sent with a sample is of that sample or of a newer one: state
   and age are never those from before the sample, although worker, bus and
   handler run at their own pace (publish_sample, websocket_measurements). *)
SnapshotCoversSample == handler = "send" => snapshot.sampleAt >= inHand.stamp

(* However slow the page and however many events its queue has lost, the newest
   sample published while it is connected is sent to it; only the events of
   failed cycles that follow may push it out (publish, websocket_measurements). *)
NewestArrives == <>[](Subscribed /\ ~closed => newest \in {0, sent})

(* The subscription of a page that is gone is released, also when the devices
   have fallen silent (websocket_measurements). *)
GoneIsReleased == closed ~> ~Subscribed
=============================================================================
