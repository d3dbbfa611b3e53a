---------------------------- MODULE Acquisition ----------------------------
(***************************************************************************)
(* The acquisition layer: AcquisitionCoordinator, one AcquisitionWorker    *)
(* and ReadOnlyModbusClient per attempt to serve a device, the evidence    *)
(* mailbox of a worker, and the part of the RuntimeStore a worker writes.  *)
(*                                                                         *)
(* Threads: one worker thread per running device; one executor thread per  *)
(* device that runs disconnect_device or reconnect_device (the lifecycle   *)
(* service holds a lock per device, so there is one at a time); and the    *)
(* event-loop thread, which serves evidence requests and add_device, and   *)
(* runs coordinator.stop() without yielding.                               *)
(***************************************************************************)
EXTENDS Integers, FiniteSets

CONSTANTS
  Device,       \* device ids
  Worker,       \* worker objects; a reconnect takes a new one
  DeviceOf,     \* the device each worker object is created for
  Request,      \* evidence requests; the future one creates has its name
  NoWorker,
  NoRequest,
  NBlocks,      \* measurement blocks of a cycle (A, B, C, TOTAL)
  NProbes,      \* Modbus reads of one evidence operation
  MaxCycle      \* bound on cycle ids

ASSUME AcquisitionAssumption ==
  /\ DeviceOf \in [Worker -> Device]
  /\ NoWorker \notin Worker
  /\ NoRequest \notin Request
  /\ NBlocks \in Nat \ {0}
  /\ NProbes \in Nat \ {0}
  /\ MaxCycle \in Nat

VARIABLES
  \* AcquisitionCoordinator
  started, stopping,   \* _started, _stop
  lifecycle,           \* _lifecycle[d].state
  workers, threads,    \* _workers[d]; the worker whose thread is _threads[d]
  offsets,             \* _connection_offsets[d]
  \* local state of the call in progress on a device, and of stop()
  op, held,            \* where the call is; the worker it holds
  stopPc, snapThreads, snapWorkers,
  \* AcquisitionWorker and its client
  wpc,                 \* where the code that runs the worker is
  step,                \* the block or probe being read
  cyc,                 \* cycle_id
  stopEvent,           \* the thread's stop event
  base,                \* connection_offset captured for the worker
  sock,                \* client._socket is not None
  opened,              \* client.connections_opened
  mailbox, reading,    \* _pending_evidence; the one taken out and being read
  \* evidence requests
  rpc, rworker, rfuture, done,
  \* RuntimeStore and RuntimeEventBus, per device
  lastSample,          \* cycle id of last_sample, 0 for None
  connections,         \* metrics._connections_opened
  busSample,           \* cycle id of the last sample put on the bus
  dialed               \* history: TCP connections ever opened to the device

coordVars == <<started, stopping, lifecycle, workers, threads, offsets>>
opVars    == <<op, held>>
stopVars  == <<stopPc, snapThreads, snapWorkers>>
loopVars  == <<wpc, step, cyc, stopEvent, base>>
clientVars == <<sock, opened, dialed>>
evidenceVars == <<mailbox, reading, done>>
requestVars == <<rpc, rworker, rfuture>>
storeVars == <<lastSample, connections, busSample>>
vars == <<coordVars, opVars, stopVars, loopVars, clientVars, evidenceVars,
          requestVars, storeVars>>

-----------------------------------------------------------------------------
LifecycleState == {"UNREGISTERED", "DISCONNECTED", "CONNECTING", "RUNNING",
                   "DISCONNECTING", "ERROR"}
OpPc   == {"idle", "setStop", "closeClient", "join", "qualify", "unqualified",
           "publishStore", "publishBus", "install", "startWorker"}
StopPc == {"idle", "snapshot", "signal", "close", "join", "finish", "done",
           "failed"}
ReadPc   == {"connect", "take", "exchange"}
ThreadPc == ReadPc \cup {"head", "wait", "store", "bus", "failStore",
                         "failBus", "boundary", "drain", "close"}
EndedPc  == {"dead", "crashed", "unstarted"}
WorkerPc == ThreadPc \cup EndedPc \cup {"unborn", "made", "dropped"}

Larger(a, b) == IF a > b THEN a ELSE b

(* A worker that runs the qualification cycle of a reconnect does so in the
   thread of reconnect_device; every other worker past "made" has a thread. *)
Qualifying(w) == /\ op[DeviceOf[w]] = "qualify"
                 /\ held[DeviceOf[w]] = w

(* thread.is_alive() *)
Alive(w) == wpc[w] \in ThreadPc /\ ~Qualifying(w)

Fresh(d) == {w \in Worker : DeviceOf[w] = d /\ wpc[w] = "unborn"}

(* The event-loop thread is between two callbacks. *)
LoopFree == /\ stopPc \in {"idle", "done", "failed"}
            /\ \A r \in Request : rpc[r] # "fetched"

-----------------------------------------------------------------------------
(* AcquisitionCoordinator.__init__: every enabled device of the             *)
(* configuration, which may name any devices, gets a worker.                *)
Init ==
  /\ started = FALSE /\ stopping = FALSE
  /\ workers \in [Device -> Worker \cup {NoWorker}]
  /\ \A d \in Device : workers[d] # NoWorker => DeviceOf[workers[d]] = d
  /\ lifecycle = [d \in Device |-> IF workers[d] = NoWorker THEN "UNREGISTERED"
                                                            ELSE "DISCONNECTED"]
  /\ threads = [d \in Device |-> NoWorker]
  /\ offsets = [d \in Device |-> 0]
  /\ op = [d \in Device |-> "idle"]
  /\ held = [d \in Device |-> NoWorker]
  /\ stopPc = "idle" /\ snapThreads = {} /\ snapWorkers = {}
  /\ wpc = [w \in Worker |-> IF workers[DeviceOf[w]] = w THEN "made" ELSE "unborn"]
  /\ step = [w \in Worker |-> 1]
  /\ cyc = [w \in Worker |-> 0]
  /\ stopEvent = [w \in Worker |-> FALSE]
  /\ base = [w \in Worker |-> 0]
  /\ sock = [w \in Worker |-> FALSE]
  /\ opened = [w \in Worker |-> 0]
  /\ mailbox = [w \in Worker |-> NoRequest]
  /\ reading = [w \in Worker |-> NoRequest]
  /\ rpc = [r \in Request |-> "idle"]
  /\ rworker = [r \in Request |-> NoWorker]
  /\ rfuture = [r \in Request |-> NoRequest]
  /\ done = [r \in Request |-> FALSE]
  /\ lastSample = [d \in Device |-> 0]
  /\ connections = [d \in Device |-> 0]
  /\ busSample = [d \in Device |-> 0]
  /\ dialed = [d \in Device |-> 0]

-----------------------------------------------------------------------------
(* _start_worker for every worker of W: a new stop event, the thread, and   *)
(* RUNNING, under the coordinator's lock.                                   *)
StartThreads(W) ==
  /\ threads' = [d \in Device |->
                   IF \E w \in W : DeviceOf[w] = d
                   THEN CHOOSE w \in W : DeviceOf[w] = d ELSE threads[d]]
  /\ lifecycle' = [d \in Device |->
                   IF \E w \in W : DeviceOf[w] = d THEN "RUNNING" ELSE lifecycle[d]]
  /\ wpc' = [w \in Worker |-> IF w \in W THEN "head" ELSE wpc[w]]

(* start(): runs before the server does, so nothing of the coordinator      *)
(* changes between the first worker it starts and the last.                 *)
Start ==
  /\ ~started /\ ~stopping /\ LoopFree
  /\ started' = TRUE
  /\ StartThreads({w \in Worker : workers[DeviceOf[w]] = w})
  /\ UNCHANGED <<stopping, workers, offsets, opVars, stopVars, step, cyc,
                 stopEvent, base, clientVars, evidenceVars, requestVars, storeVars>>

(* add_device with the sample of the connector's qualification cycle 1,     *)
(* which the connector read through a client of its own, now closed.        *)
AddDevice(d) ==
  /\ LoopFree /\ ~stopping
  /\ lifecycle[d] = "UNREGISTERED"
  /\ \E w \in Fresh(d) :
       /\ workers' = [workers EXCEPT ![d] = w]
       /\ cyc' = [cyc EXCEPT ![w] = 1]
       /\ IF started
          THEN StartThreads({w})
          ELSE /\ lifecycle' = [lifecycle EXCEPT ![d] = "DISCONNECTED"]
               /\ wpc' = [wpc EXCEPT ![w] = "made"]
               /\ UNCHANGED threads
  /\ lastSample' = [lastSample EXCEPT ![d] = 1]
  /\ busSample' = [busSample EXCEPT ![d] = 1]
  /\ connections' = [connections EXCEPT ![d] = 1]
  /\ dialed' = [dialed EXCEPT ![d] = 1]
  /\ UNCHANGED <<started, stopping, offsets, opVars, stopVars, step, stopEvent,
                 base, sock, opened, evidenceVars, requestVars>>

-----------------------------------------------------------------------------
(* disconnect_device *)
BeginDisconnect(d) ==
  /\ op[d] = "idle"
  /\ lifecycle[d] = "RUNNING"
  /\ lifecycle' = [lifecycle EXCEPT ![d] = "DISCONNECTING"]
  /\ op' = [op EXCEPT ![d] = "setStop"]
  /\ held' = [held EXCEPT ![d] = threads[d]]
  /\ UNCHANGED <<started, stopping, workers, threads, offsets, stopVars, loopVars,
                 clientVars, evidenceVars, requestVars, storeVars>>

DisconnectSetStop(d) ==
  /\ op[d] = "setStop"
  /\ stopEvent' = [stopEvent EXCEPT ![held[d]] = TRUE]
  /\ op' = [op EXCEPT ![d] = "closeClient"]
  /\ UNCHANGED <<coordVars, held, stopVars, wpc, step, cyc, base, clientVars,
                 evidenceVars, requestVars, storeVars>>

DisconnectCloseClient(d) ==
  /\ op[d] = "closeClient"
  /\ sock' = [sock EXCEPT ![held[d]] = FALSE]
  /\ op' = [op EXCEPT ![d] = "join"]
  /\ UNCHANGED <<coordVars, held, stopVars, loopVars, opened, dialed,
                 evidenceVars, requestVars, storeVars>>

(* thread.join returned and the thread is dead *)
DisconnectJoined(d) ==
  /\ op[d] = "join"
  /\ ~Alive(held[d])
  /\ offsets' = [offsets EXCEPT ![d] = @ + opened[held[d]]]
  /\ lifecycle' = [lifecycle EXCEPT ![d] = "DISCONNECTED"]
  /\ op' = [op EXCEPT ![d] = "idle"]
  /\ held' = [held EXCEPT ![d] = NoWorker]
  /\ UNCHANGED <<started, stopping, workers, threads, stopVars, loopVars, clientVars,
                 evidenceVars, requestVars, storeVars>>

(* thread.join gave up after join_timeout_s *)
DisconnectTimeout(d) ==
  /\ op[d] = "join"
  /\ Alive(held[d])
  /\ lifecycle' = [lifecycle EXCEPT ![d] = "ERROR"]
  /\ op' = [op EXCEPT ![d] = "idle"]
  /\ held' = [held EXCEPT ![d] = NoWorker]
  /\ UNCHANGED <<started, stopping, workers, threads, offsets, stopVars, loopVars,
                 clientVars, evidenceVars, requestVars, storeVars>>

-----------------------------------------------------------------------------
(* reconnect_device *)
(* Variant: the qualification cycle takes the id of the last sample. *)
QualificationCycleReused(d) == lastSample[d]

QualificationCycle(d) == lastSample[d] + 1

(* Variant: a device in ERROR may be reconnected, its old thread unchecked. *)
CanReconnectFromError(d) == /\ op[d] = "idle" /\ started /\ ~stopping
                            /\ lifecycle[d] \in {"DISCONNECTED", "ERROR"}

CanReconnect(d) ==
  /\ op[d] = "idle"
  /\ started /\ ~stopping
  /\ lifecycle[d] = "DISCONNECTED"
  /\ threads[d] # NoWorker => ~Alive(threads[d])

BeginReconnect(d) ==
  /\ CanReconnect(d)
  /\ QualificationCycle(d) <= MaxCycle
  /\ \E w \in Fresh(d) :
       /\ wpc' = [wpc EXCEPT ![w] = "connect"]
       /\ cyc' = [cyc EXCEPT ![w] = QualificationCycle(d)]
       /\ base' = [base EXCEPT ![w] = offsets[d]]
       /\ held' = [held EXCEPT ![d] = w]
  /\ lifecycle' = [lifecycle EXCEPT ![d] = "CONNECTING"]
  /\ op' = [op EXCEPT ![d] = "qualify"]
  /\ UNCHANGED <<started, stopping, workers, threads, offsets, stopVars, step,
                 stopEvent, clientVars, evidenceVars, requestVars, storeVars>>

(* The qualification cycle failed: client.close() and back to DISCONNECTED. *)
ReconnectUnqualified(d) ==
  /\ op[d] = "unqualified"
  /\ sock' = [sock EXCEPT ![held[d]] = FALSE]
  /\ lifecycle' = [lifecycle EXCEPT ![d] = "DISCONNECTED"]
  /\ op' = [op EXCEPT ![d] = "idle"]
  /\ held' = [held EXCEPT ![d] = NoWorker]
  /\ UNCHANGED <<started, stopping, workers, threads, offsets, stopVars, loopVars,
                 opened, dialed, evidenceVars, requestVars, storeVars>>

ReconnectPublishStore(d) ==
  /\ op[d] = "publishStore"
  /\ lastSample' = [lastSample EXCEPT ![d] = cyc[held[d]]]
  /\ connections' = [connections EXCEPT
                       ![d] = Larger(@, base[held[d]] + opened[held[d]])]
  /\ op' = [op EXCEPT ![d] = "publishBus"]
  /\ UNCHANGED <<coordVars, held, stopVars, loopVars, clientVars, evidenceVars,
                 requestVars, busSample>>

ReconnectPublishBus(d) ==
  /\ op[d] = "publishBus"
  /\ busSample' = [busSample EXCEPT ![d] = cyc[held[d]]]
  /\ op' = [op EXCEPT ![d] = "install"]
  /\ UNCHANGED <<coordVars, held, stopVars, loopVars, clientVars, evidenceVars,
                 requestVars, lastSample, connections>>

(* Under the lock: give up if the coordinator is stopping, else install the *)
(* qualified worker.                                                        *)
ReconnectInstall(d) ==
  /\ op[d] = "install"
  /\ IF stopping
     THEN /\ sock' = [sock EXCEPT ![held[d]] = FALSE]
          /\ wpc' = [wpc EXCEPT ![held[d]] = "dropped"]
          /\ lifecycle' = [lifecycle EXCEPT ![d] = "DISCONNECTED"]
          /\ op' = [op EXCEPT ![d] = "idle"]
          /\ held' = [held EXCEPT ![d] = NoWorker]
          /\ UNCHANGED workers
     ELSE /\ workers' = [workers EXCEPT ![d] = held[d]]
          /\ op' = [op EXCEPT ![d] = "startWorker"]
          /\ UNCHANGED <<sock, wpc, lifecycle, held>>
  /\ UNCHANGED <<started, stopping, threads, offsets, stopVars, step, cyc, stopEvent,
                 base, opened, dialed, evidenceVars, requestVars, storeVars>>

(* _start_worker takes the lock again: stop() may have run in between.      *)
ReconnectStartWorker(d) ==
  /\ op[d] = "startWorker"
  /\ StartThreads({held[d]})
  /\ op' = [op EXCEPT ![d] = "idle"]
  /\ held' = [held EXCEPT ![d] = NoWorker]
  /\ UNCHANGED <<started, stopping, workers, offsets, stopVars, step, cyc, stopEvent,
                 base, clientVars, evidenceVars, requestVars, storeVars>>

(* thread.start() raises, with the thread registered: client.close(), ERROR *)
ReconnectStartFails(d) ==
  /\ op[d] = "startWorker"
  /\ threads' = [threads EXCEPT ![d] = held[d]]
  /\ wpc' = [wpc EXCEPT ![held[d]] = "unstarted"]
  /\ sock' = [sock EXCEPT ![held[d]] = FALSE]
  /\ lifecycle' = [lifecycle EXCEPT ![d] = "ERROR"]
  /\ op' = [op EXCEPT ![d] = "idle"]
  /\ held' = [held EXCEPT ![d] = NoWorker]
  /\ UNCHANGED <<started, stopping, workers, offsets, stopVars, step, cyc, stopEvent,
                 base, opened, dialed, evidenceVars, requestVars, storeVars>>

-----------------------------------------------------------------------------
(* Reading blocks of a cycle, or probes of an evidence operation, through   *)
(* the worker's client. close() by another thread may come between any two. *)
IsEvidence(w) == reading[w] # NoRequest
LastStep(w) == IF IsEvidence(w) THEN NProbes ELSE NBlocks

Goto(w, pc) == wpc' = [wpc EXCEPT ![w] = pc]

(* future.set_result or set_exception, and back to the head of the loop     *)
AnswerEvidence(w) ==
  /\ done' = [done EXCEPT ![reading[w]] = TRUE]
  /\ reading' = [reading EXCEPT ![w] = NoRequest]
  /\ Goto(w, "head")
  /\ UNCHANGED <<mailbox, opVars>>

(* Where the reader goes when the last read succeeds, and when one fails.   *)
ReadDone(w) ==
  CASE Qualifying(w) ->
         /\ op' = [op EXCEPT ![DeviceOf[w]] = "publishStore"]
         /\ Goto(w, "made")
         /\ UNCHANGED <<held, evidenceVars>>
    [] IsEvidence(w) -> AnswerEvidence(w)
    [] OTHER -> Goto(w, "store") /\ UNCHANGED <<opVars, evidenceVars>>

ReadFailed(w) ==
  CASE Qualifying(w) ->
         /\ op' = [op EXCEPT ![DeviceOf[w]] = "unqualified"]
         /\ Goto(w, "dropped")
         /\ UNCHANGED <<held, evidenceVars>>
    [] IsEvidence(w) -> AnswerEvidence(w)
    [] OTHER -> Goto(w, "failStore") /\ UNCHANGED <<opVars, evidenceVars>>

(* Variant: connections_opened counts every call of connect(). *)
ConnectCountsCalls(w) ==
  /\ wpc[w] = "connect"
  /\ sock' = [sock EXCEPT ![w] = TRUE]
  /\ opened' = [opened EXCEPT ![w] = @ + 1]
  /\ dialed' = [dialed EXCEPT ![DeviceOf[w]] = IF sock[w] THEN @ ELSE @ + 1]
  /\ Goto(w, "take")
  /\ UNCHANGED <<coordVars, opVars, stopVars, step, cyc, stopEvent, base,
                 evidenceVars, requestVars, storeVars>>

(* client.connect(): keep the open socket, open one, or fail to.            *)
Connect(w) ==
  /\ wpc[w] = "connect"
  /\ \/ /\ sock[w]
        /\ Goto(w, "take")
        /\ UNCHANGED <<clientVars, opVars, evidenceVars>>
     \/ /\ ~sock[w]
        /\ sock' = [sock EXCEPT ![w] = TRUE]
        /\ opened' = [opened EXCEPT ![w] = @ + 1]
        /\ dialed' = [dialed EXCEPT ![DeviceOf[w]] = @ + 1]
        /\ Goto(w, "take")
        /\ UNCHANGED <<opVars, evidenceVars>>
     \/ /\ ~sock[w]
        /\ ReadFailed(w)
        /\ UNCHANGED clientVars
  /\ UNCHANGED <<coordVars, stopVars, step, cyc, stopEvent, base, requestVars, storeVars>>

(* sock = self._socket; assert sock is not None. The AssertionError is not  *)
(* one a cycle catches, so it ends the thread; an evidence operation turns  *)
(* it into the future's exception.                                          *)
TakeSocket(w) ==
  /\ wpc[w] = "take"
  /\ \/ /\ sock[w]
        /\ Goto(w, "exchange")
        /\ UNCHANGED <<opVars, evidenceVars>>
     \/ /\ ~sock[w] /\ IsEvidence(w)
        /\ AnswerEvidence(w)
     \/ /\ ~sock[w] /\ ~IsEvidence(w)
        /\ Goto(w, "crashed")
        /\ UNCHANGED <<opVars, evidenceVars>>
  /\ UNCHANGED <<coordVars, stopVars, step, cyc, stopEvent, base, clientVars,
                 requestVars, storeVars>>

(* Request and response on the socket taken: the next block, or a failure   *)
(* that closes the client. A socket closed meanwhile can only fail.         *)
Exchange(w) ==
  /\ wpc[w] = "exchange"
  /\ \/ /\ sock[w] /\ step[w] < LastStep(w)
        /\ step' = [step EXCEPT ![w] = @ + 1]
        /\ Goto(w, "connect")
        /\ UNCHANGED <<opVars, evidenceVars, sock>>
     \/ /\ sock[w] /\ step[w] = LastStep(w)
        /\ ReadDone(w)
        /\ UNCHANGED <<sock, step>>
     \/ /\ sock' = [sock EXCEPT ![w] = FALSE]
        /\ ReadFailed(w)
        /\ UNCHANGED step
  /\ UNCHANGED <<coordVars, stopVars, cyc, stopEvent, base, opened, dialed,
                 requestVars, storeVars>>

-----------------------------------------------------------------------------
(* AcquisitionWorker.run, in the worker's thread *)
LoopHead(w) ==
  /\ wpc[w] = "head"
  /\ Goto(w, IF stopEvent[w] THEN "drain" ELSE "wait")
  /\ UNCHANGED <<coordVars, opVars, stopVars, step, cyc, stopEvent, base, clientVars,
                 evidenceVars, requestVars, storeVars>>

(* The deadline has come; it comes even to a thread told to stop when the   *)
(* cycle is late and there is nothing to wait for.                          *)
BeginCycle(w) ==
  /\ wpc[w] = "wait"
  /\ cyc[w] < MaxCycle
  /\ cyc' = [cyc EXCEPT ![w] = @ + 1]
  /\ step' = [step EXCEPT ![w] = 1]
  /\ Goto(w, "connect")
  /\ UNCHANGED <<coordVars, opVars, stopVars, stopEvent, base, clientVars,
                 evidenceVars, requestVars, storeVars>>

(* stop_event.wait(delay) returned True *)
BreakWait(w) ==
  /\ wpc[w] = "wait"
  /\ stopEvent[w]
  /\ Goto(w, "drain")
  /\ UNCHANGED <<coordVars, opVars, stopVars, step, cyc, stopEvent, base, clientVars,
                 evidenceVars, requestVars, storeVars>>

(* publish_sample of _run_worker: the store, then the bus                   *)
StoreSample(w) ==
  /\ wpc[w] = "store"
  /\ LET d == DeviceOf[w] IN
       /\ lastSample' = [lastSample EXCEPT ![d] = cyc[w]]
       /\ connections' = [connections EXCEPT ![d] = Larger(@, base[w] + opened[w])]
  /\ Goto(w, "bus")
  /\ UNCHANGED <<coordVars, opVars, stopVars, step, cyc, stopEvent, base, clientVars,
                 evidenceVars, requestVars, busSample>>

PublishSample(w) ==
  /\ wpc[w] = "bus"
  /\ busSample' = [busSample EXCEPT ![DeviceOf[w]] = cyc[w]]
  /\ Goto(w, "boundary")
  /\ UNCHANGED <<coordVars, opVars, stopVars, step, cyc, stopEvent, base, clientVars,
                 evidenceVars, requestVars, lastSample, connections>>

(* publish_failure of _run_worker: the store counts it, then the bus has    *)
(* the diagnostic event                                                     *)
StoreFailure(w) ==
  /\ wpc[w] = "failStore"
  /\ connections' = [connections EXCEPT
                       ![DeviceOf[w]] = Larger(@, base[w] + opened[w])]
  /\ Goto(w, "failBus")
  /\ UNCHANGED <<coordVars, opVars, stopVars, step, cyc, stopEvent, base, clientVars,
                 evidenceVars, requestVars, lastSample, busSample>>

PublishFailure(w) ==
  /\ wpc[w] = "failBus"
  /\ Goto(w, "boundary")
  /\ UNCHANGED <<coordVars, opVars, stopVars, step, cyc, stopEvent, base, clientVars,
                 evidenceVars, requestVars, storeVars>>

(* Variant: the thread waits at the boundary until there is a request. *)
CycleBoundaryBlocks(w) ==
  /\ wpc[w] = "boundary" /\ mailbox[w] # NoRequest
  /\ mailbox' = [mailbox EXCEPT ![w] = NoRequest]
  /\ reading' = [reading EXCEPT ![w] = mailbox[w]]
  /\ step' = [step EXCEPT ![w] = 1]
  /\ Goto(w, "connect")
  /\ UNCHANGED <<coordVars, opVars, stopVars, cyc, stopEvent, base, clientVars,
                 done, requestVars, storeVars>>

(* Variant: a request taken out of the mailbox is forgotten. *)
CycleBoundaryDrops(w) ==
  /\ wpc[w] = "boundary"
  /\ mailbox' = [mailbox EXCEPT ![w] = NoRequest]
  /\ Goto(w, "head")
  /\ UNCHANGED <<coordVars, opVars, stopVars, step, cyc, stopEvent, base, clientVars,
                 reading, done, requestVars, storeVars>>

(* _run_pending_device_evidence: take the mailbox under its lock            *)
CycleBoundary(w) ==
  /\ wpc[w] = "boundary"
  /\ IF mailbox[w] = NoRequest
     THEN Goto(w, "head") /\ UNCHANGED <<mailbox, reading, step>>
     ELSE /\ mailbox' = [mailbox EXCEPT ![w] = NoRequest]
          /\ reading' = [reading EXCEPT ![w] = mailbox[w]]
          /\ step' = [step EXCEPT ![w] = 1]
          /\ Goto(w, "connect")
  /\ UNCHANGED <<coordVars, opVars, stopVars, cyc, stopEvent, base, clientVars,
                 done, requestVars, storeVars>>

(* _fail_pending_device_evidence, after the loop *)
FailPending(w) ==
  /\ wpc[w] = "drain"
  /\ mailbox' = [mailbox EXCEPT ![w] = NoRequest]
  /\ done' = [r \in Request |-> done[r] \/ mailbox[w] = r]
  /\ Goto(w, "close")
  /\ UNCHANGED <<coordVars, opVars, stopVars, step, cyc, stopEvent, base, clientVars,
                 reading, requestVars, storeVars>>

(* Variant: the client is left as it is when the loop ends. *)
FinalCloseOmitted(w) ==
  /\ wpc[w] = "close"
  /\ Goto(w, "dead")
  /\ UNCHANGED <<coordVars, opVars, stopVars, step, cyc, stopEvent, base, clientVars,
                 evidenceVars, requestVars, storeVars>>

(* client.close(), the last statement of run()                              *)
FinalClose(w) ==
  /\ wpc[w] = "close"
  /\ sock' = [sock EXCEPT ![w] = FALSE]
  /\ Goto(w, "dead")
  /\ UNCHANGED <<coordVars, opVars, stopVars, step, cyc, stopEvent, base, opened,
                 dialed, evidenceVars, requestVars, storeVars>>

-----------------------------------------------------------------------------
(* request_modbus_device_evidence: the worker is looked up under the        *)
(* coordinator's lock, the mailbox is filled after the lock is released.    *)
FetchWorker(r, d) ==
  /\ LoopFree
  /\ rpc[r] = "idle"
  /\ started
  /\ lifecycle[d] = "RUNNING"
  /\ rworker' = [rworker EXCEPT ![r] = workers[d]]
  /\ rpc' = [rpc EXCEPT ![r] = "fetched"]
  /\ UNCHANGED <<coordVars, opVars, stopVars, loopVars, clientVars, evidenceVars,
                 rfuture, storeVars>>

(* worker.request_device_evidence: share the pending future or create one   *)
PostRequest(r) ==
  /\ rpc[r] = "fetched"
  /\ LET w == rworker[r] IN
       IF mailbox[w] = NoRequest
       THEN /\ mailbox' = [mailbox EXCEPT ![w] = r]
            /\ rfuture' = [rfuture EXCEPT ![r] = r]
       ELSE /\ rfuture' = [rfuture EXCEPT ![r] = mailbox[w]]
            /\ UNCHANGED mailbox
  /\ rpc' = [rpc EXCEPT ![r] = "waiting"]
  /\ UNCHANGED <<coordVars, opVars, stopVars, loopVars, clientVars, reading, done,
                 rworker, storeVars>>

-----------------------------------------------------------------------------
(* stop(), called by the shutdown sequence on the event-loop thread. Devices *)
(* share nothing the three loops of stop() touch, so each loop is one step.  *)
StopBegin ==
  /\ LoopFree
  /\ started /\ stopPc = "idle"
  /\ stopping' = TRUE
  /\ stopPc' = "snapshot"
  /\ UNCHANGED <<started, lifecycle, workers, threads, offsets, opVars, snapThreads,
                 snapWorkers, loopVars, clientVars, evidenceVars, requestVars, storeVars>>

StopSnapshot ==
  /\ stopPc = "snapshot"
  /\ snapThreads' = {threads[d] : d \in Device} \ {NoWorker}
  /\ snapWorkers' = {workers[d] : d \in Device} \ {NoWorker}
  /\ stopPc' = "signal"
  /\ UNCHANGED <<coordVars, opVars, loopVars, clientVars, evidenceVars, requestVars,
                 storeVars>>

StopSignal ==
  /\ stopPc = "signal"
  /\ stopEvent' = [w \in Worker |-> stopEvent[w] \/ w \in snapThreads]
  /\ stopPc' = "close"
  /\ UNCHANGED <<coordVars, opVars, snapThreads, snapWorkers, wpc, step, cyc, base,
                 clientVars, evidenceVars, requestVars, storeVars>>

StopClose ==
  /\ stopPc = "close"
  /\ sock' = [w \in Worker |-> sock[w] /\ w \notin snapWorkers]
  /\ stopPc' = "join"
  /\ UNCHANGED <<coordVars, opVars, snapThreads, snapWorkers, loopVars, opened, dialed,
                 evidenceVars, requestVars, storeVars>>

(* Variant: threads that outlive the join timeout are not looked for. *)
StopJoinUnchecked ==
  /\ stopPc = "join"
  /\ stopPc' = "finish"
  /\ UNCHANGED <<coordVars, opVars, snapThreads, snapWorkers, loopVars, clientVars,
                 evidenceVars, requestVars, storeVars>>

(* join every thread with the timeout, which raises for one that was never  *)
(* started, then look for one that is alive                                 *)
StopJoin ==
  /\ stopPc = "join"
  /\ stopPc' = IF \A w \in snapThreads : ~Alive(w) /\ wpc[w] # "unstarted"
               THEN "finish" ELSE "failed"
  /\ UNCHANGED <<coordVars, opVars, snapThreads, snapWorkers, loopVars, clientVars,
                 evidenceVars, requestVars, storeVars>>

StopFinish ==
  /\ stopPc = "finish"
  /\ started' = FALSE
  /\ lifecycle' = [d \in Device |-> IF lifecycle[d] \in {"UNREGISTERED", "ERROR"}
                                    THEN lifecycle[d] ELSE "DISCONNECTED"]
  /\ stopPc' = "done"
  /\ UNCHANGED <<stopping, workers, threads, offsets, opVars, snapThreads, snapWorkers,
                 loopVars, clientVars, evidenceVars, requestVars, storeVars>>

-----------------------------------------------------------------------------
OpStep(d) == \/ DisconnectSetStop(d) \/ DisconnectCloseClient(d)
             \/ DisconnectJoined(d) \/ DisconnectTimeout(d)
             \/ ReconnectUnqualified(d) \/ ReconnectPublishStore(d)
             \/ ReconnectPublishBus(d) \/ ReconnectInstall(d)
             \/ ReconnectStartWorker(d) \/ ReconnectStartFails(d)

WorkerStep(w) == \/ Connect(w) \/ TakeSocket(w) \/ Exchange(w)
                 \/ LoopHead(w) \/ BeginCycle(w) \/ BreakWait(w)
                 \/ StoreSample(w) \/ PublishSample(w)
                 \/ StoreFailure(w) \/ PublishFailure(w)
                 \/ CycleBoundary(w) \/ FailPending(w) \/ FinalClose(w)

StopStep == StopSnapshot \/ StopSignal \/ StopClose \/ StopJoin \/ StopFinish

Next == \/ Start
        \/ \E d \in Device : AddDevice(d) \/ BeginDisconnect(d) \/ BeginReconnect(d)
        \/ \E d \in Device : OpStep(d)
        \/ \E w \in Worker : WorkerStep(w)
        \/ \E r \in Request, d \in Device : FetchWorker(r, d)
        \/ \E r \in Request : PostRequest(r)
        \/ StopBegin \/ StopStep

Spec == Init /\ [][Next]_vars

(* Threads that can take a step do: every socket call has a timeout, join   *)
(* has one too, and the event loop finishes the callback it is in. Nobody   *)
(* is obliged to press a button, so the Begin actions have no fairness.     *)
Fairness == /\ \A w \in Worker : WF_vars(WorkerStep(w))
            /\ \A d \in Device : WF_vars(OpStep(d))
            /\ \A r \in Request : WF_vars(PostRequest(r))
            /\ WF_vars(StopStep)

FairSpec == Spec /\ Fairness

-----------------------------------------------------------------------------
(* Properties *)

CoordTypeOK ==
  /\ started \in BOOLEAN /\ stopping \in BOOLEAN
  /\ lifecycle \in [Device -> LifecycleState]
  /\ workers \in [Device -> Worker \cup {NoWorker}]
  /\ threads \in [Device -> Worker \cup {NoWorker}]
  /\ offsets \in [Device -> Nat]
CallTypeOK ==
  /\ op \in [Device -> OpPc]
  /\ held \in [Device -> Worker \cup {NoWorker}]
  /\ stopPc \in StopPc
  /\ snapThreads \subseteq Worker /\ snapWorkers \subseteq Worker
WorkerTypeOK ==
  /\ wpc \in [Worker -> WorkerPc]
  /\ step \in [Worker -> Nat]
  /\ cyc \in [Worker -> Nat]
  /\ stopEvent \in [Worker -> BOOLEAN]
  /\ base \in [Worker -> Nat]
  /\ sock \in [Worker -> BOOLEAN]
  /\ opened \in [Worker -> Nat]
EvidenceTypeOK ==
  /\ mailbox \in [Worker -> Request \cup {NoRequest}]
  /\ reading \in [Worker -> Request \cup {NoRequest}]
  /\ rpc \in [Request -> {"idle", "fetched", "waiting"}]
  /\ rworker \in [Request -> Worker \cup {NoWorker}]
  /\ rfuture \in [Request -> Request \cup {NoRequest}]
  /\ done \in [Request -> BOOLEAN]
StoreTypeOK ==
  /\ lastSample \in [Device -> Nat]
  /\ connections \in [Device -> Nat]
  /\ busSample \in [Device -> Nat]
  /\ dialed \in [Device -> Nat]

(* Type correctness of the acquisition state.                               *)
TypeOK == CoordTypeOK /\ CallTypeOK /\ WorkerTypeOK /\ EvidenceTypeOK /\ StoreTypeOK

(* A worker owns its device's link while its code may use the client or the *)
(* client's socket is open.                                                 *)
Owns(w) == wpc[w] \in ThreadPc \/ sock[w]

(* "One runtime owner for the Modbus/TCP client" (README): two workers of   *)
(* one device never run, or hold a connection, at the same time, through    *)
(* any mix of disconnects, reconnects, timeouts, crashes and shutdown.      *)
OneOwner == \A v, w \in Worker :
              DeviceOf[v] = DeviceOf[w] /\ Owns(v) /\ Owns(w) => v = w

(* The hand-over promise of disconnect_device: once a device is             *)
(* DISCONNECTED and no command is in progress, nothing of this process has  *)
(* or can open a connection to it. Shutdown is excluded: see                *)
(* ShutdownStopsThreads.                                                    *)
DisconnectedIsQuiet ==
  \A d \in Device :
    lifecycle[d] = "DISCONNECTED" /\ op[d] = "idle" /\ ~stopping
      => \A w \in Worker : DeviceOf[w] = d => ~Owns(w)

(* The connection count behind the reconnect metric, put together from the  *)
(* offset of finished workers and the counter of the running one, never     *)
(* exceeds the connections really opened.                                   *)
ConnectionsNotOvercounted == \A d \in Device : connections[d] <= dialed[d]

(* A successful stop() leaves none of the threads it found, and none of     *)
(* their connections.                                                       *)
StopEndsWhatItFound ==
  stopPc = "done" => \A w \in snapThreads : ~Alive(w) /\ ~sock[w]

(* Every sample put in the store has a cycle id above all samples before    *)
(* it, across threads, disconnects and qualification cycles of reconnects.  *)
SampleStored(d) ==
  \/ op[d] = "publishStore" /\ op'[d] = "publishBus"
  \/ \E w \in Worker : DeviceOf[w] = d /\ wpc[w] = "store" /\ wpc'[w] = "bus"
FreshSample == \A d \in Device : SampleStored(d) => lastSample'[d] > lastSample[d]
FreshSampleIds == [][FreshSample]_vars

(* disconnect_device releases the device: whether join succeeds or times    *)
(* out, the worker it told to stop ends and its connection is closed.       *)
HandoffCompletes ==
  \A d \in Device :
    lifecycle[d] = "DISCONNECTING"
      ~> \A w \in Worker : DeviceOf[w] = d => ~Owns(w)

Answered(r) == rfuture[r] # NoRequest /\ done[rfuture[r]]

(* A request posted to a worker that is in a cycle is answered, at that     *)
(* cycle's boundary or when the loop ends, unless the thread crashes.       *)
CyclePc == ThreadPc \ {"head", "wait", "drain", "close"}

EvidenceServed ==
  \A r \in Request, w \in Worker :
    rpc[r] = "waiting" /\ rworker[r] = w /\ wpc[w] \in CyclePc
      ~> Answered(r) \/ wpc[w] = "crashed"

(* The layer implements DeviceFeed: the owner is the worker that Owns.      *)
FeedOwner == [d \in Device |->
                IF \E w \in Worker : DeviceOf[w] = d /\ Owns(w)
                THEN CHOOSE w \in Worker : DeviceOf[w] = d /\ Owns(w)
                ELSE NoWorker]
Feed == INSTANCE DeviceFeed WITH owner <- FeedOwner, last <- lastSample
ImplementsFeed == Feed!FeedSpec

-----------------------------------------------------------------------------
(* The inductive invariant behind OneOwner, DisconnectedIsQuiet and         *)
(* FreshSampleIds. Current(d) is the only worker that may own the link: the *)
(* candidate while a reconnect is under way, else the registered thread's.  *)
DisconnectPc == {"setStop", "closeClient", "join"}
QualifiedPc  == {"publishStore", "publishBus", "install", "startWorker"}
ReconnectPc  == {"qualify", "unqualified"} \cup QualifiedPc

Current(d) == IF op[d] \in ReconnectPc THEN held[d] ELSE threads[d]

(* What a call in progress holds.                                           *)
CallsHold ==
  /\ \A d \in Device :
       /\ op[d] # "idle" => held[d] \in Worker /\ DeviceOf[held[d]] = d
       /\ op[d] \in DisconnectPc => held[d] = threads[d]
       /\ op[d] = "qualify" => /\ wpc[held[d]] \in ReadPc
                               /\ wpc[held[d]] # "connect" => sock[held[d]]
                               /\ reading[held[d]] = NoRequest
       /\ op[d] = "unqualified" => wpc[held[d]] = "dropped"
       /\ op[d] \in QualifiedPc => wpc[held[d]] = "made"
       /\ op[d] = "startWorker" => held[d] = workers[d]
       /\ op[d] \in ReconnectPc \ {"startWorker"}
            => held[d] # workers[d] /\ held[d] \notin snapWorkers
  /\ \A w \in Worker : wpc[w] = "unborn" => reading[w] = NoRequest

(* What the coordinator's dictionaries hold.                                *)
Registered ==
  /\ \A d \in Device :
       /\ workers[d] # NoWorker => /\ DeviceOf[workers[d]] = d
                                   /\ wpc[workers[d]] # "unborn"
       /\ threads[d] # NoWorker => /\ DeviceOf[threads[d]] = d
                                   /\ wpc[threads[d]] \in ThreadPc \cup EndedPc
       /\ lifecycle[d] \in {"RUNNING", "DISCONNECTING"}
            => threads[d] # NoWorker /\ workers[d] # NoWorker
       /\ lifecycle[d] = "UNREGISTERED"
            => op[d] = "idle" /\ threads[d] = NoWorker /\ workers[d] = NoWorker
  /\ \A r \in Request : rpc[r] = "fetched" => rworker[r] \in Worker

(* When a device has no live thread.                                        *)
Ended(d) == threads[d] # NoWorker => wpc[threads[d]] \in EndedPc
NoThread ==
  \A d \in Device :
    /\ op[d] \in ReconnectPc => Ended(d)
    /\ lifecycle[d] = "DISCONNECTED" /\ ~stopping => Ended(d)

(* Before start() nothing runs, and stop() has its snapshot only once it    *)
(* has begun.                                                               *)
Phases ==
  /\ ~started /\ ~stopping => \A d \in Device :
       /\ op[d] = "idle" /\ threads[d] = NoWorker
       /\ workers[d] # NoWorker => wpc[workers[d]] = "made"
  /\ stopPc = "idle" => snapWorkers = {} /\ ~stopping
  /\ stopPc # "idle" => stopping

(* Who can have an open socket.                                             *)
Sockets ==
  /\ \A w \in Worker : wpc[w] \in EndedPc \cup {"unborn", "dropped"} => ~sock[w]
  /\ \A w \in Worker : Owns(w) => w = Current(DeviceOf[w])

(* How the cycle ids of the current worker relate to the newest sample.     *)
CycleIds ==
  \A d \in Device :
    /\ op[d] \in {"qualify", "publishStore"} => cyc[held[d]] > lastSample[d]
    /\ op[d] \in QualifiedPc => cyc[held[d]] >= lastSample[d]
    /\ threads[d] # NoWorker /\ wpc[threads[d]] \in ThreadPc
         => /\ cyc[threads[d]] >= lastSample[d]
            /\ \/ wpc[threads[d]] = "store"
               \/ wpc[threads[d]] \in ReadPc /\ ~IsEvidence(threads[d])
               => cyc[threads[d]] > lastSample[d]
    /\ ~started /\ workers[d] # NoWorker /\ ~stopping
         => cyc[workers[d]] >= lastSample[d]

IndInv == /\ TypeOK /\ CallsHold /\ Registered /\ NoThread /\ Phases /\ Sockets
          /\ CycleIds

-----------------------------------------------------------------------------
(* Statements of the repository that the code does not keep *)

(* A waiting request is answered, at the latest by "acquisition worker      *)
(* stopped", once its worker is told to stop.                               *)
StoppedWorkerAnswers ==
  \A r \in Request, w \in Worker :
    rpc[r] = "waiting" /\ rworker[r] = w /\ stopEvent[w] ~> Answered(r)

(* After a successful coordinator.stop() no registered thread is alive      *)
(* (test_global_stop_tolerates_one_device_already_disconnected).            *)
ShutdownStopsThreads ==
  stopPc = "done" => \A d \in Device : threads[d] # NoWorker => ~Alive(threads[d])
=============================================================================
