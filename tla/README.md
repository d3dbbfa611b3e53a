# TLA+ verification of ARI Emonio Viewer

ARI Emonio Viewer polls Emonio energy meters over Modbus/TCP, keeps the newest
sample of each, records samples to CSV, shows oscilloscope captures over a
WebSocket of the device ("SCOPE"), and serves all of it to a browser. This
directory holds TLA+ modules that model it, TLC configurations that check them
on small instances, and TLAPS proofs of the results that matter most. Paths
below are relative to `src/emonio_viewer/` of the repository unless they start
with `tests/`, `frontend/` or `README.md`.

## 1. The system

The program has three kinds of threads: the asyncio event loop (HTTP, WebSocket,
SCOPE, lifecycle commands), one acquisition thread per running device, and the
recording consumer thread. Executor threads run the blocking part of connect,
disconnect and reconnect. The browser page is a fourth party, on the other side of
HTTP and a WebSocket.

| Component | State | Operations | Talks to |
|---|---|---|---|
| Acquisition (`acquisition/coordinator.py`, `worker.py`) | tables of workers, threads, lifecycle states and connection offsets; per worker a client, a cycle id, a stop event, an evidence mailbox | `start`, `add_device`, `disconnect_device`, `reconnect_device`, `request_modbus_device_evidence`, `stop`; the worker loop | store and bus (publishes), transport (reads), lifecycle service and connector (are called by them) |
| Modbus client (`modbus/transport.py`, `protocol.py`) | one socket, a transaction id, a count of connections | `connect`, read, `close` — `close` also from other threads | worker, coordinator |
| Runtime store (`runtime/store.py`, `acquisition/state.py`) | per device a state machine, the newest sample and its time, counters | `register_device`, `publish_sample`, `publish_failure`, `get_device` (which also applies STALE) | workers write, event loop reads |
| Event bus (`runtime/events.py`) | subscribers, their bounded queues, drop counters | `subscribe`, `unsubscribe`, `publish` | workers and recorder publish; recorder and WebSockets subscribe |
| Recording (`recording/recorder.py`, `session.py`) | active and failed sessions, accept and stop flags; per session the grid of recording points, rows, missed points | `start`, `stop`, `set_interval`, `disable_commands`, `stop_all`; the consumer | bus, store, files |
| SCOPE (`scope/service.py`, `client.py`) | one session per device: state, client, event, task | `start`, `hold`, `live`, `stop`, `close`; the request task | the device's WebSocket |
| Device lifecycle (`lifecycle/service.py`) | one asyncio lock per device | `disconnect`, `reconnect` | recording, SCOPE, coordinator |
| Connector and registry (`acquisition/connector.py`, `config/device_registry.py`) | the live devices, the registry file | `connect`, `remember`, `load`, `merge_runtime_devices` | coordinator, recorder, file system |
| Device evidence (`device_evidence/`) | the newest evidence of each device; per telnet session a byte filter and a text buffer | Modbus evidence (on the worker's thread, over its connection), CT evidence (telnet) | worker, device |
| Server (`server/`), program (`main.py`) | WebSocket subscriptions; stages of shutdown | HTTP handlers, `events` loop, `shutdown` | everything |
| Pure parts (`modbus/protocol.py`, `decoder.py`, `measurement/`, `scope/protocol.py`, `diagnostics/metrics.py`) | none, or a window of latencies | decode, validate, classify, percentile | worker, SCOPE |
| Frontend (`frontend/js/`) | selected device, what each panel shows, requests in flight and their generations | selecting, polling, buttons, drawing answers | HTTP API, WebSocket |

What is hard, and what makes each part correct:

* **Acquisition.** A device must have one owner of its Modbus link although
  commands, timeouts and shutdown act on it from three threads, and a join may
  give up on a thread that goes on. Cycle ids must grow across hand-overs, the
  connection count must survive them, an evidence request must be answered, and
  `stop()` works on a snapshot while commands run.
* **Modbus link.** The device answers late, twice or wrongly on a byte stream that
  measurement and evidence share; an evidence read goes on after a refused answer.
  No answer may become the value of another register.
* **Store.** STALE is applied lazily, by whoever looks; no order of samples,
  failures and looks may produce a refused transition or a lie to a reader.
* **Bus.** `publish` drops the oldest entry without a lock: two publishers and
  the consumer race on every queue. It must not lose, reorder or miscount
  events beyond the drops it counts, and must not wait for a subscriber.
* **Recording.** Samples arrive late, from a queue that drops, possibly for an
  earlier session; every recording point must be a row or a missed point; a
  write error must end a session exactly once and be shown.
* **SCOPE.** Every await lets another coroutine in: overtaken connects, stops
  that race captures, cancellations that get lost. No session may sample after
  its stop, and no transport may stay open.
* **Lifecycle.** Commands of a device queue on a lock while requests that do not
  take it go on; all paths must release it and settle the acquisition state.
* **WebSocket.** A sample waits in a queue of four while store and bus move on; a
  page may be slow, or gone while all devices are silent.
* **Program.** Shutdown goes through four stages, each of which may raise, while the
  server still takes requests.
* **CT telnet.** `recv` cuts prompts, numbers and telnet commands anywhere.
* **Browser.** Answers arrive after the selection has changed, or changed and come
  back; the generations that guard the panels must not starve them.
* **Connector.** The checks before the probe are stale after it; a crash may
  come between the live registration and the file.

`PROJECT.json` lists every hazard with its line and the properties that cover it.

## 2. Modules

| Module | Models | How state and actions map |
|---|---|---|
| `Acquisition` | coordinator, worker, transport, evidence mailbox, the worker's writes to store and bus | `op[d]`/`held[d]` are the program counter and local worker of the command in progress, one action per statement another thread can observe; `wpc[w]` is the worker thread's position; `Connect`, `TakeSocket`, `Exchange` are one Modbus read split where `close()` can cut in; `StopBegin`..`StopFinish` are `stop()` |
| `DeviceFeed` | what Acquisition promises per device | abstract specification: an owner, the newest sample id; refined by `Acquisition` with the mapping `FeedOwner` |
| `AcquisitionProofs` | — | the inductive invariant, the books kept on top of it, the refinement of `DeviceFeed`, and theorems |
| `RuntimeStore` | store, state machine, counters, clock | one action per method (each holds the store's lock); `seen` is the last snapshot a reader got |
| `EventBus` | the bus | a publisher is a thread: a worker, the thread that adds or reconnects a device, the recorder; `pc[p]` walks through `put_nowait`, `get_nowait`, `_record_dropped_delivery` for each subscriber; `owed`, `taken`, `lost` are history |
| `EventBusProofs` | — | order, completeness and the count of drops as one inductive invariant, and theorems |
| `Recording` | manager, sessions, consumer, clock | commands and handled events are one step each because they hold the manager's lock; any write may raise; `base` and `before` are history that names the current grid |
| `RecordingProofs` | — | the arithmetic of the grid, the inductive invariant, and theorems |
| `ScopeService` | service and client outcomes | a `Runtime` is one `_Runtime`; `starter`, `sampler`, `caller` are the positions of `start`, `_run` and `stop`; a step runs from one await to the next |
| `ScopeServiceProofs` | — | what a starting, sampling or stopping session owns, and theorems |
| `MeasurementStream` | the WebSocket handler and the workers' publications over `RuntimeStore`, which it extends | `unpublished[d]` is the event the store has and the bus has not; `handler` walks through the loop of `websocket_measurements`; a page connects, vanishes and connects again |
| `MeasurementStreamProofs` | — | the store's inductive invariant and theorems; that the stream implements the store's specification, and theorems |
| `ModbusLink` | one connection: four block reads of a cycle, six probes of an evidence read, the frames on the wire | `owed` are the requests the device may still answer, `wire` the frames not yet received; an answer carries the number of its request, so that a mixed-up one shows; a connection may break with frames still on it |
| `CtTelnet` | a telnet session of the CT reader | bytes are symbols; `Recv` takes some of what is `incoming` (`received`), cut anywhere; a step of `Consume` is `_consume` on one byte, or on a command whose option is in the same chunk |
| `DeviceLifecycle` | lifecycle service over the visible states of recording, SCOPE and acquisition | `queue[d]` is the asyncio lock (holder first); requests outside the lock are actions of their own |
| `Viewer` | `run_viewer` and `shutdown_viewer` over `DeviceLifecycle`, which it extends | `program` is the stage; requests and coroutines run where the event loop is free (`LoopFree`), threads always; `toClose`, `closing` are the loop of `ScopeService.close` |
| `ViewerProofs` | — | the lock discipline of `DeviceLifecycle`, what each shutdown stage leaves to the next, and theorems |
| `DeviceConnector` | connector, registry file, process crash and restart | `connect` up to its await, then the part without one; `remember` as conflict check, temporary file, `os.replace` |
| `DeviceConnectorProofs` | — | why an id chosen before the await is still right after it, what the file brings back, and theorems |
| `Browser` | the page: selection, panels, requests in flight | one action per callback or part of a coroutine between awaits; `latest` is a request's generation compared with the page's |
| `EdgesProofs` | — | the proofs about `ModbusLink`, `Browser` and `CtTelnet`, one part after the other |

`MCx` instantiates module `x` for TLC; `MCEdges` holds the four parts that talk to
the outside (`DeviceConnector`, `ModbusLink`, `CtTelnet`, `Browser`), which share no
state: in each of its behaviours one part moves and the others rest. Operators commented "Variant" are
mutations of the code that the project's mutants put in the place of a
definition; no specification uses them.

How they compose. `MeasurementStream` composes the worker's publication, the store
and the bus with the WebSocket handler; its queue is one step of the bus, which
`EventBus` refines into the unlocked steps, and `Recording` uses the same step.
`Viewer` composes the program's start and shutdown with `DeviceLifecycle`, and that
drives summaries of `Recording`, `ScopeService` and `Acquisition`: its acquisition
states are the `lifecycle` states of `Acquisition`, and that a command's coordinator
part is alone on its device is what `TransitOwned` establishes and `Acquisition`
relies on (`op[d]` has one command at a time). `ModbusLink` is what `Exchange` in
`Acquisition` does on the wire, with the evidence probes that `Acquisition` places
at the boundary of two cycles.

Abstractions worth knowing: a sample is its cycle id (or time), since no property
depends on its values; durations are ticks; devices share nothing except the loops
of `start` and `stop`, and each loop of `stop` is one step; the event loop does not
yield inside `coordinator.stop()` (`LoopFree`), as in the code; a file write either
happens or raises.

## 3. What TLC checks

| Run | Instance | What it shows |
|---|---|---|
| `acq_safety` | 1 device, 3 workers, 1 request, 1 block, 2 probes, cycles ≤ 2 | `OneOwner`, `DisconnectedIsQuiet`, `ConnectionsNotOvercounted`, `StopEndsWhatItFound`, `FreshSampleIds`, and `ImplementsFeed` (refinement of `DeviceFeed`) |
| `acq_live` | 1 device, 2 workers, 1 request | `HandoffCompletes`: whatever `join` says, the worker that was told to stop lets go of the device; `EvidenceServed`: a request posted in a cycle is answered unless the thread crashes |
| `acq_shutdown` (violation) | the same | `ShutdownStopsThreads`, the assertion of a test, fails: see section 6 |
| `acq_answers` (violation) | the same | `StoppedWorkerAnswers` fails: see section 6 |
| `stream` | 1 device, 4 ticks, poll 1 (threshold 3), 3 cycles, queue of 2, 2 connections of a page | `SnapshotHonest`, `SilentMeansOld`, `NeverRejects` of the store with a handler among its readers; `SnapshotCoversSample`, `NewestArrives`, `GoneIsReleased` |
| `bus` | a worker and the recorder, each speaking of a device of its own, with 2 events each; 2 subscribers, queue of 2 | `OrderKept`, `NothingVanishes`, `DropsCounted`, `PublishCompletes` |
| `rec_safety` | 1 device, 2 sessions, ticks 0–3, intervals 1 and 2, queue of 2, second of 2 ticks | `ActiveIsOpen`, `PointsAccounted`, `RowsInOrder` |
| `scope` | 2 devices, 2 sessions, 2 stops and `close()`; cancellations may be lost | `OneSession`, `LiveCanSample`, `RequestsOnlyLive`, `EndedStaysEnded`, `EndedIsClosed`, `StopReturns` |
| `viewer` | 2 devices, 2 commands, 2 starts of a recording or SCOPE session, every stage may fail | `TransitOwned`, `AlternateUntilStop`, `EndedIsQuiet`, `CommandsReturn` |
| `edges` | connector: 3 connects of 4 targets, 3 initial registry files, 1 crash; link: 3 cycles, 2 faults, ids modulo 8; telnet: 3 keys, 2 negotiations; page: 2 devices, 2 selections, 1 click, 3 requests in flight | `OneDevicePerHost`, `FileLoads`, `AnsweredSurvives`; `RightAnswer`, `OneFaultOneCycle`; `OwnInteger`, `OptionsRefused`; `LateAnswersIgnored`, `PanelsSettle` |
| `connect_remember` (violation) | 1 connect | `LiveIsRemembered` fails: see section 6 |

Type correctness is proved for every component (the type invariant of a component
stands in its module or, where it serves the proof only, in the proof module), so no
run repeats it. Deadlock is not an error in these runs: the instances
are bounded and the program may come to rest (all commands made, the worker
stopped, the clock at its bound).

### Why the bounds are enough

* Acquisition: a link is disputed by an old worker (timed out or ending) and a
  candidate; the third worker allows a failed qualification before a good one,
  and a second hand-over, so that the connection offset is carried twice. Two
  cycle ids let a cycle fail, a qualification reuse its number, and the next one
  follow. One block has all three steps of a read; the two evidence probes
  exercise the step from one read to the next on an open connection. Devices are
  independent, and the theorems hold for any number.
* Stream: the threshold is three ticks, so in four ticks a device goes live,
  silent, stale, and offline or live again; three cycles fill the queue of two and
  lose an event, of either kind. Longer histories are in the theorems about the
  store, which hold for any clock. Two connections let a page come back to events
  it has not seen.
* Bus: a drop needs a full queue and the races need two publishers and a
  consumer on it; the second subscriber makes a publisher go on with its list, and
  the second device tells whose drop was counted.
* Recording: two sessions are needed for a stale event to meet a session that
  did not see it published; four ticks and two intervals give skipped points,
  interval changes and two sessions within and across a second. A queue of two
  drops and still holds an event older than a session.
* SCOPE: an overtaken start needs a second one on its device; two stops and
  `close()` meet on one session; the second device makes `close()` iterate.
* Viewer: two commands of one device, or of two, meet in every pair of places and
  every stage of the shutdown; longer alternations are in the theorems. Two starts
  give a session that `close()` found and one that came later, and a recording.
* Link: two faults are a spoiled or doubled answer and what follows from it; three
  cycles show that a fault has no effect beyond its own. Transaction ids come back
  after 8 instead of 65 536 requests, which is longer than the run of reads that
  go on after a refused answer (`LinkAssumption`).
* Telnet: three keys, because the buffer is cleared between keys and the first and
  the last are special; two negotiations in one session may fall into one response.
* Browser: two selections go away and come back; with the three requests that the
  bound admits besides polls, each kind of answer can be overtaken by another.
* Connector: the fixed device has id `a`, so target `a` becomes `a-2`, which is
  also a target's own name; two spellings of a host, an address that is the
  fixed device's, and registry files with and without a conflicting entry cover
  every branch of `remember`, `merge` and `_unique_id`.

The instances of `acq_safety` and `rec_safety` use the symmetry of workers and
sessions; no run with a liveness property does.

### Fairness

`Acquisition`: weak fairness of each worker thread, each command in progress, a
looked-up evidence request and `stop()`. The code justifies it: connect, send and
receive have socket timeouts, `join` has one, a stop event interrupts the wait,
and the event loop finishes its callback. `EventBus`: a publisher's next queue
operation (none of them blocks). `ScopeService`: every coroutine that can run
does; the factory, a capture and a close have time limits in `scope/client.py`.
`MeasurementStream`: the
handler's loop and a worker's call of `publish`; a send that blocks ends because
the heartbeat closes a page that does not answer. `Viewer`: the steps of a command
where the event loop is free, the threads of the coordinator's commands (whose joins
and sockets have time limits), and the shutdown once it has begun. `Browser`: its
timers, and for each kind of request that the local server answers one of those that
wait: no answer in particular is owed. Nowhere is a user owed to press a button, a
device to answer, or a subscriber to take an event; `PanelsSettle` speaks of a user
who stops selecting.

## 4. What is proved

Every safety invariant, every action property and the refinement that the passing
runs check are proved, each as a theorem about the component's specification.
TLAPS checks them for every value of the constants: any set of devices, workers,
requests and commands; any number of blocks, probes and cycles; any poll interval,
clock bound and queue size; any publishers, subscribers and pages; any recording
sessions and intervals; any starts and stops of SCOPE; any targets, registry files
and crashes; any faults of a Modbus device; any selections and clicks; any number of
telnet negotiations, cut anywhere. Assumptions:

| Assumption | What it says, and why the code justifies it |
|---|---|
| `AcquisitionAssumption` | a worker object belongs to one device; the null values are none of the objects |
| `StoreAssumption` | poll intervals are positive (checked by `config/loader.py`) |
| `StreamAssumption` | a subscriber's queue holds at least one event |
| `BusAssumption` | finitely many threads, each speaking of some devices; queues hold at least one event |
| `RecordingAssumption` | intervals, the poll interval and a second are positive; `NoSession` is no session |
| `ScopeAssumption` | `close()` is no call of `stop`; `NoRuntime` is no runtime |
| `LifecycleAssumption` | `NoDevice` is no device |
| `ConnectorAssumption` | what `load_config` and `load()` accept: unique ids in the configuration, unique ids and hosts in the registry file; and `parse_target` gives targets of one host the same name |
| `LinkAssumption` | the requests the program makes are valid ones, and there are more transaction ids (65 536) than an evidence read has probes, and one |
| `BrowserAssumption`, `TelnetAssumption` | bounds are numbers; a session reads one to five keys (the code reads five) |

| Theorem | Property |
|---|---|
| `AcquisitionProofs!TypeCorrect` | `TypeOK` |
| `AcquisitionProofs!OneOwnerAlways` | `OneOwner` |
| `AcquisitionProofs!QuietWhenDisconnected` | `DisconnectedIsQuiet` |
| `AcquisitionProofs!SampleIdsGrow` | `FreshSampleIds` |
| `AcquisitionProofs!NeverOvercounted` | `ConnectionsNotOvercounted` |
| `AcquisitionProofs!StopEndsThreads` | `StopEndsWhatItFound` |
| `AcquisitionProofs!FeedImplemented` | `ImplementsFeed`: `Acquisition` implements `DeviceFeed` |
| `MeasurementStreamProofs!StoreTypeCorrect` | `TypeOK` of `RuntimeStore` |
| `MeasurementStreamProofs!SnapshotsAreHonest` | `SnapshotHonest` |
| `MeasurementStreamProofs!StoreNeverRejects` | `NeverRejects` |
| `MeasurementStreamProofs!StreamImplementsStore` | `StreamSpec => Spec` of `RuntimeStore` |
| `MeasurementStreamProofs!SnapshotsCover` | `SnapshotCoversSample` |
| `MeasurementStreamProofs!ReadersToldRight` | `SnapshotHonest`, `SilentMeansOld`, `NeverRejects` under `StreamSpec` |
| `EventBusProofs!OrderAlwaysKept` | `OrderKept` |
| `EventBusProofs!NothingEverVanishes` | `NothingVanishes` |
| `EventBusProofs!DropsAlwaysCounted` | `DropsCounted` |
| `RecordingProofs!ActiveAlwaysOpen` | `ActiveIsOpen` |
| `RecordingProofs!PointsAlwaysAccounted` | `PointsAccounted` |
| `RecordingProofs!RowsAlwaysInOrder` | `RowsInOrder` |
| `ScopeServiceProofs!AlwaysOneSession` | `OneSession` |
| `ScopeServiceProofs!LiveAlwaysCanSample` | `LiveCanSample` |
| `ScopeServiceProofs!EndedAlwaysStaysEnded` | `EndedStaysEnded` |
| `ScopeServiceProofs!RequestsAlwaysOnlyLive` | `RequestsOnlyLive` |
| `ViewerProofs!TransitIsOwned`, `SuccessesAlternate` | `TransitOwned`, `CommandsAlternate` under `DeviceLifecycle!Spec` |
| `ViewerProofs!OwnedThroughout` | `TransitOwned` under `ViewerSpec` |
| `ViewerProofs!AlternatesThroughout` | `AlternateUntilStop` |
| `ViewerProofs!ShutdownIsComplete` | `EndedIsQuiet` |
| `DeviceConnectorProofs!AlwaysOneDevicePerHost` | `OneDevicePerHost` |
| `DeviceConnectorProofs!FileAlwaysLoads` | `FileLoads` |
| `DeviceConnectorProofs!AnsweredAlwaysSurvives` | `AnsweredSurvives` |
| `EdgesProofs!ValuesAreAnswers` | `RightAnswer` |
| `EdgesProofs!FaultsArePaidOnce` | `OneFaultOneCycle` |
| `EdgesProofs!LateAnswersAlwaysIgnored` | `LateAnswersIgnored` |
| `EdgesProofs!EveryIntegerIsOwn` | `OwnInteger` |
| `EdgesProofs!EveryOptionIsRefused` | `OptionsRefused` |

**Acquisition.** `OneOwner` is not inductive: nothing in it says why a reconnect
finds no living thread. `IndInv` adds what the code keeps. `Current(d)` is the
candidate while a reconnect is under way and the registered thread's worker
otherwise; `Sockets` says that only `Current(d)` may own the link, which gives
`OneOwner` at once. That a reconnect may replace `Current(d)` needs `NoThread`
(a DISCONNECTED device, and one in reconnect, has no live thread), which needs
`Registered` (what the tables hold), `CallsHold` (which worker a command holds
and where it stands) and `Phases` (nothing runs before `start`; `stop` has
signalled only after it began). `CycleIds` relates the current worker's cycle id
to the newest sample and gives `FreshSampleIds`. `AcquisitionProofs` has one lemma
per conjunct with one step per action, then `IndInv` as an invariant, and the
theorems from it. The case that makes the proof worth having is
`DisconnectTimeout`: the device goes to ERROR, never to DISCONNECTED, and ERROR
admits no reconnect, so the thread that outlives its join never meets another
worker.

`Books` is a second layer on `IndInv`. `Counted` follows `_connection_offsets`: it is
the base of the worker that runs or comes next until that worker's own connections
are added, which is why a hand-over counts none of them twice. `Snapped` says that a
thread that `stop()` found is no candidate of a reconnect and has ended once it is
joined: later workers are others. `Enrolled` gives a device that was never added
neither connections nor samples.

**Device feed.** With the mapping `FeedOwner`, three facts about a step make it a
step of `DeviceFeed` or a stutter: the link passes between workers only through a
moment without an owner (`HandOver`), whoever changes the newest sample owns the
link before and after or adds the device with its first sample (`SampledByOwner`),
and the sample ids grow. The first needs `Sockets`, the second `Enrolled`.

**Store.** The properties are inductive together with `FirstStates`: no machine
is published in STARTING, and a device still CONNECTING has published no sample.
The honesty of snapshots does not rest on the reader alone: a worker that fails
for ever leaves the state ONLINE, and only the next look turns it STALE before it
answers.

**Stream.** A snapshot covers its sample because the worker publishes to the store
first. `StreamInv` carries that fact along the way of an event, from the worker
through the queue into the handler's hand (`Covered`), and it survives because no
step makes the store's newest sample older (`SamplesGrow`). That every step is a
step of the store (`StreamStepIsStoreStep`) needs the invariant too: the handler
asks only for devices that are in an event.

**Bus.** The three properties are one invariant with `Calls` (a publisher that is not
idle puts its newest event, and one that has dropped an event knows which),
`ListedOnce` (no subscriber is listed twice, so none gets an event twice) and
`NewestLast` (what a subscriber was owed is older than its publisher's newest event,
or is that event). `NewestLast` is what makes an event that is put the last of its
publisher although others write the same queue; `NothingVanishes` makes a dropped
event a new element of `lost`, so that the counters are a cardinality.

**Recording.** Between two steps the recording points of a session are those of the
grid from `base` (`PointsSettled`): that is inductive once the arithmetic is stated
(`SkippedPoints`: the points that a late sample jumps over; `PointsAdd`: going that
many intervals on stays on the grid). `RowsInOrder` needs `RowsBeforeNext`, every row
is earlier than the next point, and a session that no start has used is empty
(`Fresh`). `PointsHaveCome`, the other half of `PointsAccounted`, says that
none is settled before its time, also in sessions that ended: a `stop()` notes at
most one point, which `NotedHasCome` puts on the grid and not after the clock, and
may raise before or after it. `set_interval`
begins a new grid; points of the old one that were still pending are dropped, in the
code as in the model, and neither half counts them.

**SCOPE.** `OneSession` and `LiveCanSample` hold together with what a session owns
before its connect has ended (`Starts`: no client, task or transport), that only an
ended session's task ends or is cancelled (`Tasks`), and that a `stop()` that waits has
ended a session that had connected (`Stops`). The action properties follow from it:
what a coroutine does after an await, it does to a session that another one may
have ended meanwhile, and each such step looks at the state first.

**Connector.** A call chooses its id before the probe and uses it after, and the
checks of `connect` are stale by then. `ChosenId` keeps what remains true: the ids
before the chosen one are taken still. So two calls that wait for one host have the
same id, or the id of one is taken (`SameHost`), and a device that came to live
meanwhile has made the id of a call for its host unusable (`HostTaken`); the
coordinator's check of ids is therefore enough for `OneDevicePerHost`. `Written` says
that what the file brings back is live and what was answered is among it, and that
survives a crash at any step because `os.replace` is one.

**Lifecycle.** `TransitOwned` rests on the lock's queue. `LockOrder` says that a
command that was made is in its device's queue and is the first of it once it is
past the lock; so two commands of a device that are past the lock are one
(`OneHolder`). `TransitKnown` adds that a device in transit has a command that moves
it, `MoversMatch` that a mover finds the state it has set, and with it an invariant
of the two counts gives `CommandsAlternate`.

**Viewer.** The lifecycle's steps are taken over as they are
(`ViewerTakesLifecycleSteps`), with what the program guards them by: no new
recording without `accepting`, no reconnect that begins after `stopping`. `Stages`
is what each stage leaves to the next, `LateWorkers` who may still run a worker.
`MoversMatch` and the counts end where `stop()` begins, since `stop()` sets the
acquisition states under the commands' feet; `LockOrder` and `TransitKnown` do not.

**Modbus link.** Nothing in the protocol but 16 bits ties an answer to its request,
so the proof counts. `AllRecent` bounds how many requests ago the oldest answer
under way was asked for: none at the end of a cycle, because a stale one would have
been met first (`InOrder`: the device answers in order) and closed the connection;
at most the number of probes in an evidence read, which reads on. So ids that have
not come round tell the requests apart (`SameIdSameRequest`). For the second
theorem, `Clean` says that nothing is under way but one good answer to the request
that waits; `PaidFor`, the invariant, charges one fault for a link that is not clean
or for the cycle it cost, never for both.

**Page.** The panels that compare generations are right by their guard. Answers to a
CT read and to a SCOPE command are compared by device only (`ct-evidence.js:101`,
`scope.js:522`); `Browser` outdates these requests like the others, and
`LateAnswersIgnored` claims for them no more than the code does: they never turn a
panel to another device, but an answer that a newer selection of its own device or a
newer SCOPE status request has overtaken may be drawn (section 6). The invariant
behind the theorem, `BrowserInv`, says that requests and panels name devices, that the
button is always drawn for the selection, and that overtaken answers were drawn of
these two kinds only.

**Telnet.** What `_consume` makes of bytes it has not taken is a recursion, which the
proof replaces by its trace: `Run` states the filter's state, the text and the
replies still to come as functions of the position in `incoming`. `TelnetInv` says
that the text taken, followed by the text to come, is the response that is awaited
(for a key perhaps after the prompt that was left of the one before, `LeftOver`), and
that the replies sent, followed by those to come, are what the device's offers call
for. A step of the filter takes the first element of the run (`RunFirst`); what the
device sends appends to it, with an offer at any place of the text. The integer is
right because it stands on the only line of digits a response has (`Line`,
`OnlyLine`), and its end has been awaited.

Model-checked only is liveness, because fairness and ENABLED are beyond the prover:
`HandoffCompletes`, `EvidenceServed`, `NewestArrives`, `GoneIsReleased`,
`PublishCompletes`, `EndedIsClosed`, `StopReturns`, `CommandsReturn`, `PanelsSettle`.

## 5. Not modelled

* `measurement/` and the latency percentiles: arithmetic on the floats of one sample
  that is reported and never acted upon (with the default tolerances no warning is
  raised). The store's model admits both qualities. The words of a register and
  their float, SCOPE frames and `build_capture` likewise stay out: `ModbusLink` and
  `ScopeService` have the outcomes of their checks.
* Text: CSV, JSON, TOML and the bodies of requests and answers; the validation of
  fields in `config/loader.py`; the handlers of `server/api.py` beyond the command
  each forwards.
* The two caches of `device_evidence/service.py`: each keeps the newest evidence of
  a device, and the answers of two overlapping reads arrive in any order.
* In the browser, the recording and Modbus evidence panels (the latter draws any
  answer, see section 6), the history and all geometry. Release tools have no state.
* Within modelled parts: log text, metrics that only count, the SCOPE rate limiter's
  arithmetic (a capture is sent at once or after a sleep), `HOLD` in
  `DeviceLifecycle` (taken with `LIVE`).
* An evidence request whose future was cancelled (`acquisition/worker.py:96`, `112`):
  its HTTP handler is cancelled only when the server is cleaned up, after the
  coordinator has stopped. One request is in flight in the instances, so two callers
  that share a pending future are not exercised. A thread that does not start is
  modelled for a reconnect, not for `start()` and `add_device`. The stop check of
  `add_device` is in `Acquisition`, not in `DeviceConnector`, which ends with the
  process.

## 6. Where the code and its statements differ

1. `acq_answers`: `request_modbus_device_evidence` looks the worker up under the
   lock and posts to its mailbox after it. A worker that ends in between never
   answers, and `ModbusDeviceEvidenceService.read` waits without a time limit. The
   same happens when the thread dies of the `AssertionError` of
   `modbus/transport.py:51`, which `close()` from another thread can trigger
   between `connect()` and the read of `_socket`.
2. `acq_shutdown`: `tests/integration/test_device_acquisition_lifecycle.py:106`
   asserts that no registered thread lives after `stop()`. A reconnect that passed
   its stop check starts its worker after `stop()` took its snapshot.
3. `connect_remember`: a connect whose `remember` raises leaves a live device that
   the registry does not have: a second connect answers EXISTING, and the next
   start has lost it.

Smaller ones follow from the models without a run of their own, because no line of
the repository speaks of them, or speaks of them exactly enough:

* A recording started while `disconnect` awaits `scope.stop` is still active when the
  worker is stopped (`README.md:6` states the order recording, SCOPE, acquisition);
  a SCOPE session started after `close()` has passed outlives the shutdown.
* `consider_sample` notes every recording point that passed without a sample
  (`while`, `recording/recorder.py:95`), `SessionRecorder.stop` at most one (`if`,
  `:265`): after a long gap `record_points_missed` is short of the rest.
* A CT read's answer (`ct-evidence.js:101`) is drawn although the selection went away
  and came back since the read began, and a SCOPE command's answer (`scope.js:522`)
  also past a SCOPE status request that is newer.
* A reconnect whose thread does not start (`acquisition/coordinator.py:338`) leaves it
  in the thread table; the join in `stop()` then raises for a thread that was never
  started, and the threads after it in the table are not waited for.
* Of two overlapping connects of a target the second probes it while the first one's
  worker polls it, and then fails in `register_device` or `add_device`.
* On Python 3.10 and 3.11, where a cancellation can be lost, a session stopped during
  a capture can end as ERROR instead of DISCONNECTED (`EndedStaysEnded` states what
  remains true).
* When the frontend directory is missing (`main.py:178`) the recorder's thread is
  already running and nobody ends it (`FrontendMissing` in `Viewer`).
* The Modbus evidence panel (`frontend/js/modbus-evidence.js:176`, `195`) draws an
  answer without looking at the selection, unlike the panels of `Browser`.

## 7. Plan

1. *Done*: `Acquisition`, `DeviceFeed`, `RuntimeStore`, `EventBus`, `Recording`,
   `ScopeService`, `DeviceLifecycle`, `DeviceConnector`; then `MeasurementStream`,
   `Viewer`, `ModbusLink`, `CtTelnet`, `Browser`; and the proofs of section 4, which
   reach every safety property the runs check.
2. That the parts composed in `Viewer` are abstractions of the modules they
   summarise: the acquisition states of `DeviceLifecycle` as a refinement of
   `Acquisition`, and the queue of `MeasurementStream` and `Recording` as one of
   `EventBus`.
3. `Conversions`: register decoding with its widths, quadrants, percentiles and the
   capture builder, as operators checked against reference definitions over bounded
   inputs.

The number of runs is kept small: a module's safety and liveness share a run where
TLC affords it, and parts without common state share one.
