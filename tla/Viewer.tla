------------------------------- MODULE Viewer -------------------------------
(***************************************************************************)
(* run_viewer and shutdown_viewer over DeviceLifecycle: the program starts *)
(* its parts, serves requests, and stops SCOPE, recording, acquisition and *)
(* the server, in this order. The server is the last to stop, so requests  *)
(* and lifecycle commands go on wherever the shutdown awaits; the threads  *)
(* of commands also go on where it blocks the event loop.                  *)
(*                                                                         *)
(* Every stage may raise; the error is kept and the next stage runs.       *)
(***************************************************************************)
EXTENDS DeviceLifecycle

VARIABLES
  program,     \* "loaded", "waiting", "serving", "closing", "joining", "cleanup",
               \* "ended", or "aborted" before the try block
  server,      \* requests are handled
  recorder,    \* the recorder's thread: "on", or "told" to stop
  accepting,   \* _accept_commands of the recording manager
  started,     \* coordinator_started
  stopping,    \* _stop of the coordinator
  toClose,     \* devices whose session close() has not come to
  closing,     \* device whose session close() waits for, or NoDevice
  failed,      \* stages that raised
  old,         \* history: sessions open when close() began and not stopped by it
  racing       \* history: devices with a reconnect under way when stop() began

programVars ==
  <<program, server, recorder, accepting, started, stopping, toClose, closing, failed, old, racing>>
viewerVars == <<vars, programVars>>

ViewerInit ==
  /\ Init /\ acquisition = [d \in Device |-> "DISCONNECTED"]
  /\ program = "loaded" /\ server = FALSE
  /\ recorder = "on" /\ accepting = TRUE
  /\ started = FALSE /\ stopping = FALSE
  /\ toClose = {} /\ closing = NoDevice
  /\ failed = {} /\ old = {} /\ racing = {}

-----------------------------------------------------------------------------
(* run_viewer: the recorder's thread runs already when the frontend directory
   is looked for, and that is before the try block. *)
FrontendMissing ==
  /\ program = "loaded"
  /\ program' = "aborted"
  /\ UNCHANGED <<vars, server, recorder, accepting, started, stopping, toClose, closing, failed, old, racing>>

OpenSessions == {d \in Device : scope[d] \in {"CONNECTING", "LIVE"}}

(* The finally block. close() goes through the sessions the service has now: a
   device that is DISCONNECTED has one that ended, or none. *)
ShutdownBegins ==
  /\ program' = "closing"
  /\ toClose' \in {s \in SUBSET Device : {d \in Device : scope[d] # "DISCONNECTED"} \subseteq s}
  /\ old' = OpenSessions

(* coordinator.start(), which may raise when some threads have started *)
CoordinatorStarts(running) ==
  /\ program = "loaded"
  /\ acquisition' = [d \in Device |-> IF d \in running THEN "RUNNING" ELSE "DISCONNECTED"]
  /\ resumed' = [d \in Device |-> IF d \in running THEN 1 ELSE 0]
  /\ started' = (running = Device)
  /\ IF running = Device THEN program' = "waiting" /\ UNCHANGED <<toClose, old>>
                         ELSE ShutdownBegins
  /\ UNCHANGED <<recording, scope, commands, starts, stopped, server, recorder, accepting, stopping,
                 closing, failed, racing>>

(* wait_for_initial_device_evidence and the start of the server; an interrupt
   or a port that is taken end it. *)
ServerStarts ==
  /\ program = "waiting"
  /\ \/ program' = "serving" /\ server' = TRUE /\ UNCHANGED <<toClose, old>>
     \/ ShutdownBegins /\ UNCHANGED server
  /\ UNCHANGED <<vars, recorder, accepting, started, stopping, closing, failed, racing>>

ShutdownRequested ==
  /\ program = "serving"
  /\ ShutdownBegins
  /\ UNCHANGED <<vars, server, recorder, accepting, started, stopping, closing, failed, racing>>

-----------------------------------------------------------------------------
(* ScopeService.close: stop() awaits the task and the transport of a session
   that samples. Of one that has ended the transport may still be closing, for
   its failure or for another stop(); one that connects has neither. *)
MayAwait(d) ==
  CASE scope[d] = "LIVE" -> {d}
    [] scope[d] = "CONNECTING" -> {NoDevice}
    [] OTHER -> {d, NoDevice}

CloseSession(d) ==
  /\ program = "closing" /\ closing = NoDevice /\ d \in toClose
  /\ scope' = [scope EXCEPT ![d] = "DISCONNECTED"]
  /\ toClose' = toClose \ {d} /\ old' = old \ {d}
  /\ closing' \in MayAwait(d)
  /\ UNCHANGED <<recording, acquisition, commands, starts, stopped, resumed,
                 program, server, recorder, accepting, started, stopping, failed, racing>>

(* Variant: the first session that cannot be closed ends close(). *)
SessionClosedGivesUp ==
  /\ program = "closing" /\ closing # NoDevice
  /\ closing' = NoDevice
  /\ \/ UNCHANGED <<failed, toClose>>
     \/ failed' = failed \cup {"SCOPE"} /\ toClose' = {}
  /\ UNCHANGED <<vars, program, server, recorder, accepting, started, stopping, old, racing>>

SessionClosed ==
  /\ program = "closing" /\ closing # NoDevice
  /\ closing' = NoDevice
  /\ failed' \in {failed, failed \cup {"SCOPE"}}
  /\ UNCHANGED <<vars, program, server, recorder, accepting, started, stopping, toClose, old, racing>>

(* shutdown_runtime up to its await, which blocks the event loop: first
   disable_commands, stop_all, and coordinator.stop() up to its joins *)
Reconnecting(d) == \E c \in Command : Moving(c, d) /\ kind[c] = "reconnect"

StopRecordersAndSignal ==
  /\ program = "closing" /\ closing = NoDevice /\ toClose = {}
  /\ accepting' = FALSE
  /\ recording' = [d \in Device |-> FALSE] /\ recorder' = "told"
  /\ failed' \in {failed, failed \cup {"RECORDERS"}}
  /\ stopping' = started
  /\ racing' = {d \in Device : Reconnecting(d)}
  /\ program' = IF started THEN "joining" ELSE "cleanup"
  /\ UNCHANGED <<scope, acquisition, commands, starts, stopped, resumed, server, started, toClose, closing, old>>

(* The joins: every worker ends, or stop() raises. *)
WorkersJoined ==
  /\ program = "joining"
  /\ program' = "cleanup"
  /\ \/ /\ acquisition' = [d \in Device |-> IF acquisition[d] = "ERROR" THEN "ERROR" ELSE "DISCONNECTED"]
        /\ UNCHANGED failed
     \/ failed' = failed \cup {"WORKERS"} /\ UNCHANGED acquisition
  /\ UNCHANGED <<recording, scope, commands, starts, stopped, resumed,
                 server, recorder, accepting, started, stopping, toClose, closing, old, racing>>

(* runner.cleanup, which waits for the requests that are being handled and in
   the end cancels them *)
ServerStops ==
  /\ program = "cleanup"
  /\ program' = "ended" /\ server' = FALSE
  /\ failed' \in {failed, failed \cup {"SERVER"}}
  /\ UNCHANGED <<vars, recorder, accepting, started, stopping, toClose, closing, old, racing>>

-----------------------------------------------------------------------------
(* Steps of DeviceLifecycle: requests and coroutines run when the event loop
   is free, threads at any time. *)
LoopFree == server /\ (program \in {"serving", "cleanup"} \/ closing # NoDevice)

(* _require_commands_enabled *)
MayRecord == accepting

LoopStep ==
  /\ LoopFree
  /\ \/ \E d \in Device : (MayRecord /\ StartRecording(d)) \/ StartScope(d) \/ ScopeMoves(d)
     \/ \E c \in Command, k \in Kind, d \in Device : Request(c, k, d)
  /\ UNCHANGED programVars

RecorderStep == \E d \in Device : RecordingEnds(d) /\ UNCHANGED programVars

CoroutineStep(c) ==
  /\ LoopFree
  /\ DisconnectBegins(c) \/ ScopeStopped(c) \/ ReconnectBegins(c) \/ Release(c)
  /\ UNCHANGED programVars

(* A reconnect under way when stop() begins may have passed its second check. *)
ThreadStep(c) ==
  /\ \/ ~(stopping /\ kind[c] = "reconnect") /\ (TransitionBegins(c) \/ Conflict(c))
     \/ stopping /\ ReconnectRefused(c)
     \/ Disconnected(c) \/ Reconnected(c)
  /\ UNCHANGED programVars

ShutdownStep ==
  \/ \E d \in Device : CloseSession(d)
  \/ SessionClosed \/ StopRecordersAndSignal \/ WorkersJoined \/ ServerStops

ViewerNext ==
  \/ FrontendMissing
  \/ \E running \in SUBSET Device : CoordinatorStarts(running)
  \/ ServerStarts \/ ShutdownRequested \/ ShutdownStep
  \/ LoopStep \/ RecorderStep
  \/ \E c \in Command : CoroutineStep(c) \/ ThreadStep(c)

(* Nobody need ever stop the program; once it stops, every await and join ends
   within a time limit. The loop runs ready coroutines. *)
ViewerSpec ==
  /\ ViewerInit /\ [][ViewerNext]_viewerVars
  /\ WF_viewerVars(ShutdownStep)
  /\ \A c \in Command : WF_viewerVars(CoroutineStep(c)) /\ WF_viewerVars(ThreadStep(c))

-----------------------------------------------------------------------------
(* When the program has gone through its finally block, whatever stages raised
   and whatever requests came in between: no recording is active and the
   recorder's thread was told to stop; every SCOPE session that close() found
   was stopped, also after one that could not be; and a worker runs only if
   stop() said so or a reconnect was under way (shutdown_viewer,
   shutdown_runtime; tests/integration/test_lifecycle.py:225, 250). *)
EndedIsQuiet ==
  program = "ended" =>
    /\ recorder = "told" /\ \A d \in Device : ~recording[d]
    /\ old = {}
    /\ started => \A d \in Device :
         acquisition[d] = "RUNNING" => d \in racing \/ "WORKERS" \in failed

(* Until stop(), which disconnects every device at once, successful commands
   alternate. *)
AlternateUntilStop == stopping \/ CommandsAlternate

(* Every command answers and releases its lock, unless the program ends first. *)
CommandsReturn == \A c \in Command : at[c] = "lock" ~> at[c] = "done" \/ program = "ended"
=============================================================================
