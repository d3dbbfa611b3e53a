------------------------------ MODULE Browser ------------------------------
(***************************************************************************)
(* The browser page: one selected device, panels that show a device, and   *)
(* requests whose answers arrive in any order. The page is one thread; a   *)
(* step is a callback, or the part of a coroutine between two awaits. An   *)
(* answer may be an error, which the panel shows in place of values.       *)
(*                                                                         *)
(* The Modbus evidence panel is left out: it draws any answer, and nothing *)
(* is said of it. So are the stored CT values, which are drawn over the CT *)
(* panel of their own device only.                                         *)
(***************************************************************************)
EXTENDS Integers, FiniteSets

CONSTANTS
  Device,
  MaxSelections,   \* bound on the selections the user makes
  MaxClicks,       \* bound on the user's other requests
  MaxInflight      \* bound on the requests that wait, for Tick and Click

ASSUME BrowserAssumption == {MaxSelections, MaxClicks, MaxInflight} \subseteq Nat

VARIABLES
  selected,      \* selectedDevice
  inflight,      \* requests without an answer yet
  shown,         \* device each panel shows
  drawnLate,     \* history: the kinds of request of which an answer that was
                 \* no longer the latest has been drawn
  selections, clicks

browserVars == <<selected, inflight, shown, drawnLate, selections, clicks>>

(* control: the disconnect button *)
Panel == {"measurement", "control", "diagnostics", "ct", "scope"}
Buttons == {"ct read", "scope command", "lifecycle"}
Kind == {"device", "backend", "scope", "poll", "lifecycle end"} \cup Buttons

(* A request belongs to a selection, or if it is for the SCOPE panel to a SCOPE
   status request; latest: no newer one has begun. The code looks at that but
   for the last two kinds, of which it compares the devices. *)
Ask(kind, d) == [kind |-> kind, device |-> d, latest |-> TRUE]
ScopeStatus == {"scope", "poll"}
ByDevice == {"ct read", "scope command"}
BySelection == {"device", "backend", "lifecycle", "lifecycle end"} \cup ByDevice
ByStatus == ScopeStatus \cup {"scope command"}

Outdated(kinds, requests) ==
  {IF q.kind \in kinds THEN [q EXCEPT !.latest = FALSE] ELSE q : q \in requests}

BrowserInit ==
  /\ selected \in Device
  /\ inflight = {Ask("device", selected)}
  /\ shown = [p \in Panel |-> selected]
  /\ drawnLate = {}
  /\ selections = 0 /\ clicks = 0

-----------------------------------------------------------------------------
Draw(panels, d) == shown' = [p \in Panel |-> IF p \in panels THEN d ELSE shown[p]]

DrawAnswer(panels, q) ==
  /\ Draw(panels, q.device)
  /\ drawnLate' = drawnLate \cup (IF q.latest \/ panels = {} THEN {} ELSE {q.kind})

DrawNothing == UNCHANGED <<shown, drawnLate>>

(* invalidateScopeStatusResponses *)
Stale(requests) == Outdated(ByStatus, requests)

(* Variant: only the devices are compared. *)
CurrentDevice(q) == q.device = selected

(* selectionResponseIsCurrent *)
Current(q) == q.device = selected /\ q.latest

Done(q) == inflight \ {q}

(* selectDevice up to its await; applySelectedDeviceConfig draws the button. *)
Select(d) ==
  /\ selections < MaxSelections /\ selections' = selections + 1
  /\ selected' = d /\ Draw({"control"}, d)
  /\ inflight' = Outdated(BySelection, inflight) \cup {Ask("device", d)}
  /\ UNCHANGED <<drawnLate, clicks>>

(* selectDevice after its await: the sample, if the answer has one, and then
   the requests for the other panels. The CT panel is prepared. What follows
   the answers to these draws the button again, for the selection it has. *)
DeviceAnswer(q) ==
  /\ q.kind = "device"
  /\ IF Current(q)
     THEN /\ \E drawn \in {{}, {"measurement", "control"}} : DrawAnswer(drawn \cup {"ct"}, q)
          /\ inflight' = Stale(Done(q)) \cup {Ask("backend", q.device), Ask("scope", q.device)}
     ELSE inflight' = Done(q) /\ DrawNothing
  /\ UNCHANGED <<selected, selections, clicks>>

(* Polls are at most one, so the bound is not for them. *)
Room == Cardinality(inflight) < MaxInflight

(* refreshBackendState: every second, and after a lifecycle command *)
Tick ==
  /\ Room
  /\ inflight' = inflight \cup {Ask("backend", selected)}
  /\ UNCHANGED <<selected, shown, drawnLate, selections, clicks>>

BackendAnswer(q) ==
  /\ q.kind = "backend"
  /\ IF Current(q) THEN DrawAnswer({"control", "diagnostics"}, q) ELSE DrawNothing
  /\ inflight' = Done(q)
  /\ UNCHANGED <<selected, selections, clicks>>

(* A sample of device d arrives over the WebSocket. *)
Message(d) ==
  /\ IF d = selected THEN Draw({"measurement", "control"}, d) ELSE UNCHANGED shown
  /\ UNCHANGED <<selected, inflight, drawnLate, selections, clicks>>

(* The CT read button *)
CtAnswer(q) ==
  /\ q.kind = "ct read"
  /\ IF q.device = selected THEN DrawAnswer({"ct"}, q) ELSE DrawNothing
  /\ inflight' = Done(q)
  /\ UNCHANGED <<selected, selections, clicks>>

(* Variant: a poll does not wait for the one before it. *)
PollOverlapping ==
  /\ inflight' = Stale(inflight) \cup {Ask("poll", selected)}
  /\ UNCHANGED <<selected, shown, drawnLate, selections, clicks>>

(* refreshScopeStatus, pollScopeStatus: one poll at a time *)
Poll ==
  /\ \A q \in inflight : q.kind # "poll"
  /\ inflight' = Stale(inflight) \cup {Ask("poll", selected)}
  /\ UNCHANGED <<selected, shown, drawnLate, selections, clicks>>

(* scopeStatusResponseIsCurrent *)
ScopeCurrent(q) == q.device = selected /\ q.latest

ScopeAnswer(q) ==
  /\ q.kind \in ScopeStatus
  /\ IF ScopeCurrent(q) THEN DrawAnswer({"scope"}, q) ELSE DrawNothing
  /\ inflight' = Done(q)
  /\ UNCHANGED <<selected, selections, clicks>>

(* renderControlResponse *)
ScopeCommandAnswer(q) ==
  /\ q.kind = "scope command"
  /\ IF q.device = selected THEN DrawAnswer({"scope"}, q) /\ inflight' \in {Done(q), Stale(Done(q))}
                            ELSE DrawNothing /\ inflight' = Done(q)
  /\ UNCHANGED <<selected, selections, clicks>>

(* executeSelectedDeviceLifecycle: after the command, the state of the device
   that is selected now and the SCOPE status of the one that was; after these
   the button, if the selection is still the same. *)
LifecycleAnswer(q) ==
  /\ q.kind = "lifecycle"
  /\ inflight' = Stale(Done(q)) \cup {Ask("backend", selected), Ask("scope", q.device),
                                      [q EXCEPT !.kind = "lifecycle end"]}
  /\ UNCHANGED <<selected, shown, drawnLate, selections, clicks>>

LifecycleEnd(q) ==
  /\ q.kind = "lifecycle end"
  /\ IF Current(q) THEN DrawAnswer({"control"}, q) ELSE DrawNothing
  /\ inflight' = Done(q)
  /\ UNCHANGED <<selected, selections, clicks>>

(* The user presses a button: the request is for the selected device, and the
   CT panel is prepared for it (selectEvidenceDevice). *)
Click(kind) ==
  /\ Room /\ clicks < MaxClicks /\ clicks' = clicks + 1
  /\ inflight' = inflight \cup {Ask(kind, selected)}
  /\ IF kind = "ct read" THEN Draw({"ct"}, selected) ELSE UNCHANGED shown
  /\ UNCHANGED <<selected, drawnLate, selections>>

(* A phase or signal button of the SCOPE panel, refreshScopeStatus *)
ClickView ==
  /\ Room /\ clicks < MaxClicks /\ clicks' = clicks + 1
  /\ inflight' = Stale(inflight) \cup {Ask("scope", selected)}
  /\ UNCHANGED <<selected, shown, drawnLate, selections>>

Respond(q) ==
  DeviceAnswer(q) \/ BackendAnswer(q) \/ CtAnswer(q) \/ ScopeAnswer(q)
    \/ ScopeCommandAnswer(q) \/ LifecycleAnswer(q) \/ LifecycleEnd(q)

BrowserNext ==
  \/ Tick \/ Poll \/ ClickView
  \/ \E d \in Device : Select(d) \/ Message(d)
  \/ \E kind \in Buttons : Click(kind)
  \/ \E q \in inflight : Respond(q)

(* Timers fire, and the local server answers each kind of request. *)
BrowserFairness ==
  /\ WF_browserVars(Tick) /\ WF_browserVars(Poll)
  /\ \A kind \in Kind : WF_browserVars(\E q \in inflight : q.kind = kind /\ Respond(q))

BrowserSpec == BrowserInit /\ [][BrowserNext]_browserVars /\ BrowserFairness

-----------------------------------------------------------------------------
(* A panel turns to the selected device only, and the button is drawn for the
   selected device always: an answer that was delayed past a selection never
   puts another device's values under the selected name. Of the requests that
   note a generation, an answer that a newer selection of the same device, or a
   newer SCOPE status request, has overtaken draws nothing either
   (tests/browser/test_frontend_async_state.py:144, 166, 194). Overtaken answers
   of CT reads and SCOPE commands are drawn, when their device is selected
   (again): nothing but the device is said of these. *)
LateAnswersIgnored ==
  [][/\ shown'["control"] = selected'
     /\ \A p \in Panel : shown'[p] # shown[p] => shown'[p] = selected'
     /\ drawnLate' \subseteq ByDevice]_browserVars

(* Once the user stops selecting, the panels that are asked for again come to
   show the selected device and stay with it, whatever answers are still on
   their way: no late one turns them back and the invalidation of SCOPE
   answers does not starve them (refreshBackendState, pollScopeStatus). *)
PanelsSettle == <>[](\A p \in {"control", "diagnostics", "ct", "scope"} : shown[p] = selected)
=============================================================================
