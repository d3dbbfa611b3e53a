--------------------------- MODULE DeviceConnector ---------------------------
(***************************************************************************)
(* DeviceConnector and RememberedDeviceRegistry: connect() looks for the   *)
(* target among the live devices, qualifies it in a thread, and then, on   *)
(* the event loop without an await, registers the device with the recorder *)
(* and the coordinator and writes it to the registry file. The process may *)
(* crash anywhere; a restart merges the registry file into the fixed       *)
(* devices of the TOML configuration.                                      *)
(*                                                                         *)
(* A device is [id, name, host]: its other fields are the connector's      *)
(* defaults.                                                               *)
(***************************************************************************)
EXTENDS Integers, FiniteSets

CONSTANTS
  Fixed,           \* devices of the configuration file
  Remembered,      \* contents the registry file may have at first
  Target,          \* what parse_target returns: [name, host]
  Attempt,         \* calls of connect(), each made once
  Suffixed(_, _),  \* f"{base}-{index}"
  NoDevice,
  MaxCrashes       \* bound on crashes

(* What load() accepts and load_config accepts *)
Loadable(s) == \A x, y \in s : x.id = y.id \/ x.host = y.host => x = y

ASSUME ConnectorAssumption ==
  /\ \A x, y \in Fixed : x.id = y.id => x = y
  /\ \A s \in Remembered : Loadable(s) /\ IsFiniteSet(s)
  /\ IsFiniteSet(Fixed)
  /\ \A t, u \in Target : t.host = u.host => t.name = u.name
  /\ MaxCrashes \in Nat

VARIABLES
  up,        \* the process runs
  live,      \* devices of the coordinator, each with its worker
  recorder,  \* devices of the recording manager
  file,      \* the devices in the registry file
  torn,      \* it does not parse
  at,        \* where a connect() is
  target, device,
  answer,    \* what it answered
  crashes

process == <<up, live, recorder, crashes>>
calls == <<at, target, device, answer>>
registry == <<file, torn>>
vars == <<process, registry, calls>>

(* merge_runtime_devices: the fixed devices win. *)
Merge(remembered) ==
  Fixed \cup {r \in remembered : \A f \in Fixed : r.id # f.id /\ r.host # f.host}

Init ==
  /\ up = TRUE
  /\ file \in Remembered /\ torn = FALSE
  /\ live = Merge(file) /\ recorder = live
  /\ at = [c \in Attempt |-> "idle"]
  /\ target = [c \in Attempt |-> NoDevice]
  /\ device = [c \in Attempt |-> NoDevice]
  /\ answer = [c \in Attempt |-> "none"]
  /\ crashes = 0

-----------------------------------------------------------------------------
(* The event loop is not inside the part of a connect() that has no await. *)
LoopFree == up /\ \A c \in Attempt : at[c] \notin {"remember", "write"}

Existing(t) == {d \in live : d.host = t.host \/ d.name = t.name}

Ids == {d.id : d \in live}

Candidate(base, index) == IF index = 1 THEN base ELSE Suffixed(base, index)

(* _unique_id ends with the first candidate that is free. *)
UniqueId(base, index) ==
  /\ Candidate(base, index) \notin Ids
  /\ \A j \in 1 .. index - 1 : Candidate(base, j) \in Ids

Indices == 1 .. Cardinality(live) + 1

NewDevice(t, index) == [id |-> Candidate(t.name, index), name |-> t.name, host |-> t.host]

Answer(c, a) ==
  /\ answer' = [answer EXCEPT ![c] = a]
  /\ at' = [at EXCEPT ![c] = "done"]

(* connect() to its await *)
Connect(c, t) ==
  /\ LoopFree /\ at[c] = "idle"
  /\ target' = [target EXCEPT ![c] = t]
  /\ \/ Existing(t) # {} /\ Answer(c, "existing") /\ UNCHANGED device
     \/ /\ Existing(t) = {}
        /\ \E index \in Indices :
             UniqueId(t.name, index) /\ device' = [device EXCEPT ![c] = NewDevice(t, index)]
        /\ at' = [at EXCEPT ![c] = "probe"]
        /\ UNCHANGED answer
  /\ UNCHANGED <<process, registry>>

(* run_cycle raises in the thread *)
Unqualified(c) ==
  /\ LoopFree /\ at[c] = "probe"
  /\ Answer(c, "unavailable")
  /\ UNCHANGED <<process, registry, target, device>>

(* recording.register_device, then coordinator.add_device *)
RecorderAccepts(d) == \A r \in recorder : r.id = d.id => r = d

IdFree(d) == d.id \notin Ids

(* Variant: the id is chosen when the device is registered. *)
QualifiedFreshId(c) ==
  \E index \in Indices :
  LET d == NewDevice(target[c], index) IN
  /\ LoopFree /\ at[c] = "probe" /\ UniqueId(target[c].name, index)
  /\ recorder' = recorder \cup {d} /\ live' = live \cup {d}
  /\ at' = [at EXCEPT ![c] = "remember"]
  /\ device' = [device EXCEPT ![c] = d]
  /\ UNCHANGED <<up, crashes, registry, target, answer>>

Qualified(c) ==
  LET d == device[c] IN
  /\ LoopFree /\ at[c] = "probe"
  /\ IF RecorderAccepts(d)
       THEN /\ recorder' = recorder \cup {d}
            /\ IF IdFree(d)
                 THEN /\ live' = live \cup {d}
                      /\ at' = [at EXCEPT ![c] = "remember"]
                      /\ UNCHANGED answer
                 ELSE Answer(c, "error") /\ UNCHANGED live
       ELSE Answer(c, "error") /\ UNCHANGED <<live, recorder>>
  /\ UNCHANGED <<up, crashes, registry, target, device>>

-----------------------------------------------------------------------------
(* registry.remember *)
Agrees(d) == \A f \in file : f.id = d.id \/ f.host = d.host => f = d

(* Variant: the error is swallowed. *)
RememberFailsSilently(c) ==
  /\ up /\ at[c] \in {"remember", "write"}
  /\ Answer(c, "connected")
  /\ UNCHANGED <<process, registry, target, device>>

(* An entry that conflicts raises; so does a file that cannot be written. *)
RememberFails(c) ==
  /\ up /\ at[c] \in {"remember", "write"}
  /\ Answer(c, "error")
  /\ UNCHANGED <<process, registry, target, device>>

(* Variant: the file itself is opened for writing. *)
RememberBeginsInPlace(c) ==
  /\ up /\ at[c] = "remember" /\ ~torn /\ Agrees(device[c])
  /\ IF device[c] \in file
       THEN Answer(c, "connected") /\ UNCHANGED torn
       ELSE at' = [at EXCEPT ![c] = "write"] /\ torn' = TRUE /\ UNCHANGED answer
  /\ UNCHANGED <<process, file, target, device>>

RememberBegins(c) ==
  /\ up /\ at[c] = "remember" /\ ~torn /\ Agrees(device[c])
  /\ IF device[c] \in file
       THEN Answer(c, "connected")
       ELSE at' = [at EXCEPT ![c] = "write"] /\ UNCHANGED answer
  /\ UNCHANGED <<process, registry, target, device>>

(* The temporary file is complete and replaces the registry file. *)
Replace(c) ==
  /\ up /\ at[c] = "write"
  /\ file' = file \cup {device[c]} /\ torn' = FALSE
  /\ Answer(c, "connected")
  /\ UNCHANGED <<process, target, device>>

-----------------------------------------------------------------------------
Crash ==
  /\ up /\ crashes < MaxCrashes
  /\ up' = FALSE
  /\ crashes' = crashes + 1
  /\ live' = {} /\ recorder' = {}
  /\ at' = [c \in Attempt |-> IF at[c] = "idle" THEN "idle" ELSE "done"]
  /\ UNCHANGED <<registry, target, device, answer>>

(* load_runtime_config; a file that does not parse ends the start. *)
Restart ==
  /\ ~up /\ ~torn /\ Loadable(file)
  /\ up' = TRUE
  /\ live' = Merge(file) /\ recorder' = Merge(file)
  /\ UNCHANGED <<crashes, registry, calls>>

-----------------------------------------------------------------------------
Next ==
  \/ \E c \in Attempt :
       \/ \E t \in Target : Connect(c, t)
       \/ Unqualified(c) \/ Qualified(c)
       \/ RememberFails(c) \/ RememberBegins(c) \/ Replace(c)
  \/ Crash \/ Restart

Spec == Init /\ [][Next]_vars

-----------------------------------------------------------------------------
Unfixed == live \ Fixed

(* Connects of one target that overlap never give it two devices, whatever ids
   they chose before they waited (_unique_id, connect, add_device). *)
OneDevicePerHost ==
  \A x, y \in live : x.id = y.id \/ (x.host = y.host /\ ~({x, y} \subseteq Fixed)) => x = y

(* The registry file always parses and passes load(): no crash and no order of
   connects leaves a file that stops the next start (remember, load). *)
FileLoads == ~torn /\ Loadable(file)

(* A device reported as connected is there again after a restart
   (connect, remember, merge_runtime_devices). *)
AnsweredSurvives ==
  up => \A c \in Attempt : answer[c] = "connected" => device[c] \in live

(* tests/integration/test_target_connection.py:125: a target that is registered
   with live acquisition is remembered. *)
LiveIsRemembered == LoopFree => Unfixed \subseteq file
=============================================================================
