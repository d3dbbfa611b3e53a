------------------------ MODULE DeviceConnectorProofs ------------------------
(***************************************************************************)
(* Proofs about DeviceConnector for any targets, calls, configuration,     *)
(* registry file and number of crashes: one device per host, a registry    *)
(* file that the next start can load, and no connected device forgotten.   *)
(***************************************************************************)
EXTENDS DeviceConnector, FiniteSetTheorems, TLAPS

TypeOK ==
  /\ up \in BOOLEAN /\ torn \in BOOLEAN
  /\ IsFiniteSet(live) /\ IsFiniteSet(file)
  /\ at \in [Attempt -> {"idle", "probe", "remember", "write", "done"}]
  /\ answer \in [Attempt -> {"none", "existing", "unavailable", "error", "connected"}]
  /\ DOMAIN target = Attempt /\ DOMAIN device = Attempt

Registering == {"remember", "write"}

(* A process that is down has no device and no call.                        *)
Down == ~up => live = {} /\ \A c \in Attempt : at[c] \in {"idle", "done"}

(* The part of connect() without an await is alone.                         *)
Alone ==
  \A b, c \in Attempt : at[b] \in Registering /\ at[c] \in Registering => b = c

(* A call that waits for its probe has the first id that was free when it   *)
(* asked: those before it are taken still.                                  *)
ChosenId(d, ids) ==
  \E index \in Nat \ {0} :
    d.id = Candidate(d.name, index) /\ \A j \in 1 .. index - 1 : Candidate(d.name, j) \in ids

Probing ==
  \A c \in Attempt : at[c] = "probe" =>
    /\ target[c] \in Target
    /\ device[c].name = target[c].name /\ device[c].host = target[c].host
    /\ ChosenId(device[c], Ids)

(* A device that came to live while a call waits for the same host has made *)
(* that call's id unusable, and so will one of two such calls.              *)
HostTaken ==
  \A c \in Attempt, x \in live : at[c] = "probe" /\ x.host = device[c].host => device[c].id \in Ids

SameHost ==
  \A b, c \in Attempt : at[b] = "probe" /\ at[c] = "probe" /\ device[b].host = device[c].host =>
    device[b].id = device[c].id \/ device[b].id \in Ids \/ device[c].id \in Ids

(* What the registry file will bring back is live, and what was connected   *)
(* is among it.                                                             *)
Written ==
  /\ up => Merge(file) \subseteq live
  /\ \A c \in Attempt : at[c] \in Registering => device[c] \in live
  /\ \A c \in Attempt : at[c] = "write" => Agrees(device[c])
  /\ \A c \in Attempt : answer[c] = "connected" => device[c] \in Merge(file)
  /\ \A c \in Attempt : answer[c] # "none" => at[c] = "done"

ConnectorInv ==
  /\ TypeOK /\ Down /\ Alone /\ Probing /\ HostTaken /\ SameHost /\ Written
  /\ OneDevicePerHost /\ FileLoads

USE ConnectorAssumption

-----------------------------------------------------------------------------
(* merge_runtime_devices *)

LEMMA MergeFinite == ASSUME NEW r, IsFiniteSet(r) PROVE IsFiniteSet(Merge(r))
<1>. DEFINE kept == {x \in r : \A f \in Fixed : x.id # f.id /\ x.host # f.host}
<1>1. IsFiniteSet(kept)
  BY FS_Subset
<1>2. IsFiniteSet(Fixed \cup kept)
  BY <1>1, FS_Union
<1>. QED
  BY <1>2 DEF Merge

LEMMA MergeUnique ==
  ASSUME NEW r, Loadable(r), NEW x \in Merge(r), NEW y \in Merge(r),
         x.id = y.id \/ (x.host = y.host /\ ~({x, y} \subseteq Fixed))
  PROVE  x = y
<1>1. CASE x \in Fixed /\ y \in Fixed
  BY <1>1
<1>2. CASE x \in Fixed /\ y \notin Fixed
  BY <1>2 DEF Merge
<1>3. CASE x \notin Fixed /\ y \in Fixed
  BY <1>3 DEF Merge
<1>4. CASE x \notin Fixed /\ y \notin Fixed
  BY <1>4 DEF Merge, Loadable
<1>. QED
  BY <1>1, <1>2, <1>3, <1>4

(* A live device is fixed or in conflict with no fixed one.                 *)
LEMMA LiveSurvivesMerge ==
  ASSUME OneDevicePerHost, Fixed \subseteq live, NEW d \in live, NEW r, d \in r
  PROVE  d \in Merge(r)
<1>1. CASE d \in Fixed
  BY <1>1 DEF Merge
<1>2. CASE d \notin Fixed
  <2>1. \A f \in Fixed : d.id # f.id /\ d.host # f.host
    BY <1>2 DEF OneDevicePerHost
  <2>. QED
    BY <2>1 DEF Merge
<1>. QED
  BY <1>1, <1>2

LEMMA ConnectorInitInv == Init => ConnectorInv
<1>. SUFFICES ASSUME Init PROVE ConnectorInv
  OBVIOUS
<1>1. /\ up = TRUE /\ torn = FALSE /\ Loadable(file) /\ IsFiniteSet(file)
      /\ live = Merge(file)
      /\ at = [c \in Attempt |-> "idle"] /\ answer = [c \in Attempt |-> "none"]
      /\ DOMAIN target = Attempt /\ DOMAIN device = Attempt
  BY DEF Init
<1>2. TypeOK
  BY <1>1, MergeFinite DEF TypeOK
<1>3. OneDevicePerHost
  BY <1>1, MergeUnique DEF OneDevicePerHost
<1>4. FileLoads
  BY <1>1 DEF FileLoads
<1>5. Down /\ Alone /\ Probing /\ HostTaken /\ SameHost /\ Written
  BY <1>1 DEF Down, Alone, Probing, HostTaken, SameHost, Written, Registering
<1>. QED
  BY <1>2, <1>3, <1>4, <1>5 DEF ConnectorInv

-----------------------------------------------------------------------------
(* connect() to its await: two calls for one host choose the same id, or    *)
(* the id of the first is taken when the second chooses.                    *)
LEMMA ConnectInv ==
  ASSUME ConnectorInv, NEW c \in Attempt, NEW t \in Target, Connect(c, t)
  PROVE  ConnectorInv'
<1>1. /\ UNCHANGED <<up, live, recorder, crashes, file, torn>> /\ at[c] = "idle" /\ LoopFree
      /\ target' = [target EXCEPT ![c] = t]
  BY DEF Connect, process, registry
<1>2. Ids' = Ids /\ Merge(file)' = Merge(file) /\ Fixed \subseteq live
  BY <1>1 DEF Ids, Merge, LoopFree, ConnectorInv, Written
<1>3. OneDevicePerHost' /\ FileLoads'
  BY <1>1 DEF ConnectorInv, OneDevicePerHost, FileLoads, Loadable
<1>4. \/ /\ at' = [at EXCEPT ![c] = "done"] /\ answer' = [answer EXCEPT ![c] = "existing"]
         /\ device' = device
      \/ /\ Existing(t) = {} /\ at' = [at EXCEPT ![c] = "probe"] /\ answer' = answer
         /\ \E k \in Indices : UniqueId(t.name, k) /\ device' = [device EXCEPT ![c] = NewDevice(t, k)]
  BY DEF Connect, Answer
<1>5. \A b \in Attempt : b # c => at'[b] = at[b] /\ device'[b] = device[b] /\ target'[b] = target[b]
                                  /\ answer'[b] = answer[b]
  BY <1>1, <1>4 DEF ConnectorInv, TypeOK
<1>6. at'[c] \in {"probe", "done"} /\ answer'[c] \in {answer[c], "existing"} /\ answer[c] = "none"
  BY <1>1, <1>4 DEF ConnectorInv, TypeOK, Written
<1>7. TypeOK' /\ Down' /\ Alone'
  <2>1. TypeOK'
    <3>1. at' \in [Attempt -> {"idle", "probe", "remember", "write", "done"}]
      BY <1>4 DEF ConnectorInv, TypeOK
    <3>2. answer' \in [Attempt -> {"none", "existing", "unavailable", "error", "connected"}]
      BY <1>4 DEF ConnectorInv, TypeOK
    <3>3. DOMAIN target' = Attempt /\ DOMAIN device' = Attempt
      BY <1>1, <1>4 DEF ConnectorInv, TypeOK
    <3>. QED
      BY <1>1, <3>1, <3>2, <3>3 DEF ConnectorInv, TypeOK
  <2>2. Down'
    BY <1>1 DEF Down, LoopFree
  <2>3. Alone'
    BY <1>5, <1>6 DEF ConnectorInv, Alone, Registering
  <2>. QED
    BY <2>1, <2>2, <2>3
<1>8. Written'
  <2>1. \A b \in Attempt : at'[b] \in Registering => b # c
    BY <1>6 DEF Registering
  <2>2. \A b \in Attempt : answer'[b] = "connected" => b # c
    BY <1>6
  <2>3. answer'[c] # "none" => at'[c] = "done"
    BY <1>4, <1>6 DEF ConnectorInv, TypeOK
  <2>4. /\ \A b \in Attempt : at'[b] \in Registering => device'[b] \in live
        /\ \A b \in Attempt : answer'[b] = "connected" => device'[b] \in Merge(file)
        /\ \A b \in Attempt : answer'[b] # "none" => at'[b] = "done"
    BY <1>5, <2>1, <2>2, <2>3 DEF ConnectorInv, Written
  <2>5. \A b \in Attempt : ~(at'[b] = "write")
    BY <1>1, <1>5, <1>6 DEF LoopFree
  <2>. QED
    BY <1>1, <1>2, <2>4, <2>5 DEF Written, ConnectorInv
<1>9. CASE at' = [at EXCEPT ![c] = "done"]
  <2>1. \A b \in Attempt : at'[b] = "probe" => b # c
    BY <1>9 DEF ConnectorInv, TypeOK
  <2>2. Probing'
    BY <1>2, <1>5, <2>1 DEF ConnectorInv, Probing
  <2>3. HostTaken' /\ SameHost'
    BY <1>1, <1>2, <1>5, <2>1 DEF ConnectorInv, HostTaken, SameHost
  <2>. QED
    BY <1>3, <1>7, <1>8, <2>2, <2>3 DEF ConnectorInv
<1>10. ASSUME Existing(t) = {}, NEW k \in Indices, UniqueId(t.name, k),
              device' = [device EXCEPT ![c] = NewDevice(t, k)]
       PROVE  ConnectorInv'
  <2>1. k \in Nat \ {0}
    <3>1. Cardinality(live) \in Nat
      BY FS_CardinalityType DEF ConnectorInv, TypeOK
    <3>. QED
      BY <3>1 DEF Indices
  <2>2. /\ device'[c].name = t.name /\ device'[c].host = t.host
        /\ device'[c].id = Candidate(t.name, k) /\ target'[c] = t
    BY <1>1, <1>10 DEF ConnectorInv, TypeOK, NewDevice
  <2>3. Candidate(t.name, k) \notin Ids /\ \A j \in 1 .. k - 1 : Candidate(t.name, j) \in Ids
    BY <1>10 DEF UniqueId
  <2>4. \A b \in Attempt \ {c} : at'[b] = "probe" =>
          /\ target[b] \in Target /\ device[b].name = target[b].name /\ device[b].host = target[b].host
          /\ ChosenId(device[b], Ids)
    BY <1>5 DEF ConnectorInv, Probing
  <2>5. Probing'
    <3>1. ChosenId(device'[c], Ids)
      BY <2>1, <2>2, <2>3 DEF ChosenId
    <3>. QED
      BY <1>2, <1>5, <2>2, <2>4, <3>1 DEF Probing
  <2>6. HostTaken'
    <3>1. \A x \in live : x.host # device'[c].host
      BY <1>10, <2>2 DEF Existing
    <3>. QED
      BY <1>1, <1>2, <1>5, <3>1 DEF ConnectorInv, HostTaken
  <2>7. ASSUME NEW b \in Attempt, b # c, at'[b] = "probe", device'[b].host = device'[c].host
        PROVE  device'[b].id = device'[c].id \/ device'[b].id \in Ids
    <3>1. device[b].name = t.name
      BY <1>5, <2>2, <2>4, <2>7
    <3>2. PICK i \in Nat \ {0} : /\ device[b].id = Candidate(device[b].name, i)
                                 /\ \A j \in 1 .. i - 1 : Candidate(device[b].name, j) \in Ids
      BY <2>4, <2>7 DEF ChosenId
    <3>3. CASE i < k
      <4>1. i \in 1 .. k - 1
        BY <2>1, <3>3
      <4>. QED
        BY <1>5, <2>3, <2>7, <3>1, <3>2, <4>1
    <3>4. CASE k < i
      <4>1. k \in 1 .. i - 1
        BY <2>1, <3>4
      <4>. QED
        BY <2>3, <3>1, <3>2, <4>1
    <3>5. CASE i = k
      BY <1>5, <2>2, <2>7, <3>1, <3>2, <3>5
    <3>. QED
      BY <2>1, <3>3, <3>4, <3>5
  <2>8. SameHost'
    <3>. SUFFICES ASSUME NEW a \in Attempt, NEW b \in Attempt, at'[a] = "probe", at'[b] = "probe",
                         device'[a].host = device'[b].host
                  PROVE  device'[a].id = device'[b].id \/ device'[a].id \in Ids \/ device'[b].id \in Ids
      BY <1>2 DEF SameHost
    <3>1. CASE a # c /\ b # c
      BY <1>5, <3>1 DEF ConnectorInv, SameHost
    <3>2. CASE a = c \/ b = c
      BY <2>7, <3>2
    <3>. QED
      BY <3>1, <3>2
  <2>. QED
    BY <1>3, <1>7, <1>8, <2>5, <2>6, <2>8 DEF ConnectorInv
<1>. QED
  BY <1>4, <1>9, <1>10


-----------------------------------------------------------------------------
(* An answer ends a call and changes nothing else.                          *)
LEMMA AnswerInv ==
  ASSUME ConnectorInv, up, NEW c \in Attempt, NEW a \in {"unavailable", "error", "connected"},
         at[c] \in {"probe", "remember", "write"},
         UNCHANGED <<up, live, file, torn, target, device>>,
         at' = [at EXCEPT ![c] = "done"], answer' = [answer EXCEPT ![c] = a],
         a = "connected" => device[c] \in Merge(file)
  PROVE  ConnectorInv'
<1>1. /\ at'[c] = "done" /\ answer'[c] = a
      /\ \A b \in Attempt : b # c => at'[b] = at[b] /\ answer'[b] = answer[b]
  BY DEF ConnectorInv, TypeOK
<1>2. Ids' = Ids /\ Merge(file)' = Merge(file)
  BY DEF Ids, Merge
<1>3. TypeOK' /\ Down'
  BY DEF ConnectorInv, TypeOK, Down
<1>4. Alone'
  BY <1>1 DEF ConnectorInv, Alone, Registering
<1>5. Probing'
  BY <1>1, <1>2 DEF ConnectorInv, Probing
<1>6. HostTaken' /\ SameHost'
  BY <1>1, <1>2 DEF ConnectorInv, HostTaken, SameHost
<1>7. Written'
  <2>1. \A b \in Attempt : at'[b] \in Registering \cup {"write"} => b # c
    BY <1>1 DEF Registering
  <2>2. /\ \A b \in Attempt : at'[b] \in Registering => device[b] \in live
        /\ \A b \in Attempt : at'[b] = "write" => Agrees(device[b])
    BY <1>1, <2>1 DEF ConnectorInv, Written, Registering
  <2>3. \A b \in Attempt : answer'[b] = "connected" => device[b] \in Merge(file)
    BY <1>1 DEF ConnectorInv, Written
  <2>4. \A b \in Attempt : answer'[b] # "none" => at'[b] = "done"
    BY <1>1 DEF ConnectorInv, Written
  <2>5. \A b \in Attempt : at'[b] = "write" => Agrees(device[b])'
    BY <2>2 DEF Agrees
  <2>. QED
    BY <1>2, <2>2, <2>3, <2>4, <2>5 DEF ConnectorInv, Written
<1>8. OneDevicePerHost' /\ FileLoads'
  BY DEF ConnectorInv, OneDevicePerHost, FileLoads, Loadable
<1>. QED
  BY <1>3, <1>4, <1>5, <1>6, <1>7, <1>8 DEF ConnectorInv

LEMMA UnqualifiedInv ==
  ASSUME ConnectorInv, NEW c \in Attempt, Unqualified(c)
  PROVE  ConnectorInv'
  BY AnswerInv DEF Unqualified, Answer, LoopFree, process, registry

LEMMA RememberFailsInv ==
  ASSUME ConnectorInv, NEW c \in Attempt, RememberFails(c)
  PROVE  ConnectorInv'
  BY AnswerInv DEF RememberFails, Answer, process, registry

(* After the probe: no other device has the id, hence none the host.        *)
LEMMA QualifiedInv ==
  ASSUME ConnectorInv, NEW c \in Attempt, Qualified(c)
  PROVE  ConnectorInv'
<1>1. /\ LoopFree /\ up /\ at[c] = "probe"
      /\ UNCHANGED <<up, crashes, file, torn, target, device>>
  BY DEF Qualified, LoopFree, registry
<1>2. CASE live' = live /\ Answer(c, "error")
  BY <1>1, <1>2, AnswerInv DEF Answer
<1>3. ASSUME NEW d, d = device[c], IdFree(d), live' = live \cup {d},
             at' = [at EXCEPT ![c] = "remember"], answer' = answer
      PROVE  ConnectorInv'
  <2>1. /\ at'[c] = "remember" /\ \A b \in Attempt : b # c => at'[b] = at[b]
    BY <1>3 DEF ConnectorInv, TypeOK
  <2>2. Ids' = Ids \cup {d.id} /\ d.id \notin Ids /\ Merge(file)' = Merge(file)
    BY <1>1, <1>3 DEF Ids, IdFree, Merge
  <2>3. \A x \in live : x.host # d.host /\ x.id # d.id
    BY <1>1, <1>3, <2>2 DEF ConnectorInv, HostTaken, Ids
  <2>4. TypeOK' /\ Down'
    <3>1. IsFiniteSet(live')
      BY <1>3, FS_AddElement DEF ConnectorInv, TypeOK
    <3>2. at' \in [Attempt -> {"idle", "probe", "remember", "write", "done"}]
      BY <1>3 DEF ConnectorInv, TypeOK
    <3>. QED
      BY <1>1, <1>3, <3>1, <3>2 DEF ConnectorInv, TypeOK, Down
  <2>5. Alone'
    BY <1>1, <2>1 DEF ConnectorInv, Alone, Registering, LoopFree
  <2>6. Probing'
    <3>1. \A b \in Attempt : at[b] = "probe" => ChosenId(device[b], Ids')
      BY <2>2 DEF ConnectorInv, Probing, ChosenId
    <3>. QED
      BY <1>1, <2>1, <3>1 DEF ConnectorInv, Probing
  <2>7. HostTaken'
    <3>. SUFFICES ASSUME NEW b \in Attempt, NEW x \in live', at'[b] = "probe", x.host = device[b].host
                  PROVE  device[b].id \in Ids'
      BY <1>1 DEF HostTaken
    <3>1. b # c /\ at[b] = "probe"
      BY <2>1
    <3>2. CASE x \in live
      BY <2>2, <3>1, <3>2 DEF ConnectorInv, HostTaken
    <3>3. CASE x = d
      BY <1>1, <1>3, <2>2, <3>1, <3>3 DEF ConnectorInv, SameHost
    <3>. QED
      BY <1>3, <3>2, <3>3
  <2>8. SameHost'
    BY <1>1, <2>1, <2>2 DEF ConnectorInv, SameHost
  <2>9. Written'
    <3>1. \A b \in Attempt : at'[b] \in Registering => device[b] \in live'
      BY <1>3, <2>1 DEF ConnectorInv, Written
    <3>2. \A b \in Attempt : at'[b] # "write"
      BY <1>1, <2>1 DEF LoopFree
    <3>3. \A b \in Attempt : answer[b] # "none" => at'[b] = "done"
      BY <1>1, <2>1 DEF ConnectorInv, Written
    <3>. QED
      BY <1>1, <1>3, <2>2, <3>1, <3>2, <3>3 DEF ConnectorInv, Written
  <2>10. OneDevicePerHost'
    BY <1>3, <2>3 DEF ConnectorInv, OneDevicePerHost
  <2>11. FileLoads'
    BY <1>1 DEF ConnectorInv, FileLoads, Loadable
  <2>. QED
    BY <2>4, <2>5, <2>6, <2>7, <2>8, <2>9, <2>10, <2>11 DEF ConnectorInv
<1>. QED
  BY <1>1, <1>2, <1>3 DEF Qualified

-----------------------------------------------------------------------------
(* registry.remember *)
LEMMA RememberBeginsInv ==
  ASSUME ConnectorInv, NEW c \in Attempt, RememberBegins(c)
  PROVE  ConnectorInv'
<1>1. /\ up /\ at[c] = "remember" /\ Agrees(device[c])
      /\ UNCHANGED <<up, live, recorder, crashes, file, torn, target, device>>
  BY DEF RememberBegins, process, registry
<1>2. device[c] \in live /\ Fixed \subseteq live
  BY <1>1 DEF ConnectorInv, Written, Registering, Merge
<1>3. CASE device[c] \in file
  <2>1. device[c] \in Merge(file)
    BY <1>2, <1>3, LiveSurvivesMerge DEF ConnectorInv
  <2>. QED
    BY <1>1, <1>3, <2>1, AnswerInv DEF RememberBegins, Answer
<1>4. CASE at' = [at EXCEPT ![c] = "write"] /\ answer' = answer
  <2>1. at'[c] = "write" /\ \A b \in Attempt : b # c => at'[b] = at[b]
    BY <1>4 DEF ConnectorInv, TypeOK
  <2>2. Ids' = Ids /\ Merge(file)' = Merge(file)
    BY <1>1 DEF Ids, Merge
  <2>3. TypeOK' /\ Down'
    BY <1>1, <1>4 DEF ConnectorInv, TypeOK, Down
  <2>4. Alone'
    BY <1>1, <2>1 DEF ConnectorInv, Alone, Registering
  <2>5. Probing'
    BY <1>1, <2>1, <2>2 DEF ConnectorInv, Probing
  <2>6. HostTaken' /\ SameHost'
    BY <1>1, <2>1, <2>2 DEF ConnectorInv, HostTaken, SameHost
  <2>7. Written'
    <3>1. \A b \in Attempt : at'[b] = "write" => Agrees(device[b])'
      BY <1>1, <2>1 DEF ConnectorInv, Written, Agrees
    <3>2. \A b \in Attempt : at'[b] \in Registering => device[b] \in live
      BY <1>2, <2>1 DEF ConnectorInv, Written
    <3>3. \A b \in Attempt : answer[b] # "none" => at'[b] = "done"
      BY <1>1, <2>1 DEF ConnectorInv, Written
    <3>. QED
      BY <1>1, <1>4, <2>2, <3>1, <3>2, <3>3 DEF ConnectorInv, Written
  <2>8. OneDevicePerHost' /\ FileLoads'
    BY <1>1 DEF ConnectorInv, OneDevicePerHost, FileLoads, Loadable
  <2>. QED
    BY <2>3, <2>4, <2>5, <2>6, <2>7, <2>8 DEF ConnectorInv
<1>. QED
  BY <1>3, <1>4 DEF RememberBegins

LEMMA ReplaceInv ==
  ASSUME ConnectorInv, NEW c \in Attempt, Replace(c)
  PROVE  ConnectorInv'
<1>1. /\ up /\ at[c] = "write"
      /\ file' = file \cup {device[c]} /\ torn' = FALSE
      /\ at' = [at EXCEPT ![c] = "done"] /\ answer' = [answer EXCEPT ![c] = "connected"]
      /\ UNCHANGED <<up, live, recorder, crashes, target, device>>
  BY DEF Replace, Answer, process
<1>2. /\ at'[c] = "done" /\ answer'[c] = "connected"
      /\ \A b \in Attempt : b # c => at'[b] = at[b] /\ answer'[b] = answer[b]
  BY <1>1 DEF ConnectorInv, TypeOK
<1>3. device[c] \in live /\ Agrees(device[c]) /\ Fixed \subseteq live
  BY <1>1 DEF ConnectorInv, Written, Registering, Merge
<1>4. Ids' = Ids
  BY <1>1 DEF Ids
<1>5. /\ device[c] \in Merge(file') /\ Merge(file) \subseteq Merge(file')
      /\ Merge(file') \subseteq Merge(file) \cup {device[c]}
  <2>1. device[c] \in Merge(file')
    <3>1. \A r : device[c] \in r => device[c] \in Merge(r)
      BY <1>3, LiveSurvivesMerge DEF ConnectorInv
    <3>. QED
      BY <1>1, <3>1
  <2>. QED
    BY <1>1, <2>1 DEF Merge
<1>6. FileLoads'
  BY <1>1, <1>3 DEF ConnectorInv, FileLoads, Loadable, Agrees
<1>7. TypeOK' /\ Down'
  <2>1. IsFiniteSet(file')
    BY <1>1, FS_AddElement DEF ConnectorInv, TypeOK
  <2>2. /\ at' \in [Attempt -> {"idle", "probe", "remember", "write", "done"}]
        /\ answer' \in [Attempt -> {"none", "existing", "unavailable", "error", "connected"}]
    BY <1>1 DEF ConnectorInv, TypeOK
  <2>. QED
    BY <1>1, <2>1, <2>2 DEF ConnectorInv, TypeOK, Down
<1>8. Alone'
  BY <1>2 DEF ConnectorInv, Alone, Registering
<1>9. Probing'
  BY <1>1, <1>2, <1>4 DEF ConnectorInv, Probing
<1>10. HostTaken' /\ SameHost'
  BY <1>1, <1>2, <1>4 DEF ConnectorInv, HostTaken, SameHost
<1>11. OneDevicePerHost'
  BY <1>1 DEF ConnectorInv, OneDevicePerHost
<1>12. Written'
  <2>1. Merge(file)' = Merge(file')
    BY DEF Merge
  <2>2. \A b \in Attempt : at'[b] # "write"
    BY <1>1, <1>2 DEF ConnectorInv, Alone, Registering
  <2>3. \A b \in Attempt : at'[b] \in Registering => device[b] \in live
    BY <1>2 DEF ConnectorInv, Written, Registering
  <2>4. \A b \in Attempt : answer'[b] = "connected" => device[b] \in Merge(file')
    BY <1>2, <1>5 DEF ConnectorInv, Written
  <2>5. \A b \in Attempt : answer'[b] # "none" => at'[b] = "done"
    BY <1>2 DEF ConnectorInv, Written
  <2>6. up => Merge(file') \subseteq live
    BY <1>3, <1>5 DEF ConnectorInv, Written
  <2>. QED
    BY <1>1, <2>1, <2>2, <2>3, <2>4, <2>5, <2>6 DEF Written
<1>. QED
  BY <1>6, <1>7, <1>8, <1>9, <1>10, <1>11, <1>12 DEF ConnectorInv

-----------------------------------------------------------------------------
(* The process dies and starts again. *)
LEMMA CrashInv == ConnectorInv /\ (Crash \/ Restart) => ConnectorInv'
<1>. SUFFICES ASSUME ConnectorInv, Crash \/ Restart PROVE ConnectorInv'
  OBVIOUS
<1>1. /\ UNCHANGED <<file, torn, target, device, answer>>
      /\ \A c \in Attempt : at'[c] \in {"idle", "done"} /\ (at'[c] = "idle" => at[c] = "idle")
      /\ at' \in [Attempt -> {"idle", "probe", "remember", "write", "done"}]
  <2>1. CASE Crash
    BY <2>1 DEF Crash, registry
  <2>2. CASE Restart
    BY <2>2 DEF Restart, registry, calls, ConnectorInv, Down, TypeOK
  <2>. QED
    BY <2>1, <2>2
<1>2. \/ up' = FALSE /\ live' = {}
      \/ up' = TRUE /\ live' = Merge(file)
  BY DEF Crash, Restart
<1>3. TypeOK'
  <2>1. IsFiniteSet(live')
    BY <1>2, FS_EmptySet, MergeFinite DEF ConnectorInv, TypeOK
  <2>. QED
    BY <1>1, <1>2, <2>1 DEF ConnectorInv, TypeOK
<1>4. Down'
  BY <1>1, <1>2 DEF Down
<1>5. Alone' /\ Probing' /\ HostTaken' /\ SameHost'
  BY <1>1 DEF Alone, Probing, HostTaken, SameHost, Registering
<1>6. Written'
  <2>1. Merge(file)' = Merge(file)
    BY <1>1 DEF Merge
  <2>2. \A c \in Attempt : answer[c] # "none" => at'[c] = "done"
    <3>1. \A c \in Attempt : answer[c] # "none" => at[c] # "idle"
      BY DEF ConnectorInv, Written
    <3>. QED
      BY <1>1, <3>1
  <2>. QED
    BY <1>1, <1>2, <2>1, <2>2 DEF ConnectorInv, Written, Registering
<1>7. OneDevicePerHost'
  BY <1>2, MergeUnique DEF ConnectorInv, FileLoads, OneDevicePerHost
<1>8. FileLoads'
  BY <1>1 DEF ConnectorInv, FileLoads, Loadable
<1>. QED
  BY <1>3, <1>4, <1>5, <1>6, <1>7, <1>8 DEF ConnectorInv

LEMMA ConnectorNextInv == ConnectorInv /\ [Next]_vars => ConnectorInv'
<1>. SUFFICES ASSUME ConnectorInv, [Next]_vars PROVE ConnectorInv'
  OBVIOUS
<1>1. ASSUME NEW c \in Attempt, NEW t \in Target, Connect(c, t) PROVE ConnectorInv'
  BY <1>1, ConnectInv
<1>2. ASSUME NEW c \in Attempt, Unqualified(c) \/ Qualified(c) PROVE ConnectorInv'
  BY <1>2, UnqualifiedInv, QualifiedInv
<1>3. ASSUME NEW c \in Attempt, RememberFails(c) \/ RememberBegins(c) \/ Replace(c) PROVE ConnectorInv'
  BY <1>3, RememberFailsInv, RememberBeginsInv, ReplaceInv
<1>4. CASE Crash \/ Restart
  BY <1>4, CrashInv
<1>5. CASE UNCHANGED vars
  <2>1. UNCHANGED <<up, live, file, torn, at, target, device, answer>>
    BY <1>5 DEF vars, process, registry, calls
  <2>2. TypeOK' /\ Down' /\ Alone' /\ OneDevicePerHost' /\ FileLoads'
    BY <2>1 DEF ConnectorInv, TypeOK, Down, Alone, OneDevicePerHost, FileLoads, Loadable
  <2>3. Probing' /\ HostTaken' /\ SameHost'
    BY <2>1 DEF ConnectorInv, Probing, HostTaken, SameHost, Ids
  <2>4. Written'
    BY <2>1 DEF ConnectorInv, Written, Agrees, Merge
  <2>. QED
    BY <2>2, <2>3, <2>4 DEF ConnectorInv
<1>. QED
  BY <1>1, <1>2, <1>3, <1>4, <1>5 DEF Next

(* DeviceConnector and RememberedDeviceRegistry: the invariant holds from   *)
(* the first start on, through every crash.                                 *)
THEOREM ConnectorInvariant == Spec => []ConnectorInv
<1>. QED
  BY ConnectorInitInv, ConnectorNextInv, PTL DEF Spec

(* connect(), add_device(): calls for one target that overlap their probes  *)
(* never give it two devices.                                               *)
THEOREM AlwaysOneDevicePerHost == Spec => []OneDevicePerHost
<1>1. ConnectorInv => OneDevicePerHost
  BY DEF ConnectorInv
<1>. QED
  BY ConnectorInvariant, <1>1, PTL

(* remember(), load(): the next start can read the registry file, wherever  *)
(* this one dies.                                                           *)
THEOREM FileAlwaysLoads == Spec => []FileLoads
<1>1. ConnectorInv => FileLoads
  BY DEF ConnectorInv
<1>. QED
  BY ConnectorInvariant, <1>1, PTL

(* connect(), merge_runtime_devices(): a device that was answered CONNECTED *)
(* is live whenever the process is.                                         *)
THEOREM AnsweredAlwaysSurvives == Spec => []AnsweredSurvives
<1>1. ConnectorInv => AnsweredSurvives
  BY DEF ConnectorInv, Written, AnsweredSurvives
<1>. QED
  BY ConnectorInvariant, <1>1, PTL
=============================================================================
