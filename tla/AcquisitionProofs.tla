-------------------------- MODULE AcquisitionProofs --------------------------
(***************************************************************************)
(* Proofs about Acquisition for any set of devices, workers and requests,  *)
(* any number of blocks and probes and any bound on cycles: IndInv is an   *)
(* inductive invariant (one lemma per conjunct, one step per action), and  *)
(* the properties at the end follow from it.                               *)
(***************************************************************************)
EXTENDS Acquisition, TLAPS

USE AcquisitionAssumption

(* The initial state satisfies the inductive invariant.                     *)
LEMMA InitInv == Init => IndInv
<1>. SUFFICES ASSUME Init PROVE IndInv
  OBVIOUS
<1>1. TypeOK
  <2>1. CoordTypeOK
    BY DEF Init, CoordTypeOK, LifecycleState
  <2>2. CallTypeOK
    BY DEF Init, CallTypeOK, OpPc, StopPc
  <2>3. WorkerTypeOK
    BY DEF Init, WorkerTypeOK, WorkerPc
  <2>4. EvidenceTypeOK
    BY DEF Init, EvidenceTypeOK
  <2>5. StoreTypeOK
    BY DEF Init, StoreTypeOK
  <2>. QED
    BY <2>1, <2>2, <2>3, <2>4, <2>5 DEF TypeOK
<1>2. CallsHold /\ NoThread /\ Phases
  BY DEF Init, CallsHold, NoThread, Ended, Phases, DisconnectPc, ReconnectPc, QualifiedPc
<1>3. Registered
  BY DEF Init, Registered
<1>4. Sockets
  BY DEF Init, Sockets, Owns, ThreadPc, ReadPc
<1>5. CycleIds
  BY DEF Init, CycleIds, QualifiedPc
<1>. QED
  BY <1>1, <1>2, <1>3, <1>4, <1>5 DEF IndInv

(* The variables that an answer to an evidence request or the end of a      *)
(* cycle may change have their types afterwards.                            *)
EvidenceAfter ==
  /\ wpc' \in [Worker -> WorkerPc]
  /\ CallTypeOK'
  /\ mailbox' \in [Worker -> Request \cup {NoRequest}]
  /\ reading' \in [Worker -> Request \cup {NoRequest}]
  /\ done' \in [Request -> BOOLEAN]

LEMMA AnswerTypes ==
  ASSUME TypeOK, NEW w \in Worker, AnswerEvidence(w), UNCHANGED stopVars
  PROVE  EvidenceAfter
BY DEF EvidenceAfter, AnswerEvidence, Goto, TypeOK, CallTypeOK, WorkerTypeOK,
   EvidenceTypeOK,
       WorkerPc, ThreadPc, opVars, stopVars

LEMMA ReadDoneTypes ==
  ASSUME TypeOK, NEW w \in Worker, ReadDone(w), UNCHANGED stopVars
  PROVE  EvidenceAfter
<1>1. CASE AnswerEvidence(w)
  BY <1>1, AnswerTypes
<1>2. CASE ~AnswerEvidence(w)
  BY <1>2 DEF ReadDone, EvidenceAfter, Goto, TypeOK, CallTypeOK, WorkerTypeOK,
     EvidenceTypeOK,
              OpPc, WorkerPc, ThreadPc, evidenceVars, opVars, stopVars
<1>. QED
  BY <1>1, <1>2

LEMMA ReadFailedTypes ==
  ASSUME TypeOK, NEW w \in Worker, ReadFailed(w), UNCHANGED stopVars
  PROVE  EvidenceAfter
<1>1. CASE AnswerEvidence(w)
  BY <1>1, AnswerTypes
<1>2. CASE ~AnswerEvidence(w)
  BY <1>2 DEF ReadFailed, EvidenceAfter, Goto, TypeOK, CallTypeOK, WorkerTypeOK,
     EvidenceTypeOK,
              OpPc, WorkerPc, ThreadPc, evidenceVars, opVars, stopVars
<1>. QED
  BY <1>1, <1>2

LEMMA NextRead ==
  ASSUME TypeOK, NEW w \in Worker, NEW pc \in WorkerPc, Goto(w, pc),
         UNCHANGED <<opVars, evidenceVars, stopVars>>
  PROVE  EvidenceAfter
BY DEF EvidenceAfter, Goto, TypeOK, CallTypeOK, WorkerTypeOK, EvidenceTypeOK,
       evidenceVars, opVars, stopVars

LEMMA ConnectTypes ==
  ASSUME TypeOK, NEW w \in Worker, Connect(w)
  PROVE  TypeOK'
<1>1. EvidenceAfter
  <2>1. "take" \in WorkerPc
    BY DEF WorkerPc, ThreadPc, ReadPc
  <2>2. CASE Goto(w, "take") /\ UNCHANGED <<opVars, evidenceVars>>
    BY <2>1, <2>2, NextRead DEF Connect
  <2>3. CASE ReadFailed(w)
    BY <2>3, ReadFailedTypes DEF Connect
  <2>. QED
    BY <2>2, <2>3 DEF Connect
<1>2. /\ sock' \in [Worker -> BOOLEAN]
      /\ opened' \in [Worker -> Nat]
      /\ dialed' \in [Device -> Nat]
  <2>1. \/ UNCHANGED <<sock, opened, dialed>>
        \/ /\ sock' = [sock EXCEPT ![w] = TRUE]
           /\ opened' = [opened EXCEPT ![w] = @ + 1]
           /\ dialed' = [dialed EXCEPT ![DeviceOf[w]] = @ + 1]
    BY DEF Connect, clientVars
  <2>2. sock' \in [Worker -> BOOLEAN]
    BY <2>1 DEF TypeOK, WorkerTypeOK
  <2>3. opened' \in [Worker -> Nat]
    BY <2>1 DEF TypeOK, WorkerTypeOK
  <2>4. dialed' \in [Device -> Nat]
    BY <2>1 DEF TypeOK, StoreTypeOK
  <2>. QED
    BY <2>2, <2>3, <2>4
<1>3. UNCHANGED <<coordVars, step, cyc, stopEvent, base, requestVars, storeVars>>
  BY DEF Connect
<1>. QED
  BY <1>1, <1>2, <1>3 DEF EvidenceAfter, TypeOK, CoordTypeOK, WorkerTypeOK, EvidenceTypeOK,
     StoreTypeOK, coordVars, requestVars, storeVars

LEMMA TakeSocketTypes ==
  ASSUME TypeOK, NEW w \in Worker, TakeSocket(w)
  PROVE  TypeOK'
<1>1. EvidenceAfter
  <2>1. "exchange" \in WorkerPc /\ "crashed" \in WorkerPc
    BY DEF WorkerPc, ThreadPc, ReadPc, EndedPc
  <2>2. CASE AnswerEvidence(w)
    BY <2>2, AnswerTypes DEF TakeSocket
  <2>3. CASE Goto(w, "exchange") /\ UNCHANGED <<opVars, evidenceVars>>
    BY <2>1, <2>3, NextRead DEF TakeSocket
  <2>4. CASE Goto(w, "crashed") /\ UNCHANGED <<opVars, evidenceVars>>
    BY <2>1, <2>4, NextRead DEF TakeSocket
  <2>. QED
    BY <2>2, <2>3, <2>4 DEF TakeSocket
<1>2. UNCHANGED <<coordVars, step, cyc, stopEvent, base, clientVars, requestVars, storeVars>>
  BY DEF TakeSocket
<1>. QED
  BY <1>1, <1>2 DEF EvidenceAfter, TypeOK, CoordTypeOK, WorkerTypeOK, EvidenceTypeOK,
     StoreTypeOK, coordVars, clientVars, requestVars, storeVars

LEMMA ExchangeTypes ==
  ASSUME TypeOK, NEW w \in Worker, Exchange(w)
  PROVE  TypeOK'
<1>1. EvidenceAfter
  <2>1. "connect" \in WorkerPc
    BY DEF WorkerPc, ThreadPc, ReadPc
  <2>2. CASE Goto(w, "connect") /\ UNCHANGED <<opVars, evidenceVars>>
    BY <2>1, <2>2, NextRead DEF Exchange
  <2>3. CASE ReadDone(w)
    BY <2>3, ReadDoneTypes DEF Exchange
  <2>4. CASE ReadFailed(w)
    BY <2>4, ReadFailedTypes DEF Exchange
  <2>. QED
    BY <2>2, <2>3, <2>4 DEF Exchange
<1>2. sock' \in [Worker -> BOOLEAN] /\ step' \in [Worker -> Nat]
  <2>1. /\ sock' = sock \/ sock' = [sock EXCEPT ![w] = FALSE]
        /\ step' = step \/ step' = [step EXCEPT ![w] = @ + 1]
    BY DEF Exchange
  <2>2. sock' \in [Worker -> BOOLEAN]
    BY <2>1 DEF TypeOK, WorkerTypeOK
  <2>3. step' \in [Worker -> Nat]
    BY <2>1 DEF TypeOK, WorkerTypeOK
  <2>. QED
    BY <2>2, <2>3
<1>3. UNCHANGED <<coordVars, cyc, stopEvent, base, opened, dialed, requestVars, storeVars>>
  BY DEF Exchange
<1>. QED
  BY <1>1, <1>2, <1>3 DEF EvidenceAfter, TypeOK, CoordTypeOK, WorkerTypeOK, EvidenceTypeOK,
     StoreTypeOK, coordVars, requestVars, storeVars

LEMMA InstallTypes ==
  ASSUME TypeOK, NEW d \in Device, held[d] \in Worker, ReconnectInstall(d)
  PROVE  TypeOK'
<1>1. CoordTypeOK'
  BY DEF ReconnectInstall, TypeOK, CoordTypeOK, LifecycleState
<1>2. CallTypeOK'
  BY DEF ReconnectInstall, TypeOK, CallTypeOK, OpPc, stopVars
<1>3. WorkerTypeOK'
  BY DEF ReconnectInstall, TypeOK, WorkerTypeOK, WorkerPc
<1>4. EvidenceTypeOK' /\ StoreTypeOK'
  BY DEF ReconnectInstall, TypeOK, EvidenceTypeOK, StoreTypeOK, evidenceVars, requestVars,
     storeVars
<1>. QED
  BY <1>1, <1>2, <1>3, <1>4 DEF TypeOK

(* Every step keeps the types. *)
LEMMA TypeNext == IndInv /\ [Next]_vars => TypeOK'
<1>. SUFFICES ASSUME IndInv, [Next]_vars PROVE TypeOK'
  OBVIOUS
<1>. USE DEF IndInv, Registered, CallsHold, TypeOK, CoordTypeOK, CallTypeOK, WorkerTypeOK,
             EvidenceTypeOK, StoreTypeOK, LifecycleState, OpPc, StopPc, WorkerPc, ThreadPc,
             ReadPc, EndedPc, DisconnectPc, QualifiedPc, ReconnectPc,
           coordVars, opVars, stopVars, loopVars, clientVars, evidenceVars,
           requestVars, storeVars, Goto
<1>1. ASSUME Start PROVE TypeOK'
  BY <1>1 DEF Start, StartThreads
<1>2. ASSUME StopBegin PROVE TypeOK'
  BY <1>2 DEF StopBegin
<1>3. ASSUME StopSnapshot PROVE TypeOK'
  BY <1>3 DEF StopSnapshot
<1>4. ASSUME StopSignal PROVE TypeOK'
  BY <1>4 DEF StopSignal
<1>5. ASSUME StopClose PROVE TypeOK'
  BY <1>5 DEF StopClose
<1>6. ASSUME StopJoin PROVE TypeOK'
  BY <1>6 DEF StopJoin, Alive, Qualifying
<1>7. ASSUME StopFinish PROVE TypeOK'
  BY <1>7 DEF StopFinish
<1>8. ASSUME NEW d \in Device, AddDevice(d) PROVE TypeOK'
  <2>1. CoordTypeOK'
    <3>1. PICK w \in Worker : workers' = [workers EXCEPT ![d] = w]
      BY <1>8 DEF AddDevice, StartThreads, Fresh
    <3>2. threads' \in [Device -> Worker \cup {NoWorker}]
      <4>1. CASE started
        <5>1. PICK v \in Worker : StartThreads({v})
          BY <1>8, <4>1 DEF AddDevice, Fresh
        <5>. QED
          BY <5>1 DEF StartThreads
      <4>2. CASE ~started
        BY <1>8, <4>2 DEF AddDevice, StartThreads, Fresh
      <4>. QED
        BY <4>1, <4>2
    <3>3. lifecycle' \in [Device -> LifecycleState]
      BY <1>8 DEF AddDevice, StartThreads, Fresh
    <3>. QED
      BY <1>8, <3>1, <3>2, <3>3 DEF AddDevice
  <2>2. CallTypeOK'
    BY <1>8 DEF AddDevice, StartThreads, Fresh
  <2>3. WorkerTypeOK'
    BY <1>8 DEF AddDevice, StartThreads, Fresh
  <2>4. EvidenceTypeOK'
    BY <1>8 DEF AddDevice, StartThreads, Fresh
  <2>5. StoreTypeOK'
    BY <1>8 DEF AddDevice, StartThreads, Fresh
  <2>. QED
    BY <2>1, <2>2, <2>3, <2>4, <2>5
<1>9. ASSUME NEW d \in Device, BeginDisconnect(d) PROVE TypeOK'
  BY <1>9 DEF BeginDisconnect
<1>10. ASSUME NEW d \in Device, BeginReconnect(d) PROVE TypeOK'
  BY <1>10 DEF BeginReconnect, QualificationCycle, Fresh, CanReconnect
<1>11. ASSUME NEW d \in Device, DisconnectSetStop(d) PROVE TypeOK'
  BY <1>11 DEF DisconnectSetStop
<1>12. ASSUME NEW d \in Device, DisconnectCloseClient(d) PROVE TypeOK'
  BY <1>12 DEF DisconnectCloseClient
<1>13. ASSUME NEW d \in Device, DisconnectJoined(d) PROVE TypeOK'
  BY <1>13 DEF DisconnectJoined, Alive, Qualifying
<1>14. ASSUME NEW d \in Device, DisconnectTimeout(d) PROVE TypeOK'
  BY <1>14 DEF DisconnectTimeout, Alive, Qualifying
<1>15. ASSUME NEW d \in Device, ReconnectUnqualified(d) PROVE TypeOK'
  BY <1>15 DEF ReconnectUnqualified
<1>16. ASSUME NEW d \in Device, ReconnectPublishStore(d) PROVE TypeOK'
  BY <1>16 DEF ReconnectPublishStore, Larger
<1>17. ASSUME NEW d \in Device, ReconnectPublishBus(d) PROVE TypeOK'
  BY <1>17 DEF ReconnectPublishBus
<1>18. ASSUME NEW d \in Device, ReconnectInstall(d) PROVE TypeOK'
  <2>1. held[d] \in Worker
    BY <1>18 DEF ReconnectInstall
  <2>. QED
    BY <1>18, <2>1, InstallTypes
<1>19. ASSUME NEW d \in Device, ReconnectStartWorker(d) PROVE TypeOK'
  BY <1>19 DEF ReconnectStartWorker, StartThreads
<1>19a. ASSUME NEW d \in Device, ReconnectStartFails(d) PROVE TypeOK'
  BY <1>19a DEF ReconnectStartFails
<1>20. ASSUME NEW w \in Worker, Connect(w) PROVE TypeOK'
  BY <1>20, ConnectTypes
<1>21. ASSUME NEW w \in Worker, TakeSocket(w) PROVE TypeOK'
  BY <1>21, TakeSocketTypes
<1>22. ASSUME NEW w \in Worker, Exchange(w) PROVE TypeOK'
  BY <1>22, ExchangeTypes
<1>23. ASSUME NEW w \in Worker, LoopHead(w) PROVE TypeOK'
  BY <1>23 DEF LoopHead
<1>24. ASSUME NEW w \in Worker, BeginCycle(w) PROVE TypeOK'
  BY <1>24 DEF BeginCycle
<1>25. ASSUME NEW w \in Worker, BreakWait(w) PROVE TypeOK'
  BY <1>25 DEF BreakWait
<1>26. ASSUME NEW w \in Worker, StoreSample(w) PROVE TypeOK'
  BY <1>26 DEF StoreSample, Larger
<1>27. ASSUME NEW w \in Worker, PublishSample(w) PROVE TypeOK'
  BY <1>27 DEF PublishSample
<1>28. ASSUME NEW w \in Worker, StoreFailure(w) PROVE TypeOK'
  BY <1>28 DEF StoreFailure, Larger
<1>29. ASSUME NEW w \in Worker, PublishFailure(w) PROVE TypeOK'
  BY <1>29 DEF PublishFailure
<1>30. ASSUME NEW w \in Worker, CycleBoundary(w) PROVE TypeOK'
  <2>1. CoordTypeOK'
    BY <1>30 DEF CycleBoundary
  <2>2. CallTypeOK'
    BY <1>30 DEF CycleBoundary
  <2>3. WorkerTypeOK'
    BY <1>30 DEF CycleBoundary
  <2>4. EvidenceTypeOK'
    BY <1>30, SMTT(40) DEF CycleBoundary
  <2>5. StoreTypeOK'
    BY <1>30 DEF CycleBoundary
  <2>. QED
    BY <2>1, <2>2, <2>3, <2>4, <2>5
<1>31. ASSUME NEW w \in Worker, FailPending(w) PROVE TypeOK'
  BY <1>31 DEF FailPending
<1>32. ASSUME NEW w \in Worker, FinalClose(w) PROVE TypeOK'
  BY <1>32 DEF FinalClose
<1>33. ASSUME NEW r \in Request, NEW d \in Device, FetchWorker(r, d) PROVE TypeOK'
  BY <1>33 DEF FetchWorker
<1>34. ASSUME NEW r \in Request, PostRequest(r) PROVE TypeOK'
  <2>1. CoordTypeOK' /\ CallTypeOK' /\ WorkerTypeOK' /\ StoreTypeOK'
    BY <1>34 DEF PostRequest
  <2>2. EvidenceTypeOK'
    BY <1>34, SMTT(40) DEF PostRequest
  <2>. QED
    BY <2>1, <2>2
<1>35. CASE UNCHANGED vars
  BY <1>35 DEF vars
<1>. QED
  BY <1>1, <1>2, <1>3, <1>4, <1>5, <1>6, <1>7, <1>8, <1>9, <1>10, <1>11, <1>12, <1>13,
     <1>14, <1>15, <1>16, <1>17, <1>18, <1>19, <1>19a, <1>20, <1>21, <1>22, <1>23, <1>24, <1>25,
     <1>26, <1>27, <1>28, <1>29, <1>30, <1>31, <1>32, <1>33, <1>34, <1>35, ZenonT(60)
     DEF Next, OpStep, WorkerStep, StopStep

(* A call in progress keeps the worker it holds. *)
LEMMA CallsNext == IndInv /\ [Next]_vars => CallsHold'
<1>. SUFFICES ASSUME IndInv, [Next]_vars PROVE CallsHold'
  OBVIOUS
<1>. USE DEF IndInv, CallsHold, TypeOK, CoordTypeOK, CallTypeOK, WorkerTypeOK,
             EvidenceTypeOK, LifecycleState, OpPc, StopPc, WorkerPc, ThreadPc, ReadPc,
             EndedPc, DisconnectPc, QualifiedPc, ReconnectPc,
           coordVars, opVars, stopVars, loopVars, clientVars, evidenceVars,
           requestVars, storeVars, Goto
<1>1. ASSUME Start PROVE CallsHold'
  BY <1>1 DEF Start, StartThreads, Phases
<1>2. ASSUME StopBegin PROVE CallsHold'
  BY <1>2 DEF StopBegin
<1>3. ASSUME StopSnapshot PROVE CallsHold'
  BY <1>3 DEF StopSnapshot, Registered
<1>4. ASSUME StopSignal PROVE CallsHold'
  BY <1>4 DEF StopSignal
<1>5. ASSUME StopClose PROVE CallsHold'
  BY <1>5 DEF StopClose
<1>6. ASSUME StopJoin PROVE CallsHold'
  BY <1>6 DEF StopJoin, Alive, Qualifying
<1>7. ASSUME StopFinish PROVE CallsHold'
  BY <1>7 DEF StopFinish
<1>8. ASSUME NEW d \in Device, AddDevice(d) PROVE CallsHold'
  BY <1>8 DEF AddDevice, StartThreads, Fresh, Registered
<1>9. ASSUME NEW d \in Device, BeginDisconnect(d) PROVE CallsHold'
  BY <1>9 DEF BeginDisconnect, Registered
<1>10. ASSUME NEW d \in Device, BeginReconnect(d) PROVE CallsHold'
  BY <1>10 DEF BeginReconnect, QualificationCycle, Fresh, CanReconnect, Registered,
     Phases, Sockets
<1>11. ASSUME NEW d \in Device, DisconnectSetStop(d) PROVE CallsHold'
  BY <1>11 DEF DisconnectSetStop
<1>12. ASSUME NEW d \in Device, DisconnectCloseClient(d) PROVE CallsHold'
  BY <1>12 DEF DisconnectCloseClient
<1>13. ASSUME NEW d \in Device, DisconnectJoined(d) PROVE CallsHold'
  BY <1>13 DEF DisconnectJoined, Alive, Qualifying
<1>14. ASSUME NEW d \in Device, DisconnectTimeout(d) PROVE CallsHold'
  BY <1>14 DEF DisconnectTimeout, Alive, Qualifying
<1>15. ASSUME NEW d \in Device, ReconnectUnqualified(d) PROVE CallsHold'
  BY <1>15 DEF ReconnectUnqualified
<1>16. ASSUME NEW d \in Device, ReconnectPublishStore(d) PROVE CallsHold'
  BY <1>16 DEF ReconnectPublishStore, Larger
<1>17. ASSUME NEW d \in Device, ReconnectPublishBus(d) PROVE CallsHold'
  BY <1>17 DEF ReconnectPublishBus
<1>18. ASSUME NEW d \in Device, ReconnectInstall(d) PROVE CallsHold'
  BY <1>18, SMTT(40) DEF ReconnectInstall
<1>19. ASSUME NEW d \in Device, ReconnectStartWorker(d) PROVE CallsHold'
  BY <1>19 DEF ReconnectStartWorker, StartThreads
<1>19a. ASSUME NEW d \in Device, ReconnectStartFails(d) PROVE CallsHold'
  BY <1>19a DEF ReconnectStartFails
<1>20. ASSUME NEW w \in Worker, Connect(w) PROVE CallsHold'
  BY <1>20, SMTT(40) DEF Connect, ReadFailed, AnswerEvidence, IsEvidence, Qualifying
<1>21. ASSUME NEW w \in Worker, TakeSocket(w) PROVE CallsHold'
  BY <1>21 DEF TakeSocket, AnswerEvidence, IsEvidence
<1>22. ASSUME NEW w \in Worker, Exchange(w) PROVE CallsHold'
  BY <1>22, SMTT(40) DEF Exchange, ReadDone, ReadFailed, AnswerEvidence, IsEvidence, Qualifying
<1>23. ASSUME NEW w \in Worker, LoopHead(w) PROVE CallsHold'
  BY <1>23 DEF LoopHead
<1>24. ASSUME NEW w \in Worker, BeginCycle(w) PROVE CallsHold'
  BY <1>24 DEF BeginCycle
<1>25. ASSUME NEW w \in Worker, BreakWait(w) PROVE CallsHold'
  BY <1>25 DEF BreakWait
<1>26. ASSUME NEW w \in Worker, StoreSample(w) PROVE CallsHold'
  BY <1>26 DEF StoreSample, Larger
<1>27. ASSUME NEW w \in Worker, PublishSample(w) PROVE CallsHold'
  BY <1>27 DEF PublishSample
<1>28. ASSUME NEW w \in Worker, StoreFailure(w) PROVE CallsHold'
  BY <1>28 DEF StoreFailure, Larger
<1>29. ASSUME NEW w \in Worker, PublishFailure(w) PROVE CallsHold'
  BY <1>29 DEF PublishFailure
<1>30. ASSUME NEW w \in Worker, CycleBoundary(w) PROVE CallsHold'
  BY <1>30 DEF CycleBoundary
<1>31. ASSUME NEW w \in Worker, FailPending(w) PROVE CallsHold'
  BY <1>31 DEF FailPending
<1>32. ASSUME NEW w \in Worker, FinalClose(w) PROVE CallsHold'
  BY <1>32 DEF FinalClose
<1>33. ASSUME NEW r \in Request, NEW d \in Device, FetchWorker(r, d) PROVE CallsHold'
  BY <1>33 DEF FetchWorker
<1>34. ASSUME NEW r \in Request, PostRequest(r) PROVE CallsHold'
  BY <1>34 DEF PostRequest
<1>35. CASE UNCHANGED vars
  BY <1>35 DEF vars
<1>. QED
  BY <1>1, <1>2, <1>3, <1>4, <1>5, <1>6, <1>7, <1>8, <1>9, <1>10, <1>11, <1>12, <1>13,
     <1>14, <1>15, <1>16, <1>17, <1>18, <1>19, <1>19a, <1>20, <1>21, <1>22, <1>23, <1>24, <1>25,
     <1>26, <1>27, <1>28, <1>29, <1>30, <1>31, <1>32, <1>33, <1>34, <1>35, ZenonT(60)
     DEF Next, OpStep, WorkerStep, StopStep

(* The dictionaries of the coordinator stay consistent. *)
LEMMA RegisteredNext == IndInv /\ [Next]_vars => Registered'
<1>. SUFFICES ASSUME IndInv, [Next]_vars PROVE Registered'
  OBVIOUS
<1>. USE DEF IndInv, Registered, CallsHold, TypeOK, CoordTypeOK, CallTypeOK, WorkerTypeOK,
             EvidenceTypeOK, LifecycleState, OpPc, StopPc, WorkerPc, ThreadPc, ReadPc,
             EndedPc, DisconnectPc, QualifiedPc, ReconnectPc,
           coordVars, opVars, stopVars, loopVars, clientVars, evidenceVars,
           requestVars, storeVars, Goto
<1>1. ASSUME Start PROVE Registered'
  <2>. DEFINE W == {w \in Worker : workers[DeviceOf[w]] = w}
  <2>1. StartThreads(W) /\ UNCHANGED <<workers, op, rpc, rworker>>
    BY <1>1 DEF Start
  <2>2. \A d \in Device : workers[d] # NoWorker
          <=> \E w \in W : DeviceOf[w] = d
    BY <2>1
  <2>3. \A d \in Device : workers[d] # NoWorker
          => threads'[d] \in W /\ DeviceOf[threads'[d]] = d /\ lifecycle'[d] = "RUNNING"
    BY <2>1, <2>2 DEF StartThreads
  <2>4. \A d \in Device : workers[d] = NoWorker
          => threads'[d] = threads[d] /\ lifecycle'[d] = lifecycle[d]
    BY <2>1, <2>2 DEF StartThreads
  <2>5. \A w \in Worker : wpc'[w] = "head" \/ wpc'[w] = wpc[w]
    BY <2>1 DEF StartThreads
  <2>6. \A w \in W : wpc'[w] = "head"
    BY <2>1 DEF StartThreads
  <2>7. \A d \in Device : workers[d] # NoWorker => wpc'[workers[d]] # "unborn"
    BY <2>5
  <2>8. ASSUME NEW d \in Device, workers[d] # NoWorker
        PROVE  /\ wpc'[threads'[d]] \in ThreadPc /\ DeviceOf[threads'[d]] = d
               /\ lifecycle'[d] = "RUNNING"
    BY <2>3, <2>6, <2>8
  <2>9. ASSUME NEW d \in Device, workers[d] = NoWorker, threads[d] # NoWorker
        PROVE  wpc'[threads[d]] \in ThreadPc \cup EndedPc
    BY <2>5, <2>9
  <2>. HIDE DEF W
  <2>10. ASSUME NEW d \in Device
         PROVE  /\ workers'[d] # NoWorker => /\ DeviceOf[workers'[d]] = d
                                             /\ wpc'[workers'[d]] # "unborn"
                /\ threads'[d] # NoWorker => /\ DeviceOf[threads'[d]] = d
                                             /\ wpc'[threads'[d]] \in ThreadPc \cup EndedPc
                /\ lifecycle'[d] \in {"RUNNING", "DISCONNECTING"}
                     => threads'[d] # NoWorker /\ workers'[d] # NoWorker
                /\ lifecycle'[d] = "UNREGISTERED"
                     => op'[d] = "idle" /\ threads'[d] = NoWorker /\ workers'[d] = NoWorker
    <3>1. CASE workers[d] = NoWorker
      BY <2>1, <2>4, <2>9, <3>1
    <3>2. CASE workers[d] # NoWorker
      <4>1. threads'[d] # NoWorker
        BY <2>3, <3>2, AcquisitionAssumption DEF W
      <4>. QED
        BY <2>1, <2>7, <2>8, <3>2, <4>1
    <3>. QED
      BY <3>1, <3>2
  <2>. QED
    BY <2>1, <2>10
<1>2. ASSUME StopBegin PROVE Registered'
  BY <1>2 DEF StopBegin
<1>3. ASSUME StopSnapshot PROVE Registered'
  BY <1>3 DEF StopSnapshot
<1>4. ASSUME StopSignal PROVE Registered'
  BY <1>4 DEF StopSignal
<1>5. ASSUME StopClose PROVE Registered'
  BY <1>5 DEF StopClose
<1>6. ASSUME StopJoin PROVE Registered'
  BY <1>6 DEF StopJoin, Alive, Qualifying
<1>7. ASSUME StopFinish PROVE Registered'
  BY <1>7 DEF StopFinish
<1>8. ASSUME NEW d \in Device, AddDevice(d) PROVE Registered'
  BY <1>8 DEF AddDevice, StartThreads, Fresh
<1>9. ASSUME NEW d \in Device, BeginDisconnect(d) PROVE Registered'
  BY <1>9 DEF BeginDisconnect
<1>10. ASSUME NEW d \in Device, BeginReconnect(d) PROVE Registered'
  BY <1>10 DEF BeginReconnect, QualificationCycle, Fresh, CanReconnect
<1>11. ASSUME NEW d \in Device, DisconnectSetStop(d) PROVE Registered'
  BY <1>11 DEF DisconnectSetStop
<1>12. ASSUME NEW d \in Device, DisconnectCloseClient(d) PROVE Registered'
  BY <1>12 DEF DisconnectCloseClient
<1>13. ASSUME NEW d \in Device, DisconnectJoined(d) PROVE Registered'
  BY <1>13 DEF DisconnectJoined, Alive, Qualifying
<1>14. ASSUME NEW d \in Device, DisconnectTimeout(d) PROVE Registered'
  BY <1>14 DEF DisconnectTimeout, Alive, Qualifying
<1>15. ASSUME NEW d \in Device, ReconnectUnqualified(d) PROVE Registered'
  BY <1>15 DEF ReconnectUnqualified
<1>16. ASSUME NEW d \in Device, ReconnectPublishStore(d) PROVE Registered'
  BY <1>16 DEF ReconnectPublishStore, Larger
<1>17. ASSUME NEW d \in Device, ReconnectPublishBus(d) PROVE Registered'
  BY <1>17 DEF ReconnectPublishBus
<1>18. ASSUME NEW d \in Device, ReconnectInstall(d) PROVE Registered'
  BY <1>18 DEF ReconnectInstall
<1>19. ASSUME NEW d \in Device, ReconnectStartWorker(d) PROVE Registered'
  BY <1>19 DEF ReconnectStartWorker, StartThreads
<1>19a. ASSUME NEW d \in Device, ReconnectStartFails(d) PROVE Registered'
  BY <1>19a DEF ReconnectStartFails
<1>20. ASSUME NEW w \in Worker, Connect(w) PROVE Registered'
  BY <1>20 DEF Connect, ReadFailed, AnswerEvidence, IsEvidence, Qualifying, NoThread, Ended
<1>21. ASSUME NEW w \in Worker, TakeSocket(w) PROVE Registered'
  BY <1>21 DEF TakeSocket, AnswerEvidence, IsEvidence
<1>22. ASSUME NEW w \in Worker, Exchange(w) PROVE Registered'
  BY <1>22 DEF Exchange, ReadDone, ReadFailed, AnswerEvidence, IsEvidence, Qualifying,
     NoThread, Ended
<1>23. ASSUME NEW w \in Worker, LoopHead(w) PROVE Registered'
  BY <1>23 DEF LoopHead
<1>24. ASSUME NEW w \in Worker, BeginCycle(w) PROVE Registered'
  BY <1>24 DEF BeginCycle
<1>25. ASSUME NEW w \in Worker, BreakWait(w) PROVE Registered'
  BY <1>25 DEF BreakWait
<1>26. ASSUME NEW w \in Worker, StoreSample(w) PROVE Registered'
  BY <1>26 DEF StoreSample, Larger
<1>27. ASSUME NEW w \in Worker, PublishSample(w) PROVE Registered'
  BY <1>27 DEF PublishSample
<1>28. ASSUME NEW w \in Worker, StoreFailure(w) PROVE Registered'
  BY <1>28 DEF StoreFailure, Larger
<1>29. ASSUME NEW w \in Worker, PublishFailure(w) PROVE Registered'
  BY <1>29 DEF PublishFailure
<1>30. ASSUME NEW w \in Worker, CycleBoundary(w) PROVE Registered'
  BY <1>30, SMTT(40) DEF CycleBoundary
<1>31. ASSUME NEW w \in Worker, FailPending(w) PROVE Registered'
  BY <1>31 DEF FailPending
<1>32. ASSUME NEW w \in Worker, FinalClose(w) PROVE Registered'
  BY <1>32 DEF FinalClose
<1>33. ASSUME NEW r \in Request, NEW d \in Device, FetchWorker(r, d) PROVE Registered'
  BY <1>33 DEF FetchWorker
<1>34. ASSUME NEW r \in Request, PostRequest(r) PROVE Registered'
  BY <1>34 DEF PostRequest
<1>35. CASE UNCHANGED vars
  BY <1>35 DEF vars
<1>. QED
  BY <1>1, <1>2, <1>3, <1>4, <1>5, <1>6, <1>7, <1>8, <1>9, <1>10, <1>11, <1>12, <1>13,
     <1>14, <1>15, <1>16, <1>17, <1>18, <1>19, <1>19a, <1>20, <1>21, <1>22, <1>23, <1>24, <1>25,
     <1>26, <1>27, <1>28, <1>29, <1>30, <1>31, <1>32, <1>33, <1>34, <1>35, ZenonT(60)
     DEF Next, OpStep, WorkerStep, StopStep

(* A device that is disconnected or being reconnected gets no live thread. *)
LEMMA NoThreadNext == IndInv /\ [Next]_vars => NoThread'
<1>. SUFFICES ASSUME IndInv, [Next]_vars PROVE NoThread'
  OBVIOUS
<1>. USE DEF IndInv, NoThread, Ended, Registered, CallsHold, Phases, TypeOK, CoordTypeOK,
             CallTypeOK, WorkerTypeOK, LifecycleState, OpPc, StopPc, WorkerPc, ThreadPc,
             ReadPc, EndedPc, DisconnectPc, QualifiedPc, ReconnectPc,
           coordVars, opVars, stopVars, loopVars, clientVars, evidenceVars,
           requestVars, storeVars, Goto
<1>1. ASSUME Start PROVE NoThread'
  BY <1>1 DEF Start, StartThreads
<1>2. ASSUME StopBegin PROVE NoThread'
  BY <1>2 DEF StopBegin
<1>3. ASSUME StopSnapshot PROVE NoThread'
  BY <1>3 DEF StopSnapshot
<1>4. ASSUME StopSignal PROVE NoThread'
  BY <1>4 DEF StopSignal
<1>5. ASSUME StopClose PROVE NoThread'
  BY <1>5 DEF StopClose
<1>6. ASSUME StopJoin PROVE NoThread'
  BY <1>6 DEF StopJoin, Alive, Qualifying
<1>7. ASSUME StopFinish PROVE NoThread'
  BY <1>7 DEF StopFinish
<1>8. ASSUME NEW d \in Device, AddDevice(d) PROVE NoThread'
  BY <1>8 DEF AddDevice, StartThreads, Fresh
<1>9. ASSUME NEW d \in Device, BeginDisconnect(d) PROVE NoThread'
  BY <1>9 DEF BeginDisconnect
<1>10. ASSUME NEW d \in Device, BeginReconnect(d) PROVE NoThread'
  BY <1>10 DEF BeginReconnect, QualificationCycle, Fresh, CanReconnect
<1>11. ASSUME NEW d \in Device, DisconnectSetStop(d) PROVE NoThread'
  BY <1>11 DEF DisconnectSetStop
<1>12. ASSUME NEW d \in Device, DisconnectCloseClient(d) PROVE NoThread'
  BY <1>12 DEF DisconnectCloseClient
<1>13. ASSUME NEW d \in Device, DisconnectJoined(d) PROVE NoThread'
  BY <1>13 DEF DisconnectJoined, Alive, Qualifying
<1>14. ASSUME NEW d \in Device, DisconnectTimeout(d) PROVE NoThread'
  BY <1>14 DEF DisconnectTimeout, Alive, Qualifying
<1>15. ASSUME NEW d \in Device, ReconnectUnqualified(d) PROVE NoThread'
  BY <1>15 DEF ReconnectUnqualified
<1>16. ASSUME NEW d \in Device, ReconnectPublishStore(d) PROVE NoThread'
  BY <1>16 DEF ReconnectPublishStore, Larger
<1>17. ASSUME NEW d \in Device, ReconnectPublishBus(d) PROVE NoThread'
  BY <1>17 DEF ReconnectPublishBus
<1>18. ASSUME NEW d \in Device, ReconnectInstall(d) PROVE NoThread'
  BY <1>18 DEF ReconnectInstall
<1>19. ASSUME NEW d \in Device, ReconnectStartWorker(d) PROVE NoThread'
  BY <1>19 DEF ReconnectStartWorker, StartThreads
<1>19a. ASSUME NEW d \in Device, ReconnectStartFails(d) PROVE NoThread'
  BY <1>19a DEF ReconnectStartFails
<1>20. ASSUME NEW w \in Worker, Connect(w) PROVE NoThread'
  BY <1>20 DEF Connect, ReadFailed, AnswerEvidence, IsEvidence, Qualifying
<1>21. ASSUME NEW w \in Worker, TakeSocket(w) PROVE NoThread'
  BY <1>21 DEF TakeSocket, AnswerEvidence, IsEvidence
<1>22. ASSUME NEW w \in Worker, Exchange(w) PROVE NoThread'
  BY <1>22 DEF Exchange, ReadDone, ReadFailed, AnswerEvidence, IsEvidence, Qualifying
<1>23. ASSUME NEW w \in Worker, LoopHead(w) PROVE NoThread'
  BY <1>23 DEF LoopHead
<1>24. ASSUME NEW w \in Worker, BeginCycle(w) PROVE NoThread'
  BY <1>24 DEF BeginCycle
<1>25. ASSUME NEW w \in Worker, BreakWait(w) PROVE NoThread'
  BY <1>25 DEF BreakWait
<1>26. ASSUME NEW w \in Worker, StoreSample(w) PROVE NoThread'
  BY <1>26 DEF StoreSample, Larger
<1>27. ASSUME NEW w \in Worker, PublishSample(w) PROVE NoThread'
  BY <1>27 DEF PublishSample
<1>28. ASSUME NEW w \in Worker, StoreFailure(w) PROVE NoThread'
  BY <1>28 DEF StoreFailure, Larger
<1>29. ASSUME NEW w \in Worker, PublishFailure(w) PROVE NoThread'
  BY <1>29 DEF PublishFailure
<1>30. ASSUME NEW w \in Worker, CycleBoundary(w) PROVE NoThread'
  BY <1>30 DEF CycleBoundary
<1>31. ASSUME NEW w \in Worker, FailPending(w) PROVE NoThread'
  BY <1>31 DEF FailPending
<1>32. ASSUME NEW w \in Worker, FinalClose(w) PROVE NoThread'
  BY <1>32 DEF FinalClose
<1>33. ASSUME NEW r \in Request, NEW d \in Device, FetchWorker(r, d) PROVE NoThread'
  BY <1>33 DEF FetchWorker
<1>34. ASSUME NEW r \in Request, PostRequest(r) PROVE NoThread'
  BY <1>34 DEF PostRequest
<1>35. CASE UNCHANGED vars
  BY <1>35 DEF vars
<1>. QED
  BY <1>1, <1>2, <1>3, <1>4, <1>5, <1>6, <1>7, <1>8, <1>9, <1>10, <1>11, <1>12, <1>13,
     <1>14, <1>15, <1>16, <1>17, <1>18, <1>19, <1>19a, <1>20, <1>21, <1>22, <1>23, <1>24, <1>25,
     <1>26, <1>27, <1>28, <1>29, <1>30, <1>31, <1>32, <1>33, <1>34, <1>35, ZenonT(60)
     DEF Next, OpStep, WorkerStep, StopStep

(* The phases of start() and stop() are kept. *)
LEMMA PhasesNext == IndInv /\ [Next]_vars => Phases'
<1>. SUFFICES ASSUME IndInv, [Next]_vars PROVE Phases'
  OBVIOUS
<1>. USE DEF IndInv, Phases, CallsHold, Registered, TypeOK, CoordTypeOK, CallTypeOK,
             WorkerTypeOK, LifecycleState, OpPc, StopPc, WorkerPc, ThreadPc, ReadPc,
             EndedPc, DisconnectPc, QualifiedPc, ReconnectPc,
           coordVars, opVars, stopVars, loopVars, clientVars, evidenceVars,
           requestVars, storeVars, Goto
<1>1. ASSUME Start PROVE Phases'
  BY <1>1 DEF Start, StartThreads
<1>2. ASSUME StopBegin PROVE Phases'
  BY <1>2 DEF StopBegin
<1>3. ASSUME StopSnapshot PROVE Phases'
  BY <1>3 DEF StopSnapshot
<1>4. ASSUME StopSignal PROVE Phases'
  BY <1>4 DEF StopSignal
<1>5. ASSUME StopClose PROVE Phases'
  BY <1>5 DEF StopClose
<1>6. ASSUME StopJoin PROVE Phases'
  BY <1>6 DEF StopJoin, Alive, Qualifying
<1>7. ASSUME StopFinish PROVE Phases'
  BY <1>7 DEF StopFinish
<1>8. ASSUME NEW d \in Device, AddDevice(d) PROVE Phases'
  BY <1>8 DEF AddDevice, StartThreads, Fresh
<1>9. ASSUME NEW d \in Device, BeginDisconnect(d) PROVE Phases'
  BY <1>9 DEF BeginDisconnect
<1>10. ASSUME NEW d \in Device, BeginReconnect(d) PROVE Phases'
  BY <1>10 DEF BeginReconnect, QualificationCycle, Fresh, CanReconnect
<1>11. ASSUME NEW d \in Device, DisconnectSetStop(d) PROVE Phases'
  BY <1>11 DEF DisconnectSetStop
<1>12. ASSUME NEW d \in Device, DisconnectCloseClient(d) PROVE Phases'
  BY <1>12 DEF DisconnectCloseClient
<1>13. ASSUME NEW d \in Device, DisconnectJoined(d) PROVE Phases'
  BY <1>13 DEF DisconnectJoined, Alive, Qualifying
<1>14. ASSUME NEW d \in Device, DisconnectTimeout(d) PROVE Phases'
  BY <1>14 DEF DisconnectTimeout, Alive, Qualifying
<1>15. ASSUME NEW d \in Device, ReconnectUnqualified(d) PROVE Phases'
  BY <1>15 DEF ReconnectUnqualified
<1>16. ASSUME NEW d \in Device, ReconnectPublishStore(d) PROVE Phases'
  BY <1>16 DEF ReconnectPublishStore, Larger
<1>17. ASSUME NEW d \in Device, ReconnectPublishBus(d) PROVE Phases'
  BY <1>17 DEF ReconnectPublishBus
<1>18. ASSUME NEW d \in Device, ReconnectInstall(d) PROVE Phases'
  BY <1>18 DEF ReconnectInstall
<1>19. ASSUME NEW d \in Device, ReconnectStartWorker(d) PROVE Phases'
  BY <1>19 DEF ReconnectStartWorker, StartThreads
<1>19a. ASSUME NEW d \in Device, ReconnectStartFails(d) PROVE Phases'
  BY <1>19a DEF ReconnectStartFails
<1>20. ASSUME NEW w \in Worker, Connect(w) PROVE Phases'
  BY <1>20 DEF Connect, ReadFailed, AnswerEvidence, IsEvidence, Qualifying
<1>21. ASSUME NEW w \in Worker, TakeSocket(w) PROVE Phases'
  BY <1>21 DEF TakeSocket, AnswerEvidence, IsEvidence
<1>22. ASSUME NEW w \in Worker, Exchange(w) PROVE Phases'
  BY <1>22 DEF Exchange, ReadDone, ReadFailed, AnswerEvidence, IsEvidence, Qualifying
<1>23. ASSUME NEW w \in Worker, LoopHead(w) PROVE Phases'
  BY <1>23 DEF LoopHead
<1>24. ASSUME NEW w \in Worker, BeginCycle(w) PROVE Phases'
  BY <1>24 DEF BeginCycle
<1>25. ASSUME NEW w \in Worker, BreakWait(w) PROVE Phases'
  BY <1>25 DEF BreakWait
<1>26. ASSUME NEW w \in Worker, StoreSample(w) PROVE Phases'
  BY <1>26 DEF StoreSample, Larger
<1>27. ASSUME NEW w \in Worker, PublishSample(w) PROVE Phases'
  BY <1>27 DEF PublishSample
<1>28. ASSUME NEW w \in Worker, StoreFailure(w) PROVE Phases'
  BY <1>28 DEF StoreFailure, Larger
<1>29. ASSUME NEW w \in Worker, PublishFailure(w) PROVE Phases'
  BY <1>29 DEF PublishFailure
<1>30. ASSUME NEW w \in Worker, CycleBoundary(w) PROVE Phases'
  BY <1>30 DEF CycleBoundary
<1>31. ASSUME NEW w \in Worker, FailPending(w) PROVE Phases'
  BY <1>31 DEF FailPending
<1>32. ASSUME NEW w \in Worker, FinalClose(w) PROVE Phases'
  BY <1>32 DEF FinalClose
<1>33. ASSUME NEW r \in Request, NEW d \in Device, FetchWorker(r, d) PROVE Phases'
  BY <1>33 DEF FetchWorker
<1>34. ASSUME NEW r \in Request, PostRequest(r) PROVE Phases'
  BY <1>34 DEF PostRequest
<1>35. CASE UNCHANGED vars
  BY <1>35 DEF vars
<1>. QED
  BY <1>1, <1>2, <1>3, <1>4, <1>5, <1>6, <1>7, <1>8, <1>9, <1>10, <1>11, <1>12, <1>13,
     <1>14, <1>15, <1>16, <1>17, <1>18, <1>19, <1>19a, <1>20, <1>21, <1>22, <1>23, <1>24, <1>25,
     <1>26, <1>27, <1>28, <1>29, <1>30, <1>31, <1>32, <1>33, <1>34, <1>35, ZenonT(60)
     DEF Next, OpStep, WorkerStep, StopStep

(* The socket and the thread of a device stay with its current worker. *)
LEMMA SocketsNext == IndInv /\ [Next]_vars => Sockets'
<1>. SUFFICES ASSUME IndInv, [Next]_vars PROVE Sockets'
  OBVIOUS
<1>. USE DEF IndInv, Sockets, Owns, Current, NoThread, Ended, Registered, CallsHold, Phases,
             TypeOK, CoordTypeOK, CallTypeOK, WorkerTypeOK, LifecycleState, OpPc, StopPc,
             WorkerPc, ThreadPc, ReadPc, EndedPc, DisconnectPc, QualifiedPc, ReconnectPc,
           coordVars, opVars, stopVars, loopVars, clientVars, evidenceVars,
           requestVars, storeVars, Goto
<1>1. ASSUME Start PROVE Sockets'
  BY <1>1 DEF Start, StartThreads
<1>2. ASSUME StopBegin PROVE Sockets'
  BY <1>2 DEF StopBegin
<1>3. ASSUME StopSnapshot PROVE Sockets'
  BY <1>3 DEF StopSnapshot
<1>4. ASSUME StopSignal PROVE Sockets'
  BY <1>4 DEF StopSignal
<1>5. ASSUME StopClose PROVE Sockets'
  BY <1>5 DEF StopClose
<1>6. ASSUME StopJoin PROVE Sockets'
  BY <1>6 DEF StopJoin, Alive, Qualifying
<1>7. ASSUME StopFinish PROVE Sockets'
  BY <1>7 DEF StopFinish
<1>8. ASSUME NEW d \in Device, AddDevice(d) PROVE Sockets'
  BY <1>8 DEF AddDevice, StartThreads, Fresh
<1>9. ASSUME NEW d \in Device, BeginDisconnect(d) PROVE Sockets'
  BY <1>9 DEF BeginDisconnect
<1>10. ASSUME NEW d \in Device, BeginReconnect(d) PROVE Sockets'
  BY <1>10 DEF BeginReconnect, QualificationCycle, Fresh, CanReconnect
<1>11. ASSUME NEW d \in Device, DisconnectSetStop(d) PROVE Sockets'
  BY <1>11 DEF DisconnectSetStop
<1>12. ASSUME NEW d \in Device, DisconnectCloseClient(d) PROVE Sockets'
  BY <1>12 DEF DisconnectCloseClient
<1>13. ASSUME NEW d \in Device, DisconnectJoined(d) PROVE Sockets'
  BY <1>13 DEF DisconnectJoined, Alive, Qualifying
<1>14. ASSUME NEW d \in Device, DisconnectTimeout(d) PROVE Sockets'
  BY <1>14 DEF DisconnectTimeout, Alive, Qualifying
<1>15. ASSUME NEW d \in Device, ReconnectUnqualified(d) PROVE Sockets'
  BY <1>15 DEF ReconnectUnqualified
<1>16. ASSUME NEW d \in Device, ReconnectPublishStore(d) PROVE Sockets'
  BY <1>16 DEF ReconnectPublishStore, Larger
<1>17. ASSUME NEW d \in Device, ReconnectPublishBus(d) PROVE Sockets'
  BY <1>17 DEF ReconnectPublishBus
<1>18. ASSUME NEW d \in Device, ReconnectInstall(d) PROVE Sockets'
  BY <1>18, SMTT(30) DEF ReconnectInstall
<1>19. ASSUME NEW d \in Device, ReconnectStartWorker(d) PROVE Sockets'
  BY <1>19 DEF ReconnectStartWorker, StartThreads
<1>19a. ASSUME NEW d \in Device, ReconnectStartFails(d) PROVE Sockets'
  BY <1>19a DEF ReconnectStartFails
<1>20. ASSUME NEW w \in Worker, Connect(w) PROVE Sockets'
  BY <1>20 DEF Connect, ReadFailed, AnswerEvidence, IsEvidence, Qualifying
<1>21. ASSUME NEW w \in Worker, TakeSocket(w) PROVE Sockets'
  BY <1>21 DEF TakeSocket, AnswerEvidence, IsEvidence
<1>22. ASSUME NEW w \in Worker, Exchange(w) PROVE Sockets'
  BY <1>22 DEF Exchange, ReadDone, ReadFailed, AnswerEvidence, IsEvidence, Qualifying
<1>23. ASSUME NEW w \in Worker, LoopHead(w) PROVE Sockets'
  BY <1>23 DEF LoopHead
<1>24. ASSUME NEW w \in Worker, BeginCycle(w) PROVE Sockets'
  BY <1>24 DEF BeginCycle
<1>25. ASSUME NEW w \in Worker, BreakWait(w) PROVE Sockets'
  BY <1>25 DEF BreakWait
<1>26. ASSUME NEW w \in Worker, StoreSample(w) PROVE Sockets'
  BY <1>26 DEF StoreSample, Larger
<1>27. ASSUME NEW w \in Worker, PublishSample(w) PROVE Sockets'
  BY <1>27 DEF PublishSample
<1>28. ASSUME NEW w \in Worker, StoreFailure(w) PROVE Sockets'
  BY <1>28 DEF StoreFailure, Larger
<1>29. ASSUME NEW w \in Worker, PublishFailure(w) PROVE Sockets'
  BY <1>29 DEF PublishFailure
<1>30. ASSUME NEW w \in Worker, CycleBoundary(w) PROVE Sockets'
  BY <1>30 DEF CycleBoundary
<1>31. ASSUME NEW w \in Worker, FailPending(w) PROVE Sockets'
  BY <1>31 DEF FailPending
<1>32. ASSUME NEW w \in Worker, FinalClose(w) PROVE Sockets'
  BY <1>32 DEF FinalClose
<1>33. ASSUME NEW r \in Request, NEW d \in Device, FetchWorker(r, d) PROVE Sockets'
  BY <1>33 DEF FetchWorker
<1>34. ASSUME NEW r \in Request, PostRequest(r) PROVE Sockets'
  BY <1>34 DEF PostRequest
<1>35. CASE UNCHANGED vars
  BY <1>35 DEF vars
<1>. QED
  BY <1>1, <1>2, <1>3, <1>4, <1>5, <1>6, <1>7, <1>8, <1>9, <1>10, <1>11, <1>12, <1>13,
     <1>14, <1>15, <1>16, <1>17, <1>18, <1>19, <1>19a, <1>20, <1>21, <1>22, <1>23, <1>24, <1>25,
     <1>26, <1>27, <1>28, <1>29, <1>30, <1>31, <1>32, <1>33, <1>34, <1>35, ZenonT(60)
     DEF Next, OpStep, WorkerStep, StopStep

(* Cycle ids stay ahead of the newest sample. *)
LEMMA CycleIdsNext == IndInv /\ [Next]_vars => CycleIds'
<1>. SUFFICES ASSUME IndInv, [Next]_vars PROVE CycleIds'
  OBVIOUS
<1>. USE DEF IndInv, CycleIds, NoThread, Ended, Registered, CallsHold, Phases, IsEvidence,
             TypeOK, CoordTypeOK, CallTypeOK, WorkerTypeOK, EvidenceTypeOK, StoreTypeOK,
             LifecycleState, OpPc, StopPc, WorkerPc, ThreadPc, ReadPc, EndedPc,
             DisconnectPc, QualifiedPc, ReconnectPc,
           coordVars, opVars, stopVars, loopVars, clientVars, evidenceVars,
           requestVars, storeVars, Goto
<1>1. ASSUME Start PROVE CycleIds'
  <2>1. ASSUME NEW d \in Device PROVE threads'[d] = workers[d]
    <3>1. CASE workers[d] = NoWorker
      BY <1>1, <3>1 DEF Start, StartThreads
    <3>2. CASE workers[d] # NoWorker
      <4>1. workers[d] \in {w \in Worker : workers[DeviceOf[w]] = w} /\ DeviceOf[workers[d]] = d
        BY <3>2
      <4>2. \A w \in {v \in Worker : workers[DeviceOf[v]] = v} : DeviceOf[w] = d => w = workers[d]
        OBVIOUS
      <4>. QED
        BY <1>1, <4>1, <4>2 DEF Start, StartThreads
    <3>. QED
      BY <3>1, <3>2
  <2>2. ASSUME NEW d \in Device, workers[d] # NoWorker PROVE wpc'[workers[d]] = "head"
    BY <1>1, <2>2 DEF Start, StartThreads
  <2>3. /\ op' = op /\ lastSample' = lastSample /\ cyc' = cyc /\ held' = held
        /\ started' /\ \A d \in Device : op[d] = "idle"
    BY <1>1 DEF Start, StartThreads
  <2>. QED
    BY <1>1, <2>1, <2>2, <2>3 DEF Start
<1>2. ASSUME StopBegin PROVE CycleIds'
  BY <1>2 DEF StopBegin
<1>3. ASSUME StopSnapshot PROVE CycleIds'
  BY <1>3 DEF StopSnapshot
<1>4. ASSUME StopSignal PROVE CycleIds'
  BY <1>4 DEF StopSignal
<1>5. ASSUME StopClose PROVE CycleIds'
  BY <1>5 DEF StopClose
<1>6. ASSUME StopJoin PROVE CycleIds'
  BY <1>6 DEF StopJoin, Alive, Qualifying
<1>7. ASSUME StopFinish PROVE CycleIds'
  BY <1>7 DEF StopFinish
<1>8. ASSUME NEW d \in Device, AddDevice(d) PROVE CycleIds'
  BY <1>8 DEF AddDevice, StartThreads, Fresh
<1>9. ASSUME NEW d \in Device, BeginDisconnect(d) PROVE CycleIds'
  BY <1>9 DEF BeginDisconnect
<1>10. ASSUME NEW d \in Device, BeginReconnect(d) PROVE CycleIds'
  BY <1>10 DEF BeginReconnect, QualificationCycle, Fresh, CanReconnect
<1>11. ASSUME NEW d \in Device, DisconnectSetStop(d) PROVE CycleIds'
  BY <1>11 DEF DisconnectSetStop
<1>12. ASSUME NEW d \in Device, DisconnectCloseClient(d) PROVE CycleIds'
  BY <1>12 DEF DisconnectCloseClient
<1>13. ASSUME NEW d \in Device, DisconnectJoined(d) PROVE CycleIds'
  BY <1>13 DEF DisconnectJoined, Alive, Qualifying
<1>14. ASSUME NEW d \in Device, DisconnectTimeout(d) PROVE CycleIds'
  BY <1>14 DEF DisconnectTimeout, Alive, Qualifying
<1>15. ASSUME NEW d \in Device, ReconnectUnqualified(d) PROVE CycleIds'
  BY <1>15 DEF ReconnectUnqualified
<1>16. ASSUME NEW d \in Device, ReconnectPublishStore(d) PROVE CycleIds'
  BY <1>16, SMTT(30) DEF ReconnectPublishStore, Larger
<1>17. ASSUME NEW d \in Device, ReconnectPublishBus(d) PROVE CycleIds'
  BY <1>17 DEF ReconnectPublishBus
<1>18. ASSUME NEW d \in Device, ReconnectInstall(d) PROVE CycleIds'
  BY <1>18 DEF ReconnectInstall
<1>19. ASSUME NEW d \in Device, ReconnectStartWorker(d) PROVE CycleIds'
  BY <1>19 DEF ReconnectStartWorker, StartThreads
<1>19a. ASSUME NEW d \in Device, ReconnectStartFails(d) PROVE CycleIds'
  BY <1>19a DEF ReconnectStartFails
<1>20. ASSUME NEW w \in Worker, Connect(w) PROVE CycleIds'
  BY <1>20 DEF Connect, ReadFailed, AnswerEvidence, IsEvidence, Qualifying
<1>21. ASSUME NEW w \in Worker, TakeSocket(w) PROVE CycleIds'
  BY <1>21 DEF TakeSocket, AnswerEvidence, IsEvidence
<1>22. ASSUME NEW w \in Worker, Exchange(w) PROVE CycleIds'
  BY <1>22 DEF Exchange, ReadDone, ReadFailed, AnswerEvidence, IsEvidence, Qualifying
<1>23. ASSUME NEW w \in Worker, LoopHead(w) PROVE CycleIds'
  BY <1>23 DEF LoopHead
<1>24. ASSUME NEW w \in Worker, BeginCycle(w) PROVE CycleIds'
  BY <1>24 DEF BeginCycle
<1>25. ASSUME NEW w \in Worker, BreakWait(w) PROVE CycleIds'
  BY <1>25 DEF BreakWait
<1>26. ASSUME NEW w \in Worker, StoreSample(w) PROVE CycleIds'
  BY <1>26 DEF StoreSample, Larger, Sockets, Owns, Current
<1>27. ASSUME NEW w \in Worker, PublishSample(w) PROVE CycleIds'
  BY <1>27 DEF PublishSample
<1>28. ASSUME NEW w \in Worker, StoreFailure(w) PROVE CycleIds'
  BY <1>28 DEF StoreFailure, Larger
<1>29. ASSUME NEW w \in Worker, PublishFailure(w) PROVE CycleIds'
  BY <1>29 DEF PublishFailure
<1>30. ASSUME NEW w \in Worker, CycleBoundary(w) PROVE CycleIds'
  BY <1>30 DEF CycleBoundary
<1>31. ASSUME NEW w \in Worker, FailPending(w) PROVE CycleIds'
  BY <1>31 DEF FailPending
<1>32. ASSUME NEW w \in Worker, FinalClose(w) PROVE CycleIds'
  BY <1>32 DEF FinalClose
<1>33. ASSUME NEW r \in Request, NEW d \in Device, FetchWorker(r, d) PROVE CycleIds'
  BY <1>33 DEF FetchWorker
<1>34. ASSUME NEW r \in Request, PostRequest(r) PROVE CycleIds'
  BY <1>34 DEF PostRequest
<1>35. CASE UNCHANGED vars
  BY <1>35 DEF vars
<1>. QED
  BY <1>1, <1>2, <1>3, <1>4, <1>5, <1>6, <1>7, <1>8, <1>9, <1>10, <1>11, <1>12, <1>13,
     <1>14, <1>15, <1>16, <1>17, <1>18, <1>19, <1>19a, <1>20, <1>21, <1>22, <1>23, <1>24, <1>25,
     <1>26, <1>27, <1>28, <1>29, <1>30, <1>31, <1>32, <1>33, <1>34, <1>35, ZenonT(60)
     DEF Next, OpStep, WorkerStep, StopStep

(* A step that stores a sample stores a newer one. *)
LEMMA FreshStep == IndInv /\ [Next]_vars => FreshSample
<1>. SUFFICES ASSUME IndInv, [Next]_vars PROVE FreshSample
  OBVIOUS
<1>. USE DEF IndInv, FreshSample, SampleStored, Sockets, Owns, Current, CycleIds, CallsHold,
             Registered, IsEvidence, TypeOK, CoordTypeOK, CallTypeOK, WorkerTypeOK,
             StoreTypeOK, LifecycleState, OpPc, StopPc, WorkerPc, ThreadPc, ReadPc, EndedPc,
             DisconnectPc, QualifiedPc, ReconnectPc,
           coordVars, opVars, stopVars, loopVars, clientVars, evidenceVars,
           requestVars, storeVars, Goto
<1>1. ASSUME Start PROVE FreshSample
  BY <1>1 DEF Start, StartThreads
<1>2. ASSUME StopBegin PROVE FreshSample
  BY <1>2 DEF StopBegin
<1>3. ASSUME StopSnapshot PROVE FreshSample
  BY <1>3 DEF StopSnapshot
<1>4. ASSUME StopSignal PROVE FreshSample
  BY <1>4 DEF StopSignal
<1>5. ASSUME StopClose PROVE FreshSample
  BY <1>5 DEF StopClose
<1>6. ASSUME StopJoin PROVE FreshSample
  BY <1>6 DEF StopJoin, Alive, Qualifying
<1>7. ASSUME StopFinish PROVE FreshSample
  BY <1>7 DEF StopFinish
<1>8. ASSUME NEW d \in Device, AddDevice(d) PROVE FreshSample
  BY <1>8 DEF AddDevice, StartThreads, Fresh
<1>9. ASSUME NEW d \in Device, BeginDisconnect(d) PROVE FreshSample
  BY <1>9 DEF BeginDisconnect
<1>10. ASSUME NEW d \in Device, BeginReconnect(d) PROVE FreshSample
  BY <1>10 DEF BeginReconnect, QualificationCycle, Fresh, CanReconnect
<1>11. ASSUME NEW d \in Device, DisconnectSetStop(d) PROVE FreshSample
  BY <1>11 DEF DisconnectSetStop
<1>12. ASSUME NEW d \in Device, DisconnectCloseClient(d) PROVE FreshSample
  BY <1>12 DEF DisconnectCloseClient
<1>13. ASSUME NEW d \in Device, DisconnectJoined(d) PROVE FreshSample
  BY <1>13 DEF DisconnectJoined, Alive, Qualifying
<1>14. ASSUME NEW d \in Device, DisconnectTimeout(d) PROVE FreshSample
  BY <1>14 DEF DisconnectTimeout, Alive, Qualifying
<1>15. ASSUME NEW d \in Device, ReconnectUnqualified(d) PROVE FreshSample
  BY <1>15 DEF ReconnectUnqualified
<1>16. ASSUME NEW d \in Device, ReconnectPublishStore(d) PROVE FreshSample
  BY <1>16 DEF ReconnectPublishStore, Larger
<1>17. ASSUME NEW d \in Device, ReconnectPublishBus(d) PROVE FreshSample
  <2>1. \A e \in Device : ~(op[e] = "publishStore" /\ op'[e] = "publishBus")
    BY <1>17 DEF ReconnectPublishBus
  <2>2. \A w \in Worker : ~(wpc[w] = "store" /\ wpc'[w] = "bus")
    BY <1>17 DEF ReconnectPublishBus
  <2>. QED
    BY <2>1, <2>2
<1>18. ASSUME NEW d \in Device, ReconnectInstall(d) PROVE FreshSample
  <2>1. wpc' = wpc \/ wpc' = [wpc EXCEPT ![held[d]] = "dropped"]
    BY <1>18 DEF ReconnectInstall
  <2>2. op' = [op EXCEPT ![d] = "idle"] \/ op' = [op EXCEPT ![d] = "startWorker"]
    BY <1>18 DEF ReconnectInstall
  <2>3. \A e \in Device : ~(op[e] = "publishStore" /\ op'[e] = "publishBus")
    BY <2>2, SMTT(40)
  <2>4. \A w \in Worker : ~(wpc[w] = "store" /\ wpc'[w] = "bus")
    <3>1. CASE wpc' = wpc
      BY <3>1
    <3>2. CASE wpc' = [wpc EXCEPT ![held[d]] = "dropped"]
      BY <3>2
    <3>. QED
      BY <2>1, <3>1, <3>2
  <2>. QED
    BY <2>3, <2>4
<1>19. ASSUME NEW d \in Device, ReconnectStartWorker(d) PROVE FreshSample
  <2>1. \A e \in Device : ~(op[e] = "publishStore" /\ op'[e] = "publishBus")
    BY <1>19 DEF ReconnectStartWorker
  <2>2. wpc' = [w \in Worker |-> IF w \in {held[d]} THEN "head" ELSE wpc[w]]
    BY <1>19 DEF ReconnectStartWorker, StartThreads
  <2>3. \A w \in Worker : ~(wpc[w] = "store" /\ wpc'[w] = "bus")
    BY <2>2
  <2>. QED
    BY <2>1, <2>3
<1>19a. ASSUME NEW d \in Device, ReconnectStartFails(d) PROVE FreshSample
  <2>1. \A e \in Device : ~(op[e] = "publishStore" /\ op'[e] = "publishBus")
    BY <1>19a DEF ReconnectStartFails
  <2>2. wpc' = [wpc EXCEPT ![held[d]] = "unstarted"]
    BY <1>19a DEF ReconnectStartFails
  <2>3. \A w \in Worker : ~(wpc[w] = "store" /\ wpc'[w] = "bus")
    BY <2>2
  <2>. QED
    BY <2>1, <2>3
<1>20. ASSUME NEW w \in Worker, Connect(w) PROVE FreshSample
  <2>1. wpc[w] # "store" /\ \A v \in Worker \ {w} : wpc'[v] = wpc[v]
    BY <1>20 DEF Connect, ReadFailed, AnswerEvidence, IsEvidence, Qualifying
  <2>2. \A e \in Device : op'[e] = "publishBus" => op[e] = "publishBus"
    BY <1>20 DEF Connect, ReadFailed, AnswerEvidence, IsEvidence, Qualifying
  <2>. QED
    BY <2>1, <2>2
<1>21. ASSUME NEW w \in Worker, TakeSocket(w) PROVE FreshSample
  <2>1. wpc[w] # "store" /\ \A v \in Worker \ {w} : wpc'[v] = wpc[v]
    BY <1>21 DEF TakeSocket, AnswerEvidence, IsEvidence
  <2>2. \A e \in Device : op'[e] = "publishBus" => op[e] = "publishBus"
    BY <1>21 DEF TakeSocket, AnswerEvidence, IsEvidence
  <2>. QED
    BY <2>1, <2>2
<1>22. ASSUME NEW w \in Worker, Exchange(w) PROVE FreshSample
  <2>1. wpc[w] # "store" /\ \A v \in Worker \ {w} : wpc'[v] = wpc[v]
    BY <1>22 DEF Exchange, ReadDone, ReadFailed, AnswerEvidence, IsEvidence, Qualifying
  <2>2. \A e \in Device : op'[e] = "publishBus" => op[e] = "publishBus"
    BY <1>22 DEF Exchange, ReadDone, ReadFailed, AnswerEvidence, IsEvidence, Qualifying
  <2>. QED
    BY <2>1, <2>2
<1>23. ASSUME NEW w \in Worker, LoopHead(w) PROVE FreshSample
  BY <1>23 DEF LoopHead
<1>24. ASSUME NEW w \in Worker, BeginCycle(w) PROVE FreshSample
  BY <1>24 DEF BeginCycle
<1>25. ASSUME NEW w \in Worker, BreakWait(w) PROVE FreshSample
  BY <1>25 DEF BreakWait
<1>26. ASSUME NEW w \in Worker, StoreSample(w) PROVE FreshSample
  BY <1>26 DEF StoreSample, Larger
<1>27. ASSUME NEW w \in Worker, PublishSample(w) PROVE FreshSample
  BY <1>27 DEF PublishSample
<1>28. ASSUME NEW w \in Worker, StoreFailure(w) PROVE FreshSample
  BY <1>28 DEF StoreFailure, Larger
<1>29. ASSUME NEW w \in Worker, PublishFailure(w) PROVE FreshSample
  BY <1>29 DEF PublishFailure
<1>30. ASSUME NEW w \in Worker, CycleBoundary(w) PROVE FreshSample
  BY <1>30 DEF CycleBoundary
<1>31. ASSUME NEW w \in Worker, FailPending(w) PROVE FreshSample
  BY <1>31 DEF FailPending
<1>32. ASSUME NEW w \in Worker, FinalClose(w) PROVE FreshSample
  BY <1>32 DEF FinalClose
<1>33. ASSUME NEW r \in Request, NEW d \in Device, FetchWorker(r, d) PROVE FreshSample
  BY <1>33 DEF FetchWorker
<1>34. ASSUME NEW r \in Request, PostRequest(r) PROVE FreshSample
  BY <1>34 DEF PostRequest
<1>35. CASE UNCHANGED vars
  BY <1>35 DEF vars
<1>. QED
  BY <1>1, <1>2, <1>3, <1>4, <1>5, <1>6, <1>7, <1>8, <1>9, <1>10, <1>11, <1>12, <1>13,
     <1>14, <1>15, <1>16, <1>17, <1>18, <1>19, <1>19a, <1>20, <1>21, <1>22, <1>23, <1>24, <1>25,
     <1>26, <1>27, <1>28, <1>29, <1>30, <1>31, <1>32, <1>33, <1>34, <1>35, ZenonT(60)
     DEF Next, OpStep, WorkerStep, StopStep

(* The inductive invariant holds in every reachable state.                  *)
LEMMA Inductive == Spec => []IndInv
<1>1. IndInv /\ [Next]_vars => IndInv'
  BY TypeNext, CallsNext, RegisteredNext, NoThreadNext, PhasesNext, SocketsNext,
     CycleIdsNext
     DEF IndInv
<1>. QED
  BY InitInv, <1>1, PTL DEF Spec

(* Type correctness of the acquisition layer, for every value of its        *)
(* constants.                                                               *)
THEOREM TypeCorrect == Spec => []TypeOK
<1>1. IndInv => TypeOK
  BY DEF IndInv
<1>. QED
  BY Inductive, <1>1, PTL

(* One runtime owner of a device's Modbus connection, through every mix of  *)
(* disconnect, reconnect, join timeout, crash and shutdown.                 *)
THEOREM OneOwnerAlways == Spec => []OneOwner
<1>1. IndInv => OneOwner
  BY DEF IndInv, Sockets, OneOwner
<1>. QED
  BY Inductive, <1>1, PTL

(* disconnect_device hands the device over: while it is DISCONNECTED no     *)
(* worker of this process has or can open a connection to it.               *)
THEOREM QuietWhenDisconnected == Spec => []DisconnectedIsQuiet
<1>1. IndInv => DisconnectedIsQuiet
  <2>. SUFFICES ASSUME IndInv,
                       NEW d \in Device, lifecycle[d] = "DISCONNECTED", op[d] = "idle", ~stopping,
                       NEW w \in Worker, DeviceOf[w] = d, Owns(w)
                PROVE  FALSE
    BY DEF DisconnectedIsQuiet
  <2>1. w = threads[d]
    BY DEF IndInv, Sockets, Current, ReconnectPc, QualifiedPc
  <2>2. wpc[w] \in EndedPc
    BY <2>1 DEF IndInv, NoThread, Ended
  <2>3. ~sock[w]
    BY <2>2 DEF IndInv, Sockets
  <2>. QED
    BY <2>2, <2>3 DEF Owns, ThreadPc, ReadPc, EndedPc
<1>. QED
  BY Inductive, <1>1, PTL

(* Every sample put in the store is newer than those before it.             *)
THEOREM SampleIdsGrow == Spec => FreshSampleIds
<1>1. IndInv /\ [Next]_vars => [FreshSample]_vars
  BY FreshStep
<1>. QED
  BY Inductive, <1>1, PTL DEF Spec, FreshSampleIds

-----------------------------------------------------------------------------
(* Three more invariants, on top of IndInv: the books of the connection     *)
(* count, what stop() found, and what a device that is not registered has.  *)

(* offsets[d] is the base of the worker that runs or comes next until that  *)
(* worker's own connections are added to it.                                *)
Counted ==
  /\ \A w \in Worker : /\ base[w] + opened[w] <= dialed[DeviceOf[w]]
                       /\ wpc[w] = "unborn" => base[w] = 0 /\ opened[w] = 0
  /\ \A d \in Device :
       /\ offsets[d] <= dialed[d]
       /\ connections[d] <= dialed[d]
       /\ lifecycle[d] = "RUNNING" \/ op[d] \in DisconnectPc => base[threads[d]] = offsets[d]
       /\ op[d] \in ReconnectPc => base[held[d]] = offsets[d]
       /\ ~started /\ ~stopping /\ workers[d] # NoWorker => base[workers[d]] = offsets[d]

(* A thread that stop() found is no candidate of a reconnect, and has ended *)
(* once stop() has joined it.                                               *)
Snapped ==
  /\ stopPc = "idle" => snapThreads = {}
  /\ \A w \in snapThreads :
       /\ wpc[w] \in ThreadPc \cup EndedPc
       /\ ~(op[DeviceOf[w]] \in ReconnectPc /\ held[DeviceOf[w]] = w)
       /\ stopPc \in {"finish", "done"} => wpc[w] \in EndedPc

(* A device that was never added has neither connections nor samples, and a *)
(* worker that has qualified is still connected when its sample is stored.  *)
Enrolled ==
  \A d \in Device :
    /\ lifecycle[d] = "UNREGISTERED" => offsets[d] = 0 /\ dialed[d] = 0 /\ lastSample[d] = 0
    /\ op[d] = "publishStore" => sock[held[d]]

Books == Counted /\ Snapped /\ Enrolled

LEMMA InitBooks == Init => Books
<1>. SUFFICES ASSUME Init PROVE Books
  OBVIOUS
<1>1. Counted
  BY DEF Init, Counted, DisconnectPc, ReconnectPc, QualifiedPc
<1>. QED
  BY <1>1 DEF Init, Books, Snapped, Enrolled

(* No connection is counted twice. *)
LEMMA CountedNext == IndInv /\ Counted /\ Enrolled /\ [Next]_vars => Counted'
<1>. SUFFICES ASSUME IndInv, Counted, Enrolled, [Next]_vars PROVE Counted'
  OBVIOUS
<1>. USE DEF IndInv, Counted, Registered, CallsHold, Phases, TypeOK, CoordTypeOK, CallTypeOK,
             WorkerTypeOK, StoreTypeOK, LifecycleState, OpPc, StopPc, WorkerPc, ThreadPc, ReadPc,
             EndedPc, DisconnectPc, QualifiedPc, ReconnectPc,
           coordVars, opVars, stopVars, loopVars, clientVars, evidenceVars,
           requestVars, storeVars, Goto
<1>1. ASSUME Start PROVE Counted'
  BY <1>1 DEF Start, StartThreads
<1>2. ASSUME StopBegin \/ StopSnapshot PROVE Counted'
  BY <1>2 DEF StopBegin, StopSnapshot
<1>3. ASSUME StopSignal \/ StopClose PROVE Counted'
  BY <1>3 DEF StopSignal, StopClose
<1>4. ASSUME StopJoin \/ StopFinish PROVE Counted'
  BY <1>4 DEF StopJoin, StopFinish, Alive, Qualifying
<1>5. ASSUME NEW d \in Device, AddDevice(d) PROVE Counted'
  <2>1. PICK w \in Fresh(d) :
          /\ workers' = [workers EXCEPT ![d] = w]
          /\ cyc' = [cyc EXCEPT ![w] = 1]
          /\ IF started
             THEN StartThreads({w})
             ELSE /\ lifecycle' = [lifecycle EXCEPT ![d] = "DISCONNECTED"]
                  /\ wpc' = [wpc EXCEPT ![w] = "made"]
                  /\ UNCHANGED threads
    BY <1>5, Zenon DEF AddDevice
  <2>11. w \in Worker /\ DeviceOf[w] = d /\ wpc[w] = "unborn"
    BY DEF Fresh
  <2>2. /\ UNCHANGED <<started, stopping, offsets, op, held, base, opened>>
        /\ dialed' = [dialed EXCEPT ![d] = 1] /\ connections' = [connections EXCEPT ![d] = 1]
    BY <1>5 DEF AddDevice
  <2>3. lifecycle[d] = "UNREGISTERED" /\ offsets[d] = 0 /\ dialed[d] = 0 /\ op[d] = "idle"
    BY <1>5 DEF AddDevice, Enrolled
  <2>4. /\ \A e \in Device \ {d} : lifecycle'[e] = lifecycle[e] /\ threads'[e] = threads[e]
        /\ lifecycle'[d] = "RUNNING" => threads'[d] = w
        /\ wpc'[w] # "unborn" /\ \A v \in Worker \ {w} : wpc'[v] = wpc[v]
    BY <2>1, <2>11, <2>3 DEF StartThreads
  <2>5. base[w] = 0
    BY <2>11
  <2>6. \A v \in Worker : /\ base'[v] + opened'[v] <= dialed'[DeviceOf[v]]
                          /\ wpc'[v] = "unborn" => base'[v] = 0 /\ opened'[v] = 0
    BY <2>2, <2>3, <2>4
  <2>7. ASSUME NEW e \in Device
        PROVE  /\ offsets'[e] <= dialed'[e] /\ connections'[e] <= dialed'[e]
               /\ lifecycle'[e] = "RUNNING" \/ op'[e] \in DisconnectPc => base'[threads'[e]] = offsets'[e]
               /\ op'[e] \in ReconnectPc => base'[held'[e]] = offsets'[e]
               /\ ~started' /\ ~stopping' /\ workers'[e] # NoWorker => base'[workers'[e]] = offsets'[e]
    <3>1. CASE e = d
      BY <2>1, <2>11, <2>2, <2>3, <2>4, <2>5, <3>1
    <3>2. CASE e # d
      BY <2>1, <2>2, <2>4, <3>2
    <3>. QED
      BY <3>1, <3>2
  <2>. QED
    BY <2>6, <2>7
<1>6. ASSUME NEW d \in Device, BeginDisconnect(d) PROVE Counted'
  BY <1>6 DEF BeginDisconnect
<1>7. ASSUME NEW d \in Device, BeginReconnect(d) PROVE Counted'
  BY <1>7 DEF BeginReconnect, Fresh, CanReconnect
<1>8. ASSUME NEW d \in Device, DisconnectSetStop(d) \/ DisconnectCloseClient(d) PROVE Counted'
  BY <1>8 DEF DisconnectSetStop, DisconnectCloseClient
<1>9. ASSUME NEW d \in Device, DisconnectJoined(d) PROVE Counted'
  BY <1>9 DEF DisconnectJoined
<1>10. ASSUME NEW d \in Device, DisconnectTimeout(d) \/ ReconnectUnqualified(d) PROVE Counted'
  BY <1>10 DEF DisconnectTimeout, ReconnectUnqualified
<1>11. ASSUME NEW d \in Device, ReconnectPublishStore(d) PROVE Counted'
  BY <1>11 DEF ReconnectPublishStore, Larger
<1>12. ASSUME NEW d \in Device, ReconnectPublishBus(d) PROVE Counted'
  BY <1>12 DEF ReconnectPublishBus
<1>13. ASSUME NEW d \in Device, ReconnectInstall(d) PROVE Counted'
  <2>1. UNCHANGED <<offsets, base, opened, dialed, connections, started, stopping, threads>>
    BY <1>13 DEF ReconnectInstall
  <2>2. wpc' = wpc \/ wpc' = [wpc EXCEPT ![held[d]] = "dropped"]
    BY <1>13 DEF ReconnectInstall
  <2>3. /\ \A e \in Device \ {d} : /\ lifecycle'[e] = lifecycle[e] /\ op'[e] = op[e]
                                 /\ held'[e] = held[e] /\ workers'[e] = workers[e]
        /\ (op'[d] = "idle" \/ (op'[d] = "startWorker" /\ held'[d] = held[d]))
        /\ lifecycle'[d] = lifecycle[d] \/ lifecycle'[d] = "DISCONNECTED"
        /\ (workers'[d] = workers[d] \/ workers'[d] = held[d])
        /\ op[d] = "install"
    BY <1>13 DEF ReconnectInstall
  <2>4. \A v \in Worker : wpc'[v] = "unborn" => wpc[v] = "unborn"
    BY <2>2
  <2>. QED
    BY <2>1, <2>3, <2>4
<1>14. ASSUME NEW d \in Device, ReconnectStartWorker(d) PROVE Counted'
  BY <1>14 DEF ReconnectStartWorker, StartThreads
<1>14a. ASSUME NEW d \in Device, ReconnectStartFails(d) PROVE Counted'
  BY <1>14a DEF ReconnectStartFails
<1>15. ASSUME NEW w \in Worker, Connect(w) PROVE Counted'
  BY <1>15 DEF Connect, ReadFailed, AnswerEvidence, IsEvidence, Qualifying
<1>16. ASSUME NEW w \in Worker, TakeSocket(w) PROVE Counted'
  BY <1>16 DEF TakeSocket, AnswerEvidence, IsEvidence
<1>17. ASSUME NEW w \in Worker, Exchange(w) PROVE Counted'
  BY <1>17 DEF Exchange, ReadDone, ReadFailed, AnswerEvidence, IsEvidence, Qualifying
<1>18. ASSUME NEW w \in Worker, LoopHead(w) \/ BeginCycle(w) \/ BreakWait(w) PROVE Counted'
  BY <1>18 DEF LoopHead, BeginCycle, BreakWait
<1>19. ASSUME NEW w \in Worker, StoreSample(w) \/ StoreFailure(w) PROVE Counted'
  <2>1. \A a, b, c \in Nat : a <= c /\ b <= c => Larger(a, b) <= c
    BY DEF Larger
  <2>2. connections' = [connections EXCEPT ![DeviceOf[w]] = Larger(connections[DeviceOf[w]], base[w] + opened[w])]
    BY <1>19 DEF StoreSample, StoreFailure
  <2>3. connections'[DeviceOf[w]] <= dialed[DeviceOf[w]]
    BY <2>1, <2>2
  <2>4. \A d \in Device : connections'[d] <= dialed[d]
    BY <2>2, <2>3
  <2>5. \A v \in Worker : wpc'[v] = "unborn" => wpc[v] = "unborn"
    BY <1>19 DEF StoreSample, StoreFailure
  <2>6. UNCHANGED <<started, stopping, lifecycle, workers, threads, offsets, op, held, base, opened, dialed>>
    BY <1>19 DEF StoreSample, StoreFailure
  <2>. QED
    BY <2>4, <2>5, <2>6
<1>20. ASSUME NEW w \in Worker, PublishSample(w) \/ PublishFailure(w) PROVE Counted'
  BY <1>20 DEF PublishSample, PublishFailure
<1>21. ASSUME NEW w \in Worker, CycleBoundary(w) \/ FailPending(w) PROVE Counted'
  BY <1>21 DEF CycleBoundary, FailPending
<1>22. ASSUME NEW w \in Worker, FinalClose(w) PROVE Counted'
  BY <1>22 DEF FinalClose
<1>23. ASSUME NEW r \in Request, NEW d \in Device, FetchWorker(r, d) PROVE Counted'
  BY <1>23 DEF FetchWorker
<1>24. ASSUME NEW r \in Request, PostRequest(r) PROVE Counted'
  BY <1>24 DEF PostRequest
<1>25. CASE UNCHANGED vars
  BY <1>25 DEF vars
<1>. QED
  BY <1>1, <1>2, <1>3, <1>4, <1>5, <1>6, <1>7, <1>8, <1>9, <1>10, <1>11, <1>12, <1>13, <1>14, <1>14a, <1>15, <1>16, <1>17, <1>18, <1>19, <1>20, <1>21, <1>22, <1>23, <1>24, <1>25, ZenonT(60)
     DEF Next, OpStep, WorkerStep, StopStep

(* What stop() found stays found. *)
LEMMA SnappedNext == IndInv /\ Snapped /\ [Next]_vars => Snapped'
<1>. SUFFICES ASSUME IndInv, Snapped, [Next]_vars PROVE Snapped'
  OBVIOUS
<1>. USE DEF IndInv, Snapped, Registered, CallsHold, Phases, TypeOK, CoordTypeOK, CallTypeOK,
             WorkerTypeOK, StoreTypeOK, LifecycleState, OpPc, StopPc, WorkerPc, ThreadPc, ReadPc,
             EndedPc, DisconnectPc, QualifiedPc, ReconnectPc,
           coordVars, opVars, stopVars, loopVars, clientVars, evidenceVars,
           requestVars, storeVars, Goto
<1>1. ASSUME Start PROVE Snapped'
  BY <1>1 DEF Start, StartThreads
<1>2. ASSUME StopBegin \/ StopSnapshot PROVE Snapped'
  BY <1>2 DEF StopBegin, StopSnapshot, NoThread, Ended
<1>3. ASSUME StopSignal \/ StopClose PROVE Snapped'
  BY <1>3 DEF StopSignal, StopClose
<1>4. ASSUME StopJoin \/ StopFinish PROVE Snapped'
  BY <1>4 DEF StopJoin, StopFinish, Alive, Qualifying
<1>5. ASSUME NEW d \in Device, AddDevice(d) PROVE Snapped'
  BY <1>5 DEF AddDevice, StartThreads, Fresh
<1>6. ASSUME NEW d \in Device, BeginDisconnect(d) PROVE Snapped'
  BY <1>6 DEF BeginDisconnect
<1>7. ASSUME NEW d \in Device, BeginReconnect(d) PROVE Snapped'
  BY <1>7 DEF BeginReconnect, Fresh, CanReconnect
<1>8. ASSUME NEW d \in Device, DisconnectSetStop(d) \/ DisconnectCloseClient(d) PROVE Snapped'
  BY <1>8 DEF DisconnectSetStop, DisconnectCloseClient
<1>9. ASSUME NEW d \in Device, DisconnectJoined(d) PROVE Snapped'
  BY <1>9 DEF DisconnectJoined
<1>10. ASSUME NEW d \in Device, DisconnectTimeout(d) \/ ReconnectUnqualified(d) PROVE Snapped'
  BY <1>10 DEF DisconnectTimeout, ReconnectUnqualified
<1>11. ASSUME NEW d \in Device, ReconnectPublishStore(d) PROVE Snapped'
  BY <1>11 DEF ReconnectPublishStore, Larger
<1>12. ASSUME NEW d \in Device, ReconnectPublishBus(d) PROVE Snapped'
  BY <1>12 DEF ReconnectPublishBus
<1>13. ASSUME NEW d \in Device, ReconnectInstall(d) PROVE Snapped'
  BY <1>13 DEF ReconnectInstall
<1>14. ASSUME NEW d \in Device, ReconnectStartWorker(d) PROVE Snapped'
  BY <1>14 DEF ReconnectStartWorker, StartThreads
<1>14a. ASSUME NEW d \in Device, ReconnectStartFails(d) PROVE Snapped'
  BY <1>14a DEF ReconnectStartFails
<1>15. ASSUME NEW w \in Worker, Connect(w) PROVE Snapped'
  BY <1>15 DEF Connect, ReadFailed, AnswerEvidence, IsEvidence, Qualifying
<1>16. ASSUME NEW w \in Worker, TakeSocket(w) PROVE Snapped'
  BY <1>16 DEF TakeSocket, AnswerEvidence, IsEvidence
<1>17. ASSUME NEW w \in Worker, Exchange(w) PROVE Snapped'
  BY <1>17 DEF Exchange, ReadDone, ReadFailed, AnswerEvidence, IsEvidence, Qualifying
<1>18. ASSUME NEW w \in Worker, LoopHead(w) \/ BeginCycle(w) \/ BreakWait(w) PROVE Snapped'
  BY <1>18 DEF LoopHead, BeginCycle, BreakWait
<1>19. ASSUME NEW w \in Worker, StoreSample(w) \/ StoreFailure(w) PROVE Snapped'
  BY <1>19, SMTT(30) DEF StoreSample, StoreFailure, Larger
<1>20. ASSUME NEW w \in Worker, PublishSample(w) \/ PublishFailure(w) PROVE Snapped'
  BY <1>20 DEF PublishSample, PublishFailure
<1>21. ASSUME NEW w \in Worker, CycleBoundary(w) \/ FailPending(w) PROVE Snapped'
  BY <1>21 DEF CycleBoundary, FailPending
<1>22. ASSUME NEW w \in Worker, FinalClose(w) PROVE Snapped'
  BY <1>22 DEF FinalClose
<1>23. ASSUME NEW r \in Request, NEW d \in Device, FetchWorker(r, d) PROVE Snapped'
  BY <1>23 DEF FetchWorker
<1>24. ASSUME NEW r \in Request, PostRequest(r) PROVE Snapped'
  BY <1>24 DEF PostRequest
<1>25. CASE UNCHANGED vars
  BY <1>25 DEF vars
<1>. QED
  BY <1>1, <1>2, <1>3, <1>4, <1>5, <1>6, <1>7, <1>8, <1>9, <1>10, <1>11, <1>12, <1>13, <1>14, <1>14a, <1>15, <1>16, <1>17, <1>18, <1>19, <1>20, <1>21, <1>22, <1>23, <1>24, <1>25, ZenonT(60)
     DEF Next, OpStep, WorkerStep, StopStep

(* The first sample of a device is the one that adds it. *)
LEMMA EnrolledNext == IndInv /\ Enrolled /\ [Next]_vars => Enrolled'
<1>. SUFFICES ASSUME IndInv, Enrolled, [Next]_vars PROVE Enrolled'
  OBVIOUS
<1>. USE DEF IndInv, Enrolled, Registered, CallsHold, Phases, TypeOK, CoordTypeOK, CallTypeOK,
             WorkerTypeOK, StoreTypeOK, LifecycleState, OpPc, StopPc, WorkerPc, ThreadPc, ReadPc,
             EndedPc, DisconnectPc, QualifiedPc, ReconnectPc,
           coordVars, opVars, stopVars, loopVars, clientVars, evidenceVars,
           requestVars, storeVars, Goto
<1>1. ASSUME Start PROVE Enrolled'
  BY <1>1 DEF Start, StartThreads
<1>2. ASSUME StopBegin \/ StopSnapshot PROVE Enrolled'
  BY <1>2 DEF StopBegin, StopSnapshot
<1>3. ASSUME StopSignal \/ StopClose PROVE Enrolled'
  BY <1>3 DEF StopSignal, StopClose
<1>4. ASSUME StopJoin \/ StopFinish PROVE Enrolled'
  BY <1>4 DEF StopJoin, StopFinish, Alive, Qualifying
<1>5. ASSUME NEW d \in Device, AddDevice(d) PROVE Enrolled'
  BY <1>5 DEF AddDevice, StartThreads, Fresh
<1>6. ASSUME NEW d \in Device, BeginDisconnect(d) PROVE Enrolled'
  BY <1>6 DEF BeginDisconnect
<1>7. ASSUME NEW d \in Device, BeginReconnect(d) PROVE Enrolled'
  BY <1>7 DEF BeginReconnect, Fresh, CanReconnect
<1>8. ASSUME NEW d \in Device, DisconnectSetStop(d) \/ DisconnectCloseClient(d) PROVE Enrolled'
  BY <1>8 DEF DisconnectSetStop, DisconnectCloseClient
<1>9. ASSUME NEW d \in Device, DisconnectJoined(d) PROVE Enrolled'
  BY <1>9 DEF DisconnectJoined
<1>10. ASSUME NEW d \in Device, DisconnectTimeout(d) \/ ReconnectUnqualified(d) PROVE Enrolled'
  BY <1>10 DEF DisconnectTimeout, ReconnectUnqualified
<1>11. ASSUME NEW d \in Device, ReconnectPublishStore(d) PROVE Enrolled'
  BY <1>11 DEF ReconnectPublishStore, Larger
<1>12. ASSUME NEW d \in Device, ReconnectPublishBus(d) PROVE Enrolled'
  BY <1>12 DEF ReconnectPublishBus
<1>13. ASSUME NEW d \in Device, ReconnectInstall(d) PROVE Enrolled'
  BY <1>13 DEF ReconnectInstall
<1>14. ASSUME NEW d \in Device, ReconnectStartWorker(d) PROVE Enrolled'
  BY <1>14 DEF ReconnectStartWorker, StartThreads
<1>14a. ASSUME NEW d \in Device, ReconnectStartFails(d) PROVE Enrolled'
  BY <1>14a DEF ReconnectStartFails
<1>15. ASSUME NEW w \in Worker, Connect(w) PROVE Enrolled'
  BY <1>15, SMTT(30) DEF Connect, ReadFailed, AnswerEvidence, IsEvidence, Qualifying, Sockets, Owns, Current
<1>16. ASSUME NEW w \in Worker, TakeSocket(w) PROVE Enrolled'
  BY <1>16 DEF TakeSocket, AnswerEvidence, IsEvidence
<1>17. ASSUME NEW w \in Worker, Exchange(w) PROVE Enrolled'
  BY <1>17 DEF Exchange, ReadDone, ReadFailed, AnswerEvidence, IsEvidence, Qualifying
<1>18. ASSUME NEW w \in Worker, LoopHead(w) \/ BeginCycle(w) \/ BreakWait(w) PROVE Enrolled'
  BY <1>18 DEF LoopHead, BeginCycle, BreakWait
<1>19. ASSUME NEW w \in Worker, StoreSample(w) \/ StoreFailure(w) PROVE Enrolled'
  BY <1>19 DEF StoreSample, StoreFailure, Larger, Sockets, Owns, Current
<1>20. ASSUME NEW w \in Worker, PublishSample(w) \/ PublishFailure(w) PROVE Enrolled'
  BY <1>20 DEF PublishSample, PublishFailure
<1>21. ASSUME NEW w \in Worker, CycleBoundary(w) \/ FailPending(w) PROVE Enrolled'
  BY <1>21 DEF CycleBoundary, FailPending
<1>22. ASSUME NEW w \in Worker, FinalClose(w) PROVE Enrolled'
  BY <1>22 DEF FinalClose
<1>23. ASSUME NEW r \in Request, NEW d \in Device, FetchWorker(r, d) PROVE Enrolled'
  BY <1>23 DEF FetchWorker
<1>24. ASSUME NEW r \in Request, PostRequest(r) PROVE Enrolled'
  BY <1>24 DEF PostRequest
<1>25. CASE UNCHANGED vars
  BY <1>25 DEF vars
<1>. QED
  BY <1>1, <1>2, <1>3, <1>4, <1>5, <1>6, <1>7, <1>8, <1>9, <1>10, <1>11, <1>12, <1>13, <1>14, <1>14a, <1>15, <1>16, <1>17, <1>18, <1>19, <1>20, <1>21, <1>22, <1>23, <1>24, <1>25, ZenonT(60)
     DEF Next, OpStep, WorkerStep, StopStep

LEMMA BooksInvariant == Spec => []Books
<1>1. IndInv /\ Books /\ [Next]_vars => Books'
  BY CountedNext, SnappedNext, EnrolledNext DEF Books
<1>. QED
  BY InitBooks, <1>1, Inductive, PTL DEF Spec

-----------------------------------------------------------------------------
(* The steps of the layer as steps of DeviceFeed                            *)

Owned(d) == \E w \in Worker : DeviceOf[w] = d /\ Owns(w)

(* The link passes from one worker to another only through a moment without *)
(* an owner.                                                                *)
HandOver == \A d \in Device : Current(d)' = Current(d) \/ ~Owned(d) \/ ~Owned(d)'

(* start, add_device, reconnect_device: what each step does to the current worker *)
LEMMA HandOverStep == IndInv /\ [Next]_vars => HandOver
<1>. SUFFICES ASSUME IndInv, [Next]_vars PROVE HandOver
  OBVIOUS
<1>. USE DEF IndInv, HandOver, NoThread, Ended, Sockets, Owned, Owns, Current, Registered, CallsHold, Phases, TypeOK, CoordTypeOK, CallTypeOK,
             WorkerTypeOK, StoreTypeOK, LifecycleState, OpPc, StopPc, WorkerPc, ThreadPc, ReadPc,
             EndedPc, DisconnectPc, QualifiedPc, ReconnectPc,
           coordVars, opVars, stopVars, loopVars, clientVars, evidenceVars,
           requestVars, storeVars, Goto
<1>1. ASSUME Start PROVE HandOver
  BY <1>1 DEF Start, StartThreads
<1>2. ASSUME StopBegin \/ StopSnapshot PROVE HandOver
  BY <1>2 DEF StopBegin, StopSnapshot
<1>3. ASSUME StopSignal \/ StopClose PROVE HandOver
  BY <1>3 DEF StopSignal, StopClose
<1>4. ASSUME StopJoin \/ StopFinish PROVE HandOver
  BY <1>4 DEF StopJoin, StopFinish, Alive, Qualifying
<1>5. ASSUME NEW d \in Device, AddDevice(d) PROVE HandOver
  BY <1>5 DEF AddDevice, StartThreads, Fresh
<1>6. ASSUME NEW d \in Device, BeginDisconnect(d) PROVE HandOver
  BY <1>6 DEF BeginDisconnect
<1>7. ASSUME NEW d \in Device, BeginReconnect(d) PROVE HandOver
  BY <1>7 DEF BeginReconnect, Fresh, CanReconnect
<1>8. ASSUME NEW d \in Device, DisconnectSetStop(d) \/ DisconnectCloseClient(d) PROVE HandOver
  BY <1>8 DEF DisconnectSetStop, DisconnectCloseClient
<1>9. ASSUME NEW d \in Device, DisconnectJoined(d) PROVE HandOver
  BY <1>9 DEF DisconnectJoined
<1>10. ASSUME NEW d \in Device, DisconnectTimeout(d) \/ ReconnectUnqualified(d) PROVE HandOver
  BY <1>10 DEF DisconnectTimeout, ReconnectUnqualified
<1>11. ASSUME NEW d \in Device, ReconnectPublishStore(d) PROVE HandOver
  BY <1>11 DEF ReconnectPublishStore, Larger
<1>12. ASSUME NEW d \in Device, ReconnectPublishBus(d) PROVE HandOver
  BY <1>12 DEF ReconnectPublishBus
<1>13. ASSUME NEW d \in Device, ReconnectInstall(d) PROVE HandOver
  BY <1>13 DEF ReconnectInstall
<1>14. ASSUME NEW d \in Device, ReconnectStartWorker(d) PROVE HandOver
  BY <1>14 DEF ReconnectStartWorker, StartThreads
<1>14a. ASSUME NEW d \in Device, ReconnectStartFails(d) PROVE HandOver
  BY <1>14a DEF ReconnectStartFails
<1>15. ASSUME NEW w \in Worker, Connect(w) PROVE HandOver
  BY <1>15 DEF Connect, ReadFailed, AnswerEvidence, IsEvidence, Qualifying
<1>16. ASSUME NEW w \in Worker, TakeSocket(w) PROVE HandOver
  BY <1>16 DEF TakeSocket, AnswerEvidence, IsEvidence
<1>17. ASSUME NEW w \in Worker, Exchange(w) PROVE HandOver
  BY <1>17 DEF Exchange, ReadDone, ReadFailed, AnswerEvidence, IsEvidence, Qualifying
<1>18. ASSUME NEW w \in Worker, LoopHead(w) \/ BeginCycle(w) \/ BreakWait(w) PROVE HandOver
  BY <1>18 DEF LoopHead, BeginCycle, BreakWait
<1>19. ASSUME NEW w \in Worker, StoreSample(w) \/ StoreFailure(w) PROVE HandOver
  BY <1>19 DEF StoreSample, StoreFailure, Larger
<1>20. ASSUME NEW w \in Worker, PublishSample(w) \/ PublishFailure(w) PROVE HandOver
  BY <1>20 DEF PublishSample, PublishFailure
<1>21. ASSUME NEW w \in Worker, CycleBoundary(w) \/ FailPending(w) PROVE HandOver
  BY <1>21 DEF CycleBoundary, FailPending
<1>22. ASSUME NEW w \in Worker, FinalClose(w) PROVE HandOver
  BY <1>22 DEF FinalClose
<1>23. ASSUME NEW r \in Request, NEW d \in Device, FetchWorker(r, d) PROVE HandOver
  BY <1>23 DEF FetchWorker
<1>24. ASSUME NEW r \in Request, PostRequest(r) PROVE HandOver
  BY <1>24 DEF PostRequest
<1>25. CASE UNCHANGED vars
  BY <1>25 DEF vars
<1>. QED
  BY <1>1, <1>2, <1>3, <1>4, <1>5, <1>6, <1>7, <1>8, <1>9, <1>10, <1>11, <1>12, <1>13, <1>14, <1>14a, <1>15, <1>16, <1>17, <1>18, <1>19, <1>20, <1>21, <1>22, <1>23, <1>24, <1>25, ZenonT(60)
     DEF Next, OpStep, WorkerStep, StopStep

(* Whoever changes the newest sample of a device owns its link before and   *)
(* after, or adds the device with its first sample.                         *)
SampledByOwner ==
  \A d \in Device : lastSample'[d] # lastSample[d] =>
    \/ ~Owned(d) /\ lastSample[d] = 0 /\ lastSample'[d] = 1
    \/ Owned(d) /\ Owned(d)' /\ Current(d)' = Current(d) /\ SampleStored(d)

(* publish_sample, reconnect_device, add_device: who stores a sample *)
LEMMA SampledByOwnerStep == IndInv /\ Books /\ [Next]_vars => SampledByOwner
<1>. SUFFICES ASSUME IndInv, Books, [Next]_vars PROVE SampledByOwner
  OBVIOUS
<1>. USE DEF IndInv, SampledByOwner, Books, Enrolled, Sockets, Owned, Owns, Current, SampleStored, Registered, CallsHold, Phases, TypeOK, CoordTypeOK, CallTypeOK,
             WorkerTypeOK, StoreTypeOK, LifecycleState, OpPc, StopPc, WorkerPc, ThreadPc, ReadPc,
             EndedPc, DisconnectPc, QualifiedPc, ReconnectPc,
           coordVars, opVars, stopVars, loopVars, clientVars, evidenceVars,
           requestVars, storeVars, Goto
<1>1. ASSUME Start PROVE SampledByOwner
  BY <1>1 DEF Start, StartThreads
<1>2. ASSUME StopBegin \/ StopSnapshot PROVE SampledByOwner
  BY <1>2 DEF StopBegin, StopSnapshot
<1>3. ASSUME StopSignal \/ StopClose PROVE SampledByOwner
  BY <1>3 DEF StopSignal, StopClose
<1>4. ASSUME StopJoin \/ StopFinish PROVE SampledByOwner
  BY <1>4 DEF StopJoin, StopFinish, Alive, Qualifying
<1>5. ASSUME NEW d \in Device, AddDevice(d) PROVE SampledByOwner
  BY <1>5 DEF AddDevice, StartThreads, Fresh
<1>6. ASSUME NEW d \in Device, BeginDisconnect(d) PROVE SampledByOwner
  BY <1>6 DEF BeginDisconnect
<1>7. ASSUME NEW d \in Device, BeginReconnect(d) PROVE SampledByOwner
  BY <1>7 DEF BeginReconnect, Fresh, CanReconnect
<1>8. ASSUME NEW d \in Device, DisconnectSetStop(d) \/ DisconnectCloseClient(d) PROVE SampledByOwner
  BY <1>8 DEF DisconnectSetStop, DisconnectCloseClient
<1>9. ASSUME NEW d \in Device, DisconnectJoined(d) PROVE SampledByOwner
  BY <1>9 DEF DisconnectJoined
<1>10. ASSUME NEW d \in Device, DisconnectTimeout(d) \/ ReconnectUnqualified(d) PROVE SampledByOwner
  BY <1>10 DEF DisconnectTimeout, ReconnectUnqualified
<1>11. ASSUME NEW d \in Device, ReconnectPublishStore(d) PROVE SampledByOwner
  BY <1>11 DEF ReconnectPublishStore, Larger
<1>12. ASSUME NEW d \in Device, ReconnectPublishBus(d) PROVE SampledByOwner
  BY <1>12 DEF ReconnectPublishBus
<1>13. ASSUME NEW d \in Device, ReconnectInstall(d) PROVE SampledByOwner
  BY <1>13 DEF ReconnectInstall
<1>14. ASSUME NEW d \in Device, ReconnectStartWorker(d) PROVE SampledByOwner
  BY <1>14 DEF ReconnectStartWorker, StartThreads
<1>14a. ASSUME NEW d \in Device, ReconnectStartFails(d) PROVE SampledByOwner
  BY <1>14a DEF ReconnectStartFails
<1>15. ASSUME NEW w \in Worker, Connect(w) PROVE SampledByOwner
  BY <1>15 DEF Connect, ReadFailed, AnswerEvidence, IsEvidence, Qualifying
<1>16. ASSUME NEW w \in Worker, TakeSocket(w) PROVE SampledByOwner
  BY <1>16 DEF TakeSocket, AnswerEvidence, IsEvidence
<1>17. ASSUME NEW w \in Worker, Exchange(w) PROVE SampledByOwner
  BY <1>17 DEF Exchange, ReadDone, ReadFailed, AnswerEvidence, IsEvidence, Qualifying
<1>18. ASSUME NEW w \in Worker, LoopHead(w) \/ BeginCycle(w) \/ BreakWait(w) PROVE SampledByOwner
  BY <1>18 DEF LoopHead, BeginCycle, BreakWait
<1>19. ASSUME NEW w \in Worker, StoreSample(w) \/ StoreFailure(w) PROVE SampledByOwner
  BY <1>19 DEF StoreSample, StoreFailure, Larger
<1>20. ASSUME NEW w \in Worker, PublishSample(w) \/ PublishFailure(w) PROVE SampledByOwner
  BY <1>20 DEF PublishSample, PublishFailure
<1>21. ASSUME NEW w \in Worker, CycleBoundary(w) \/ FailPending(w) PROVE SampledByOwner
  BY <1>21 DEF CycleBoundary, FailPending
<1>22. ASSUME NEW w \in Worker, FinalClose(w) PROVE SampledByOwner
  BY <1>22 DEF FinalClose
<1>23. ASSUME NEW r \in Request, NEW d \in Device, FetchWorker(r, d) PROVE SampledByOwner
  BY <1>23 DEF FetchWorker
<1>24. ASSUME NEW r \in Request, PostRequest(r) PROVE SampledByOwner
  BY <1>24 DEF PostRequest
<1>25. CASE UNCHANGED vars
  BY <1>25 DEF vars
<1>. QED
  BY <1>1, <1>2, <1>3, <1>4, <1>5, <1>6, <1>7, <1>8, <1>9, <1>10, <1>11, <1>12, <1>13, <1>14, <1>14a, <1>15, <1>16, <1>17, <1>18, <1>19, <1>20, <1>21, <1>22, <1>23, <1>24, <1>25, ZenonT(60)
     DEF Next, OpStep, WorkerStep, StopStep

LEMMA FeedOwnerIs ==
  ASSUME IndInv, NEW d \in Device
  PROVE  /\ Owned(d) => FeedOwner[d] = Current(d) /\ Current(d) \in Worker
         /\ ~Owned(d) => FeedOwner[d] = NoWorker
<1>1. \A w \in Worker : DeviceOf[w] = d /\ Owns(w) => w = Current(d)
  BY DEF IndInv, Sockets
<1>. QED
  BY <1>1 DEF FeedOwner, Owned

LEMMA FeedInit == Init => Feed!Init
<1>. SUFFICES ASSUME Init PROVE Feed!Init
  OBVIOUS
<1>1. \A w \in Worker : ~Owns(w)
  BY DEF Init, Owns, ThreadPc, ReadPc
<1>2. FeedOwner = [d \in Device |-> NoWorker]
  BY <1>1 DEF FeedOwner
<1>3. lastSample = [d \in Device |-> 0]
  BY DEF Init
<1>. QED
  BY <1>2, <1>3 DEF Feed!Init

LEMMA FeedNext == IndInv /\ IndInv' /\ Books /\ [Next]_vars => [Feed!Next]_(Feed!feedVars)
<1>. SUFFICES ASSUME IndInv, IndInv', Books, [Next]_vars PROVE Feed!Next
  OBVIOUS
<1>1. HandOver /\ SampledByOwner /\ FreshSample
  BY HandOverStep, SampledByOwnerStep, FreshStep
<1>2. /\ lastSample \in [Device -> Nat] /\ lastSample' \in [Device -> Nat]
  BY DEF IndInv, TypeOK, StoreTypeOK
<1>3. \A d \in Device : /\ Owned(d) => FeedOwner[d] = Current(d) /\ Current(d) \in Worker
                        /\ ~Owned(d) => FeedOwner[d] = NoWorker
  BY FeedOwnerIs
<1>4. \A d \in Device : /\ Owned(d)' => FeedOwner'[d] = Current(d)' /\ Current(d)' \in Worker
                        /\ ~Owned(d)' => FeedOwner'[d] = NoWorker
  <2>1. ASSUME NEW d \in Device
        PROVE  (/\ Owned(d) => FeedOwner[d] = Current(d) /\ Current(d) \in Worker
                /\ ~Owned(d) => FeedOwner[d] = NoWorker)'
    BY FeedOwnerIs, PTL
  <2>. QED
    BY <2>1
<1>5. ASSUME NEW d \in Device
      PROVE  \/ FeedOwner'[d] = NoWorker /\ ~Owned(d)'
             \/ FeedOwner'[d] \in Worker /\ FeedOwner'[d] = Current(d)'
  <2>1. CASE Owned(d)'
    BY <1>4, <2>1
  <2>2. CASE ~Owned(d)'
    BY <1>4, <2>2
  <2>. QED
    BY <2>1, <2>2
<1>6. ASSUME NEW d \in Device
      PROVE  \/ FeedOwner[d] = NoWorker /\ ~Owned(d)
             \/ FeedOwner[d] \in Worker /\ FeedOwner[d] = Current(d)
  BY <1>3
<1>7. FeedOwner' \in [Device -> Worker \cup {NoWorker}]
  <2>1. FeedOwner' = [d \in Device |-> FeedOwner'[d]]
    BY DEF FeedOwner
  <2>2. \A d \in Device : FeedOwner'[d] \in Worker \cup {NoWorker}
    BY <1>5
  <2>. QED
    BY <2>1, <2>2
<1>8. ASSUME NEW d \in Device
      PROVE  Feed!Acquire(d) \/ Feed!Release(d) \/ Feed!Sample(d) \/ Feed!Enrol(d) \/ Feed!Idle(d)
  <2>1. CASE lastSample'[d] = lastSample[d]
    <3>1. FeedOwner'[d] = FeedOwner[d] \/ FeedOwner[d] = NoWorker \/ FeedOwner'[d] = NoWorker
      BY <1>1, <1>3, <1>4, <1>5, <1>6 DEF HandOver
    <3>. QED
      BY <2>1, <3>1 DEF Feed!Acquire, Feed!Release, Feed!Idle
  <2>2. CASE lastSample'[d] # lastSample[d] /\ ~Owned(d)
    BY <1>1, <1>3, <2>2 DEF SampledByOwner, Feed!Enrol
  <2>3. CASE lastSample'[d] # lastSample[d] /\ Owned(d)
    <3>1. FeedOwner[d] # NoWorker /\ FeedOwner'[d] = FeedOwner[d]
      <4>1. Owned(d)' /\ Current(d)' = Current(d)
        BY <1>1, <2>3 DEF SampledByOwner
      <4>. QED
        BY <1>3, <1>4, <2>3, <4>1
    <3>2. lastSample'[d] > lastSample[d]
      BY <1>1, <2>3 DEF SampledByOwner, FreshSample
    <3>. QED
      BY <3>1, <3>2 DEF Feed!Sample
  <2>. QED
    BY <2>1, <2>2, <2>3
<1>. QED
  BY <1>2, <1>7, <1>8 DEF Feed!Next

-----------------------------------------------------------------------------
(* start, disconnect_device, reconnect_device, RuntimeStore: however often a *)
(* device is disconnected and reconnected, no connection is counted twice.  *)
THEOREM NeverOvercounted == Spec => []ConnectionsNotOvercounted
<1>1. Books => ConnectionsNotOvercounted
  BY DEF Books, Counted, ConnectionsNotOvercounted
<1>. QED
  BY BooksInvariant, <1>1, PTL

(* stop(): when it returns, every thread it found has ended and has closed   *)
(* its connection, whatever a disconnect or a reconnect does meanwhile.      *)
THEOREM StopEndsThreads == Spec => []StopEndsWhatItFound
<1>1. IndInv /\ Books => StopEndsWhatItFound
  <2>. SUFFICES ASSUME IndInv, Books, stopPc = "done", NEW w \in snapThreads
                PROVE  ~Alive(w) /\ ~sock[w]
    BY DEF StopEndsWhatItFound
  <2>1. w \in Worker /\ wpc[w] \in EndedPc
    BY DEF IndInv, TypeOK, CallTypeOK, Books, Snapped
  <2>. QED
    BY <2>1 DEF IndInv, Sockets, Alive, EndedPc, ThreadPc, ReadPc
<1>. QED
  BY Inductive, BooksInvariant, <1>1, PTL

(* The acquisition layer implements DeviceFeed: one owner of a device's link *)
(* at a time, with a moment without owner between two, and only the owner's *)
(* samples, each newer than the last.                                       *)
THEOREM FeedImplemented == Spec => ImplementsFeed
<1>. QED
  BY Inductive, BooksInvariant, FeedInit, FeedNext, PTL DEF Spec, ImplementsFeed, Feed!FeedSpec
=============================================================================
