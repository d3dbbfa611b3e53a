----------------------- MODULE MeasurementStreamProofs -----------------------
(***************************************************************************)
(* Proofs about RuntimeStore and MeasurementStream for any devices, poll   *)
(* intervals, queue sizes and bounds. First the store alone. Then the      *)
(* stream: every step of it is a step of RuntimeStore or none, so what     *)
(* holds of the store holds under the pages too, and the snapshot that is  *)
(* sent with a sample covers the sample.                                   *)
(***************************************************************************)
EXTENDS MeasurementStream, SequenceTheorems, TLAPS

USE StoreAssumption

(* The properties together are inductive once it is known that the machine  *)
(* has left STARTING before register_device publishes it, and that a device *)
(* is CONNECTING only until its first sample.                               *)
FirstStates == \A d \in Device :
                 /\ state[d] # "STARTING"
                 /\ state[d] \in {"CONNECTING", "unregistered"} => sampleAt[d] = -1
StoreInv == /\ TypeOK /\ FirstStates /\ SnapshotHonest /\ SilentMeansOld
            /\ LiveStateNamesQuality /\ NeverRejects

(* Every event the program sends to a registered device has a transition.   *)
LEMMA TransitionDefined ==
  ASSUME NEW s \in State \ {"STARTING", "unregistered"},
         NEW event \in {"COMPLETE_VALID_SAMPLE", "COMPLETE_DEGRADED_SAMPLE", "CYCLE_FAILED"}
  PROVE  /\ Transitions(s, event) \in State \ {"STARTING", "unregistered"}
         /\ event = "COMPLETE_VALID_SAMPLE" => Transitions(s, event) = "ONLINE"
         /\ event = "COMPLETE_DEGRADED_SAMPLE" => Transitions(s, event) = "DEGRADED"
         /\ event = "CYCLE_FAILED" => Transitions(s, event) = IF s \in Live THEN s ELSE "OFFLINE"
BY DEF Transitions, State, Live

LEMMA StoreInit == Init => StoreInv
<1>. SUFFICES ASSUME Init PROVE StoreInv
  OBVIOUS
<1>1. seen \in [Device -> Snapshot]
  BY DEF Init, Snapshot, State
<1>2. TypeOK
  <2>1. now \in Nat /\ state \in [Device -> State] /\ rejected \in BOOLEAN
    BY <1>1 DEF Init, State, Quality
  <2>2. sampleAt \in [Device -> Int]
    BY <1>1 DEF Init, State, Quality
  <2>3. \A e \in Device : sampleAt[e] >= -1 /\ sampleAt[e] <= now
    BY <1>1 DEF Init, State, Quality
  <2>4. quality \in [Device -> Quality]
    BY <1>1 DEF Init, State, Quality
  <2>5. valid \in [Device -> Nat] /\ invalid \in [Device -> Nat]
    BY <1>1 DEF Init, State, Quality
  <2>6. connections \in [Device -> Nat]
    BY <1>1 DEF Init, State, Quality
  <2>7. seen \in [Device -> Snapshot]
    BY <1>1
  <2>. QED
    BY <2>1, <2>2, <2>3, <2>4, <2>5, <2>6, <2>7 DEF TypeOK
<1>3. FirstStates /\ SilentMeansOld /\ LiveStateNamesQuality /\ NeverRejects
  BY DEF Init, FirstStates, SilentMeansOld, LiveStateNamesQuality, NeverRejects, Live
<1>4. SnapshotHonest
  BY DEF Init, SnapshotHonest, Live
<1>. QED
  BY <1>2, <1>3, <1>4 DEF StoreInv

LEMMA StoreNext == StoreInv /\ [Next]_vars => StoreInv'
<1>. SUFFICES ASSUME StoreInv, [Next]_vars PROVE StoreInv'
  OBVIOUS
<1>. USE DEF StoreInv, TypeOK, FirstStates, SnapshotHonest, SilentMeansOld,
             LiveStateNamesQuality, NeverRejects, State, Live, Quality, Snapshot, Threshold
<1>1. ASSUME NEW d \in Device, RegisterDevice(d) PROVE StoreInv'
  BY <1>1 DEF RegisterDevice, Transitions
<1>2. ASSUME NEW d \in Device, GetDevice(d) PROVE StoreInv'
  <2>1. CASE Expired(d)
    BY <1>2, <2>1, SMTT(40) DEF GetDevice, Expired, Apply, Transitions
  <2>2. CASE ~Expired(d)
    BY <1>2, <2>2 DEF GetDevice, Expired
  <2>. QED
    BY <2>1, <2>2
<1>3. ASSUME NEW d \in Device, NEW q \in Quality, NEW total \in 1..MaxConn,
             PublishSample(d, q, total)
      PROVE  StoreInv'
  <2>1. /\ state' = [state EXCEPT ![d] = IF q = "DEGRADED" THEN "DEGRADED" ELSE "ONLINE"]
        /\ rejected' = rejected
    BY <1>3, TransitionDefined DEF PublishSample, Apply
  <2>2. connections' \in [Device -> Nat]
    BY <1>3 DEF PublishSample, SetConnections
  <2>3. TypeOK'
    <3>1. now' \in Nat /\ state' \in [Device -> State] /\ rejected' \in BOOLEAN
      BY <1>3, <2>1, <2>2 DEF PublishSample, Stamp
    <3>2. sampleAt' \in [Device -> Int]
      BY <1>3, <2>1, <2>2 DEF PublishSample, Stamp
    <3>3. \A e \in Device : sampleAt'[e] >= -1 /\ sampleAt'[e] <= now'
      BY <1>3, <2>1, <2>2 DEF PublishSample, Stamp
    <3>4. quality' \in [Device -> Quality]
      BY <1>3, <2>1, <2>2 DEF PublishSample, Stamp
    <3>5. valid' \in [Device -> Nat] /\ invalid' \in [Device -> Nat]
      BY <1>3, <2>1, <2>2 DEF PublishSample, Stamp
    <3>6. connections' \in [Device -> Nat]
      BY <1>3, <2>1, <2>2 DEF PublishSample, Stamp
    <3>7. seen' \in [Device -> Snapshot]
      BY <1>3, <2>1, <2>2 DEF PublishSample, Stamp
    <3>. QED
      BY <3>1, <3>2, <3>3, <3>4, <3>5, <3>6, <3>7 DEF TypeOK
  <2>4. FirstStates'
    BY <1>3, <2>1, <2>2 DEF PublishSample, Stamp
  <2>5. SnapshotHonest'
    BY <1>3, <2>1, <2>2 DEF PublishSample, Stamp
  <2>6. SilentMeansOld'
    BY <1>3, <2>1, <2>2 DEF PublishSample, Stamp
  <2>7. LiveStateNamesQuality' /\ NeverRejects'
    BY <1>3, <2>1, <2>2 DEF PublishSample, Stamp
  <2>. QED
    BY <2>3, <2>4, <2>5, <2>6, <2>7
<1>4. ASSUME NEW d \in Device, NEW total \in 0..MaxConn, PublishFailure(d, total)
      PROVE  StoreInv'
  <2>1. /\ state' = [state EXCEPT ![d] = IF @ \in Live THEN @ ELSE "OFFLINE"]
        /\ rejected' = rejected
    BY <1>4, TransitionDefined DEF PublishFailure, Apply
  <2>2. connections' \in [Device -> Nat]
    BY <1>4 DEF PublishFailure, SetConnections
  <2>3. TypeOK'
    <3>1. now' \in Nat /\ state' \in [Device -> State] /\ rejected' \in BOOLEAN
      BY <1>4, <2>1, <2>2 DEF PublishFailure
    <3>2. sampleAt' \in [Device -> Int]
      BY <1>4, <2>1, <2>2 DEF PublishFailure
    <3>3. \A e \in Device : sampleAt'[e] >= -1 /\ sampleAt'[e] <= now'
      BY <1>4, <2>1, <2>2 DEF PublishFailure
    <3>4. quality' \in [Device -> Quality]
      BY <1>4, <2>1, <2>2 DEF PublishFailure
    <3>5. valid' \in [Device -> Nat] /\ invalid' \in [Device -> Nat]
      BY <1>4, <2>1, <2>2 DEF PublishFailure
    <3>6. connections' \in [Device -> Nat]
      BY <1>4, <2>1, <2>2 DEF PublishFailure
    <3>7. seen' \in [Device -> Snapshot]
      BY <1>4, <2>1, <2>2 DEF PublishFailure
    <3>. QED
      BY <3>1, <3>2, <3>3, <3>4, <3>5, <3>6, <3>7 DEF TypeOK
  <2>4. FirstStates'
    BY <1>4, <2>1, <2>2 DEF PublishFailure
  <2>5. SnapshotHonest'
    BY <1>4, <2>1, <2>2 DEF PublishFailure
  <2>6. SilentMeansOld'
    BY <1>4, <2>1, <2>2 DEF PublishFailure
  <2>7. LiveStateNamesQuality' /\ NeverRejects'
    BY <1>4, <2>1, <2>2 DEF PublishFailure
  <2>. QED
    BY <2>3, <2>4, <2>5, <2>6, <2>7
<1>5. CASE Tick
  BY <1>5 DEF Tick
<1>6. CASE UNCHANGED vars
  BY <1>6 DEF vars
<1>. QED
  BY <1>1, <1>2, <1>3, <1>4, <1>5, <1>6 DEF Next

(* Type correctness, for every value of the constants.                      *)
THEOREM StoreTypeCorrect == Spec => []TypeOK
<1>1. StoreInv => TypeOK
  BY DEF StoreInv
<1>. QED
  BY StoreInit, StoreNext, <1>1, PTL DEF Spec

(* No snapshot ever calls a device live on a sample older than three of its *)
(* poll intervals.                                                          *)
THEOREM SnapshotsAreHonest == Spec => []SnapshotHonest
<1>1. StoreInv => SnapshotHonest
  BY DEF StoreInv
<1>. QED
  BY StoreInit, StoreNext, <1>1, PTL DEF Spec

(* The state machine is never asked for a transition it refuses.            *)
THEOREM StoreNeverRejects == Spec => []NeverRejects
<1>1. StoreInv => NeverRejects
  BY DEF StoreInv
<1>. QED
  BY StoreInit, StoreNext, <1>1, PTL DEF Spec

-----------------------------------------------------------------------------
USE StreamAssumption

(* The store's events and the handler's steps: the fields of an event, and  *)
(* where a sample's event can be without the store knowing the sample.      *)
Published == [cycle : Int, device : Device, sample : BOOLEAN, stamp : Nat]
Covered(at, e) == e.sample => e.stamp <= at[e.device]

(* A sample that waits anywhere between the worker and the page is not newer *)
(* than the store's: the worker publishes to the store first.                *)
StreamInv ==
  /\ StoreInv
  /\ handler \in {"none", "top", "get", "sample", "send", "left"}
  /\ unpublished \in [Device -> Published \cup {NoEvent}]
  /\ \A d \in Device : unpublished[d] = NoEvent \/ Covered(sampleAt, unpublished[d])
  /\ queue \in Seq(Published)
  /\ \A i \in 1 .. Len(queue) : Covered(sampleAt, queue[i])
  /\ handler \in {"sample", "send"} => inHand \in Published /\ inHand.sample /\ Covered(sampleAt, inHand)
  /\ SnapshotCoversSample

(* Every step of the stream is a step of the store, or leaves it alone: the  *)
(* handler asks only for devices that are in an event.                       *)
LEMMA StreamStepIsStoreStep == StreamInv /\ [StreamNext]_streamVars => [Next]_vars
<1>. SUFFICES ASSUME StreamInv, [StreamNext]_streamVars PROVE [Next]_vars
  OBVIOUS
<1>1. CASE OtherStoreStep
  BY <1>1 DEF OtherStoreStep, Next
<1>2. ASSUME NEW d \in Device, StoreCycle(d) PROVE [Next]_vars
  BY <1>2 DEF StoreCycle, Next
<1>3. ASSUME NEW d \in Device, PublishBus(d) PROVE [Next]_vars
  BY <1>3 DEF PublishBus
<1>4. CASE PageConnects \/ PageGone
  BY <1>4 DEF PageConnects, PageGone
<1>5. CASE LoopTop \/ GetTimesOut \/ Get \/ Sent \/ SendFails
  BY <1>5 DEF LoopTop, GetTimesOut, Get, Sent, SendFails, Leave
<1>6. CASE Send
  BY <1>6 DEF StreamInv, Send, Next, Published
<1>7. CASE UNCHANGED streamVars
  BY <1>7 DEF streamVars
<1>. QED
  BY <1>1, <1>2, <1>3, <1>4, <1>5, <1>6, <1>7 DEF StreamNext, HandlerStep

(* The store's sample of a device is never replaced by an older one.         *)
LEMMA SamplesGrow ==
  ASSUME StoreInv, [Next]_vars, NEW d \in Device
  PROVE  sampleAt[d] <= sampleAt'[d]
<1>. USE DEF StoreInv, TypeOK
<1>1. ASSUME NEW e \in Device, NEW q \in Quality, NEW total \in 1..MaxConn,
             PublishSample(e, q, total)
      PROVE  sampleAt[d] <= sampleAt'[d]
  BY <1>1 DEF PublishSample, Stamp
<1>2. CASE UNCHANGED sampleAt
  BY <1>2
<1>. QED
  BY <1>1, <1>2 DEF Next, vars, RegisterDevice, GetDevice, PublishFailure, Tick

(* What the bus keeps of a queue, and what is added, stays covered.          *)
LEMMA PutKeeps ==
  ASSUME NEW at, NEW q \in Seq(Published), NEW e \in Published, Covered(at, e),
         \A i \in 1 .. Len(q) : Covered(at, q[i])
  PROVE  /\ Put(q, e) \in Seq(Published)
         /\ \A i \in 1 .. Len(Put(q, e)) : Covered(at, Put(q, e)[i])
<1>1. CASE Len(q) < QueueSize
  BY <1>1 DEF Put
<1>2. CASE ~(Len(q) < QueueSize)
  <2>1. q # <<>>
    BY <1>2
  <2>2. /\ Tail(q) \in Seq(Published) /\ Len(Tail(q)) = Len(q) - 1
        /\ \A i \in 1 .. Len(Tail(q)) : Tail(q)[i] = q[i + 1]
    BY <2>1
  <2>3. Put(q, e) = Append(Tail(q), e)
    BY <1>2 DEF Put
  <2>4. \A i \in 1 .. Len(Tail(q)) : Covered(at, Tail(q)[i])
    BY <2>2
  <2>5. /\ Append(Tail(q), e) \in Seq(Published)
        /\ Len(Append(Tail(q), e)) = Len(Tail(q)) + 1
        /\ \A i \in 1 .. Len(Tail(q)) : Append(Tail(q), e)[i] = Tail(q)[i]
        /\ Append(Tail(q), e)[Len(Tail(q)) + 1] = e
    BY <2>2, AppendProperties
  <2>6. \A n \in Nat : \A i \in 1 .. n + 1 : i \in 1 .. n \/ i = n + 1
    OBVIOUS
  <2>7. Len(Tail(q)) \in Nat
    BY <2>2, LenProperties
  <2>. QED
    BY <2>3, <2>4, <2>5, <2>6, <2>7
<1>. QED
  BY <1>1, <1>2

(* Before the first sample nothing waits.                                    *)
LEMMA StreamInitInv == StreamInit => StreamInv
BY StoreInit DEF StreamInit, StreamInv, SnapshotCoversSample

(* StreamInv is inductive.                                                  *)
LEMMA StreamNextInv == StreamInv /\ [StreamNext]_streamVars => StreamInv'
<1>. SUFFICES ASSUME StreamInv, [StreamNext]_streamVars PROVE StreamInv'
  OBVIOUS
<1>1. StoreInv' /\ [Next]_vars
  BY StreamStepIsStoreStep, StoreNext DEF StreamInv
<1>2. \A e \in Published : Covered(sampleAt, e) => Covered(sampleAt', e)
  BY <1>1, SamplesGrow DEF StreamInv, StoreInv, TypeOK, Covered, Published
<1>3. \A d \in Device :
         unpublished[d] = NoEvent \/ (unpublished[d] \in Published /\ Covered(sampleAt, unpublished[d]))
  <2>. TAKE d \in Device
  <2>1. unpublished \in [Device -> Published \cup {NoEvent}]
    BY DEF StreamInv
  <2>2. unpublished[d] \in Published \cup {NoEvent}
    BY <2>1, Zenon
  <2>3. unpublished[d] = NoEvent \/ Covered(sampleAt, unpublished[d])
    BY Zenon DEF StreamInv
  <2>. QED
    BY <2>2, <2>3, Zenon
<1>4. ASSUME UNCHANGED <<handlerVars, queue>>
      PROVE  /\ handler' \in {"none", "top", "get", "sample", "send", "left"}
             /\ queue' \in Seq(Published)
             /\ \A i \in 1 .. Len(queue') : Covered(sampleAt', queue'[i])
             /\ (handler' \in {"sample", "send"} =>
                  inHand' \in Published /\ inHand'.sample /\ Covered(sampleAt', inHand'))
             /\ SnapshotCoversSample'
  <2>1. \A i \in 1 .. Len(queue) : queue[i] \in Published
    BY DEF StreamInv
  <2>2. \A i \in 1 .. Len(queue) : Covered(sampleAt', queue[i])
    BY <1>2, <2>1 DEF StreamInv
  <2>3. handler \in {"sample", "send"} => Covered(sampleAt', inHand)
    BY <1>2 DEF StreamInv
  <2>4. handler' = handler /\ queue' = queue /\ inHand' = inHand /\ snapshot' = snapshot
    BY <1>4 DEF handlerVars
  <2>5. \A i \in 1 .. Len(queue') : Covered(sampleAt', queue'[i])
    BY <2>2, <2>4 DEF Covered
  <2>6. handler' \in {"sample", "send"} => Covered(sampleAt', inHand')
    BY <2>3, <2>4 DEF Covered
  <2>. QED
    BY <2>4, <2>5, <2>6 DEF StreamInv, SnapshotCoversSample
<1>5. CASE OtherStoreStep
  <2>1. UNCHANGED <<handlerVars, queue>> /\ UNCHANGED unpublished
    BY <1>5 DEF OtherStoreStep
  <2>2. \A d \in Device : unpublished'[d] = NoEvent \/ Covered(sampleAt', unpublished'[d])
    <3>. TAKE d \in Device
    <3>1. unpublished[d] = NoEvent \/ (unpublished[d] \in Published /\ Covered(sampleAt, unpublished[d]))
      BY <1>3
    <3>2. unpublished[d] = NoEvent \/ Covered(sampleAt', unpublished[d])
      BY <1>2, <3>1
    <3>. QED
      BY <2>1, <3>2 DEF Covered
  <2>. QED
    BY <1>1, <1>4, <2>1, <2>2 DEF StreamInv
<1>6. ASSUME NEW d \in Device, StoreCycle(d) PROVE StreamInv'
  <2>1. PICK b \in BOOLEAN :
          /\ unpublished' = [unpublished EXCEPT ![d] = Event(d, b)]
          /\ b => sampleAt'[d] = now
    BY <1>6 DEF StoreCycle, PublishSample, Stamp, StreamInv, StoreInv, TypeOK
  <2>2. valid[d] \in Nat /\ invalid[d] \in Nat /\ now \in Nat
    BY DEF StreamInv, StoreInv, TypeOK
  <2>3. Event(d, b) \in Published
    BY <2>2 DEF Event, Published
  <2>4. unpublished' \in [Device -> Published \cup {NoEvent}]
    BY <2>1, <2>3 DEF StreamInv
  <2>5. Event(d, b).sample = b /\ Event(d, b).stamp = now /\ Event(d, b).device = d
    BY DEF Event
  <2>6. \A e \in Device : unpublished'[e] = NoEvent \/ Covered(sampleAt', unpublished'[e])
    <3>. TAKE e \in Device
    <3>1. CASE e = d
      <4>1. unpublished'[e] = Event(d, b)
        BY <2>1, <3>1 DEF StreamInv
      <4>. QED
        BY <2>1, <2>2, <2>5, <4>1 DEF Covered
    <3>2. CASE e # d
      <4>1. unpublished[e] = NoEvent \/ (unpublished[e] \in Published /\ Covered(sampleAt, unpublished[e]))
        BY <1>3
      <4>2. unpublished[e] = NoEvent \/ Covered(sampleAt', unpublished[e])
        BY <1>2, <4>1
      <4>3. unpublished'[e] = unpublished[e]
        BY <2>1, <3>2 DEF StreamInv
      <4>. QED
        BY <4>2, <4>3 DEF Covered
    <3>. QED
      BY <3>1, <3>2
  <2>7. UNCHANGED <<handlerVars, queue>>
    BY <1>6 DEF StoreCycle
  <2>. QED
    BY <1>1, <1>4, <2>4, <2>6, <2>7 DEF StreamInv
<1>7. ASSUME NEW d \in Device, PublishBus(d) PROVE StreamInv'
  <2>1. unpublished[d] \in Published /\ Covered(sampleAt, unpublished[d])
    BY <1>7 DEF PublishBus, StreamInv
  <2>2. UNCHANGED <<vars, handlerVars>>
    BY <1>7 DEF PublishBus
  <2>3. /\ queue' \in Seq(Published)
        /\ \A i \in 1 .. Len(queue') : Covered(sampleAt, queue'[i])
    BY <1>7, <2>1, PutKeeps DEF PublishBus, StreamInv
  <2>4. /\ unpublished' \in [Device -> Published \cup {NoEvent}]
        /\ \A e \in Device : unpublished'[e] = NoEvent \/ Covered(sampleAt, unpublished'[e])
    BY <1>7 DEF PublishBus, StreamInv
  <2>. QED
    BY <1>1, <2>2, <2>3, <2>4 DEF StreamInv, vars, handlerVars, Covered, SnapshotCoversSample
<1>8. CASE PageConnects \/ PageGone \/ LoopTop \/ GetTimesOut \/ Sent \/ SendFails
  <2>1. UNCHANGED vars /\ UNCHANGED unpublished
    BY <1>8 DEF PageConnects, PageGone, LoopTop, GetTimesOut, Sent, SendFails, Leave
  <2>2. queue' \in {<<>>, queue}
    BY <1>8 DEF PageConnects, PageGone, LoopTop, GetTimesOut, Sent, SendFails, Leave
  <2>3. \/ handler' \in {"top", "get", "left"}
        \/ handler' = handler /\ inHand' = inHand /\ snapshot' = snapshot
    BY <1>8 DEF PageConnects, PageGone, LoopTop, GetTimesOut, Sent, SendFails, Leave
  <2>4. sampleAt' = sampleAt
    BY <2>1 DEF vars
  <2>5. queue' \in Seq(Published) /\ \A i \in 1 .. Len(queue') : Covered(sampleAt', queue'[i])
    <3>1. CASE queue' = <<>>
      BY <3>1
    <3>2. CASE queue' = queue
      BY <3>2, <2>4 DEF StreamInv
    <3>. QED
      BY <2>2, <3>1, <3>2
  <2>6. /\ unpublished' \in [Device -> Published \cup {NoEvent}]
        /\ \A d \in Device : unpublished'[d] = NoEvent \/ Covered(sampleAt', unpublished'[d])
    BY <2>1, <2>4, Zenon DEF StreamInv
  <2>7. /\ handler' \in {"none", "top", "get", "sample", "send", "left"}
        /\ handler' \in {"sample", "send"} =>
             inHand' \in Published /\ inHand'.sample /\ Covered(sampleAt', inHand')
        /\ SnapshotCoversSample'
    BY <2>3, <2>4 DEF StreamInv, SnapshotCoversSample
  <2>. QED
    BY <1>1, <2>5, <2>6, <2>7, Zenon DEF StreamInv
<1>9. CASE Get
  <2>1. /\ Head(queue) \in Published /\ Covered(sampleAt, Head(queue))
        /\ Tail(queue) \in Seq(Published) /\ Len(Tail(queue)) = Len(queue) - 1
        /\ \A i \in 1 .. Len(Tail(queue)) : Tail(queue)[i] = queue[i + 1]
    BY <1>9 DEF Get, StreamInv
  <2>2. \A i \in 1 .. Len(queue') : Covered(sampleAt, queue'[i])
    BY <1>9, <2>1 DEF Get, StreamInv
  <2>. QED
    BY <1>1, <1>9, <2>1, <2>2 DEF Get, StreamInv, vars, Covered, SnapshotCoversSample
<1>10. CASE Send
  <2>1. UNCHANGED sampleAt
    BY <1>10 DEF Send, GetDevice
  <2>2. seen'[inHand.device].sampleAt = sampleAt[inHand.device]
    BY <1>10 DEF Send, GetDevice, StreamInv, StoreInv, TypeOK, Published
  <2>3. inHand.stamp <= sampleAt[inHand.device]
    BY <1>10 DEF Send, StreamInv, Covered
  <2>4. SnapshotCoversSample'
    BY <1>10, <2>2, <2>3 DEF Send, SnapshotNow, SnapshotCoversSample, StreamInv, Published, StoreInv, TypeOK
  <2>. QED
    BY <1>1, <1>10, <2>1, <2>4 DEF Send, StreamInv, Covered
<1>11. CASE UNCHANGED streamVars
  BY <1>1, <1>11 DEF streamVars, handlerVars, vars, StreamInv, Covered, SnapshotCoversSample
<1>. QED
  BY <1>5, <1>6, <1>7, <1>8, <1>9, <1>10, <1>11 DEF StreamNext, HandlerStep

-----------------------------------------------------------------------------
(* The stream with its workers and pages implements the store's              *)
(* specification: it orders the store's steps and adds none.                 *)
THEOREM StreamImplementsStore == StreamSpec => Spec
<1>1. StreamInit => Init
  BY DEF StreamInit
<1>. QED
  BY <1>1, StreamInitInv, StreamNextInv, StreamStepIsStoreStep, PTL DEF StreamSpec, Spec

(* The snapshot sent with a sample is of that sample or of a newer one, for  *)
(* any number of devices and any size of the queue                           *)
(* (websocket_measurements, publish_sample).                                 *)
THEOREM SnapshotsCover == StreamSpec => []SnapshotCoversSample
<1>1. StreamInv => SnapshotCoversSample
  BY DEF StreamInv
<1>. QED
  BY <1>1, StreamInitInv, StreamNextInv, PTL DEF StreamSpec

(* What is told of silent devices holds for every reader, the pages          *)
(* included: no live snapshot of an old sample, no STALE or OFFLINE one of a *)
(* young one, and no refused transition (get_device, publish_failure).       *)
THEOREM ReadersToldRight == StreamSpec => [](SnapshotHonest /\ SilentMeansOld /\ NeverRejects)
<1>1. StreamInv => SnapshotHonest /\ SilentMeansOld /\ NeverRejects
  BY DEF StreamInv, StoreInv
<1>. QED
  BY <1>1, StreamInitInv, StreamNextInv, PTL DEF StreamSpec
=============================================================================
