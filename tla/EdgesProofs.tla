----------------------------- MODULE EdgesProofs -----------------------------
(***************************************************************************)
(* Proofs about three of the parts that talk to the outside.               *)
(*                                                                         *)
(* ModbusLink, for any number of faults and cycles and for any ids that    *)
(* come back late enough (LinkAssumption): an answer is in step with its   *)
(* request, because every answer that is still on its way is younger than  *)
(* an id takes to come back; and a fault is paid for once.                 *)
(*                                                                         *)
(* Browser, for any devices, selections and requests: no late answer is    *)
(* drawn under another device's name.                                      *)
(*                                                                         *)
(* CtTelnet, for any cuts of the stream and any number of negotiations:    *)
(* every value read is the device's own, and every option is refused once. *)
(***************************************************************************)
EXTENDS ModbusLink, Browser, CtTelnet, SequenceTheorems, TLAPS

Request == [id : Nat, transaction : Int, function : Int, bytes : Int]
Frame == [to : Request, defect : Defects]

LinkType ==
  /\ phase \in {"cycle", "boundary", "evidence", "rest"}
  /\ phase = "cycle" => position \in 1..4
  /\ phase = "evidence" => position \in 1..6
  /\ transaction \in 0 .. Modulus - 1 /\ sent \in Nat
  /\ lost \in Nat /\ faults \in Nat
  /\ owed \in Seq(Request) /\ wire \in Seq(Frame)
  /\ asked \in [1..6 -> Nat] /\ values \in [1..6 -> Nat]
  /\ aborted \in BOOLEAN

(* Requests are made in order, one at a time.                               *)
Progress ==
  /\ Waiting => asked[position] = sent
  /\ Reading => /\ \A i \in 1..6 : i > position => asked[i] = 0
                /\ \A i \in 1..6 : i >= position => values[i] = 0
  /\ aborted => ~Waiting

(* The device answers in order.                                             *)
InOrder ==
  /\ \A i, j \in 1 .. Len(wire) : i <= j => wire[i].to.id <= wire[j].to.id
  /\ \A i, j \in 1 .. Len(owed) : i <= j => owed[i].id <= owed[j].id
  /\ \A i \in 1 .. Len(wire), j \in 1 .. Len(owed) : wire[i].to.id <= owed[j].id

(* How many requests ago the oldest answer that is under way was asked for, *)
(* and the transaction id of that time. A cycle ends with no old answers: a *)
(* stale one would have come before the last, and closed the connection.    *)
MaxAge ==
  IF phase = "boundary" THEN 0
  ELSE IF phase = "rest" THEN 6
  ELSE LET calm == IF phase = "cycle" THEN 6 ELSE position - 1
       IN  IF Waiting THEN calm + 1 ELSE calm
Before(n, t) == IF n <= t THEN t - n ELSE t - n + Modulus
Recent(q, age, last, t) ==
  /\ q.id <= last /\ last - q.id <= age
  /\ q.transaction = Before(last - q.id, t)
AllRecent ==
  /\ \A i \in 1 .. Len(wire) : Recent(wire[i].to, MaxAge, sent, transaction)
  /\ \A i \in 1 .. Len(owed) : Recent(owed[i], MaxAge, sent, transaction)

LinkInv == LinkType /\ Progress /\ InOrder /\ AllRecent /\ RightAnswer

(* Nothing is under way but one good answer to the request that waits for it. *)
CurrentRequest == [id |-> sent, transaction |-> transaction,
            function |-> Requests[position].function, bytes |-> ByteCount(Requests[position])]
Clean ==
  IF Waiting
  THEN /\ Len(wire) + Len(owed) <= 1
       /\ \A i \in 1 .. Len(wire) : wire[i] = [to |-> CurrentRequest, defect |-> "none"]
       /\ \A i \in 1 .. Len(owed) : owed[i] = CurrentRequest
  ELSE wire = <<>> /\ owed = <<>>

(* A fault pays for the dirt it leaves, or for the cycle that it ends.      *)
Dirt == IF Clean THEN 0 ELSE 1
PaidFor == lost + Dirt <= faults

-----------------------------------------------------------------------------
LEMMA Bounds == Modulus \in Nat /\ Modulus > 7 /\ Len(Blocks) = 4 /\ Len(Probes) = 6
  /\ None = [i \in 1..6 |-> 0]
<1>1. Len(Blocks) = 4 /\ Len(Probes) = 6
  BY DEF Blocks, Probes
<1>. QED
  BY <1>1, LinkAssumption DEF None

LEMMA ByteCounts ==
  ASSUME LinkType, Reading
  PROVE  Requests[position].function \in Int /\ ByteCount(Requests[position]) \in Int
<1>. DEFINE R == [function : Int, start : Int, count : Int]
<1>1. \A start, count \in Int : Holding(start, count) \in R
  BY DEF Holding
<1>2. Blocks \in Seq(R) /\ Len(Blocks) = 4
  BY <1>1 DEF Blocks
<1>3. Probes \in Seq(R) /\ Len(Probes) = 6
  BY <1>1 DEF Probes
<1>. HIDE DEF R
<1>4. Requests[position] \in R
  <2>1. (\A i \in 1..4 : Blocks[i] \in R) /\ (\A i \in 1..6 : Probes[i] \in R)
    <3>1. \A s \in Seq(R) : \A i \in 1 .. Len(s) : s[i] \in R
      OBVIOUS
    <3>2. \A i \in 1 .. Len(Blocks) : Blocks[i] \in R
      BY <1>2, <3>1
    <3>3. \A i \in 1 .. Len(Probes) : Probes[i] \in R
      BY <1>3, <3>1
    <3>. QED
      BY <1>2, <1>3, <3>2, <3>3
  <2>2. CASE phase = "cycle"
    <3>1. position \in 1..4 /\ Requests = Blocks
      BY <2>2 DEF Requests, LinkType
    <3>. QED
      BY <2>1, <3>1
  <2>3. CASE phase = "evidence"
    <3>1. position \in 1..6 /\ Requests = Probes
      BY <2>3 DEF Requests, LinkType
    <3>. QED
      BY <2>1, <3>1
  <2>. QED
    BY <2>2, <2>3 DEF Reading
<1>5. \A q \in R : q.function \in Int /\ ByteCount(q) \in Int
  BY DEF R, ByteCount
<1>. QED
  BY <1>4, <1>5

(* The mask: the id after the last one is 0.                                 *)
LEMMA MaskWraps ==
  ASSUME LinkType
  PROVE  NextTransaction = IF transaction = Modulus - 1 THEN 0 ELSE transaction + 1
<1>1. Modulus \in Nat /\ Modulus > 7 /\ transaction \in 0 .. Modulus - 1
  BY Bounds DEF LinkType
<1>2. CASE transaction = Modulus - 1
  <2>1. transaction + 1 = Modulus
    BY <1>1, <1>2
  <2>2. Modulus % Modulus = 0
    BY <1>1
  <2>. QED
    BY <1>2, <2>1, <2>2 DEF NextTransaction
<1>3. CASE transaction # Modulus - 1
  <2>1. transaction + 1 \in 0 .. Modulus - 1
    BY <1>1, <1>3
  <2>2. \A n \in 0 .. Modulus - 1 : n % Modulus = n
    BY <1>1
  <2>. QED
    BY <1>3, <2>1, <2>2 DEF NextTransaction
<1>. QED
  BY <1>2, <1>3

LEMMA AgeRange ==
  ASSUME LinkType
  PROVE  MaxAge \in 0..7
<1>1. CASE phase = "evidence"
  <2>1. position \in 1..6 /\ MaxAge = IF Waiting THEN position - 1 + 1 ELSE position - 1
    BY <1>1 DEF MaxAge, LinkType
  <2>. QED
    BY <2>1
<1>2. CASE phase = "cycle"
  BY <1>2 DEF MaxAge
<1>3. CASE phase \in {"boundary", "rest"}
  BY <1>3 DEF MaxAge
<1>. QED
  BY <1>1, <1>2, <1>3 DEF LinkType

(* An answer with the id of the request that waits is its answer.            *)
LEMMA SameIdSameRequest ==
  ASSUME LinkType, NEW q \in Request, Recent(q, MaxAge, sent, transaction), q.transaction = transaction
  PROVE  q.id = sent
<1>1. sent \in Nat /\ q.id \in Nat /\ transaction \in 0 .. Modulus - 1
  BY DEF LinkType, Request
<1>2. sent - q.id \in 0..7
  BY <1>1, AgeRange DEF Recent
<1>3. transaction = Before(sent - q.id, transaction)
  BY DEF Recent
<1>. QED
  BY <1>1, <1>2, <1>3, Bounds DEF Before

LEMMA LinkInitInv == LinkInit => LinkInv /\ PaidFor
<1>. SUFFICES ASSUME LinkInit PROVE LinkInv /\ PaidFor
  OBVIOUS
<1>1. LinkType
  <2>1. owed \in Seq(Request) /\ wire \in Seq(Frame)
    BY DEF LinkInit
  <2>2. transaction \in 0 .. Modulus - 1 /\ asked \in [1..6 -> Nat] /\ values \in [1..6 -> Nat]
    BY Bounds DEF LinkInit
  <2>. QED
    BY <2>1, <2>2 DEF LinkInit, LinkType
<1>2. Progress /\ InOrder /\ AllRecent
  BY Bounds DEF LinkInit, Progress, InOrder, AllRecent, Waiting, Reading
<1>3. RightAnswer
  BY Bounds DEF LinkInit, RightAnswer
<1>4. PaidFor
  BY DEF LinkInit, PaidFor, Dirt, Clean, Waiting, Reading
<1>. QED
  BY <1>1, <1>2, <1>3, <1>4 DEF LinkInv
-----------------------------------------------------------------------------
LEMMA TailDrops ==
  ASSUME NEW S, NEW s \in Seq(S), s # <<>>
  PROVE  /\ Tail(s) \in Seq(S) /\ Len(s) \in Nat \ {0} /\ Len(Tail(s)) = Len(s) - 1
         /\ \A i \in 1 .. Len(Tail(s)) : i + 1 \in 1 .. Len(s) /\ Tail(s)[i] = s[i + 1]
         /\ Head(s) = s[1] /\ Head(s) \in S
  BY HeadTailProperties

(* A request grows older by one with every later one.                        *)
LEMMA OneOlder ==
  ASSUME LinkType, NEW q \in Request, Recent(q, MaxAge, sent, transaction),
         transaction' = NextTransaction, sent' = sent + 1, MaxAge' = MaxAge + 1
  PROVE  Recent(q, MaxAge', sent', transaction')
<1>1. sent \in Nat /\ q.id \in Nat /\ q.id <= sent /\ transaction \in 0 .. Modulus - 1
  BY DEF LinkType, Request, Recent
<1>2. sent - q.id \in 0..7 /\ sent - q.id <= MaxAge /\ MaxAge \in 0..7
  BY <1>1, AgeRange DEF Recent
<1>3. sent' - q.id = (sent - q.id) + 1
  BY <1>1
<1>4. Before(sent' - q.id, transaction') = Before(sent - q.id, transaction)
  BY <1>1, <1>2, <1>3, Bounds, MaskWraps DEF Before
<1>5. q.transaction = Before(sent - q.id, transaction)
  BY DEF Recent
<1>6. q.id <= sent' /\ sent' - q.id <= MaxAge'
  BY <1>1, <1>2, <1>3
<1>. QED
  BY <1>4, <1>5, <1>6 DEF Recent

LEMMA StillRecent ==
  ASSUME LinkType, NEW q \in Request, Recent(q, MaxAge, sent, transaction),
         UNCHANGED <<transaction, sent>>, sent - q.id <= MaxAge'
  PROVE  Recent(q, MaxAge', sent', transaction')
  BY DEF Recent, Before

LEMMA UnderWay ==
  ASSUME LinkType
  PROVE  /\ \A i \in 1 .. Len(wire) : wire[i] \in Frame /\ wire[i].to \in Request
         /\ \A i \in 1 .. Len(owed) : owed[i] \in Request
         /\ Len(wire) \in Nat /\ Len(owed) \in Nat
<1>1. \A f \in Frame : f.to \in Request
  BY DEF Frame
<1>2. wire \in Seq(Frame) /\ owed \in Seq(Request)
  BY DEF LinkType
<1>. QED
  BY <1>1, <1>2

(* Answers leave the wire from its front; what stays keeps its order.        *)
LEMMA FewerUnderWay ==
  ASSUME LinkType, InOrder, AllRecent, UNCHANGED <<transaction, sent>>,
         \/ wire' = <<>> /\ owed' = <<>>
         \/ /\ \/ UNCHANGED <<wire, owed>>
               \/ wire # <<>> /\ wire' = Tail(wire) /\ owed' = owed
            /\ \A i \in 1 .. Len(wire) : sent - wire[i].to.id <= MaxAge'
            /\ \A i \in 1 .. Len(owed) : sent - owed[i].id <= MaxAge'
  PROVE  wire' \in Seq(Frame) /\ owed' \in Seq(Request) /\ InOrder' /\ AllRecent'
<1>1. CASE wire' = <<>> /\ owed' = <<>>
  BY <1>1 DEF InOrder, AllRecent
<1>2. ASSUME ~(wire' = <<>> /\ owed' = <<>>)
      PROVE  wire' \in Seq(Frame) /\ owed' \in Seq(Request) /\ InOrder' /\ AllRecent'
  <2>1. /\ \A i \in 1 .. Len(wire) : Recent(wire[i].to, MaxAge', sent', transaction')
        /\ \A i \in 1 .. Len(owed) : Recent(owed[i], MaxAge', sent', transaction')
    BY <1>2, StillRecent, UnderWay DEF AllRecent
  <2>2. CASE UNCHANGED <<wire, owed>>
    BY <2>1, <2>2 DEF InOrder, AllRecent, LinkType
  <2>3. CASE wire # <<>> /\ wire' = Tail(wire) /\ owed' = owed
    <3>1. /\ wire' \in Seq(Frame) /\ owed' \in Seq(Request)
          /\ Len(wire) \in Nat /\ Len(wire') = Len(wire) - 1 /\ Len(owed') = Len(owed)
          /\ \A i \in 1 .. Len(wire') : i + 1 \in 1 .. Len(wire) /\ wire'[i] = wire[i + 1]
      BY <2>3, TailDrops DEF LinkType
    <3>2. \A i \in 1 .. Len(wire') : Recent(wire'[i].to, MaxAge', sent', transaction')
      BY <2>1, <3>1
    <3>3. InOrder'
      <4>1. \A i, j \in 1 .. Len(wire') : i <= j => wire'[i].to.id <= wire'[j].to.id
        <5>. SUFFICES ASSUME NEW i \in 1 .. Len(wire'), NEW j \in 1 .. Len(wire'), i <= j
                      PROVE  wire'[i].to.id <= wire'[j].to.id
          OBVIOUS
        <5>1. i + 1 \in 1 .. Len(wire) /\ j + 1 \in 1 .. Len(wire) /\ i + 1 <= j + 1
          BY <3>1
        <5>2. wire[i + 1].to.id <= wire[j + 1].to.id
          BY <5>1 DEF InOrder
        <5>. QED
          BY <3>1, <5>2
      <4>2. \A i \in 1 .. Len(wire'), j \in 1 .. Len(owed') : wire'[i].to.id <= owed'[j].id
        BY <2>3, <3>1 DEF InOrder
      <4>. QED
        BY <2>3, <4>1, <4>2 DEF InOrder
    <3>. QED
      BY <2>1, <2>3, <3>1, <3>2, <3>3 DEF AllRecent
  <2>. QED
    BY <1>2, <2>2, <2>3
<1>. QED
  BY <1>1, <1>2

LEMMA SendKeeps ==
  ASSUME LinkInv, SendRequest
  PROVE  LinkInv'
<1>1. LinkType /\ Progress /\ InOrder /\ AllRecent /\ RightAnswer
  BY DEF LinkInv
<1>2. /\ Reading /\ ~Waiting /\ ~aborted
      /\ transaction' = NextTransaction /\ sent' = sent + 1
      /\ asked' = [asked EXCEPT ![position] = sent']
      /\ UNCHANGED <<wire, phase, position, aborted, values, faults, lost>>
  BY DEF SendRequest
<1>3. position \in 1..6 /\ sent \in Nat /\ sent' \in Nat \ {0} /\ asked'[position] = sent'
  <2>1. sent \in Nat /\ sent' = sent + 1
    BY <1>1, <1>2 DEF LinkType
  <2>2. position \in 1..6 /\ asked \in [1..6 -> Nat]
    BY <1>1, <1>2 DEF LinkType, Reading
  <2>. QED
    BY <1>2, <2>1, <2>2
<1>4. transaction' \in 0 .. Modulus - 1
  <2>1. transaction \in 0 .. Modulus - 1 /\ Modulus \in Nat /\ Modulus > 7
    BY <1>1, Bounds DEF LinkType
  <2>. QED
    BY <1>1, <1>2, <2>1, MaskWraps
<1>5. PICK r \in Request : /\ r.id = sent' /\ r.transaction = transaction'
                          /\ owed' = Append(owed, r)
  <2>1. [id |-> sent', transaction |-> transaction', function |-> Requests[position].function,
         bytes |-> ByteCount(Requests[position])] \in Request
    BY <1>1, <1>2, <1>3, <1>4, ByteCounts, Bounds DEF Request
  <2>. QED
    BY <2>1 DEF SendRequest
<1>6. Waiting' /\ Reading' /\ MaxAge' = MaxAge + 1
  <2>1. Reading' /\ Waiting'
    BY <1>2, <1>3 DEF Reading, Waiting
  <2>2. position \in 1..6 /\ phase \in {"cycle", "evidence"}
    BY <1>2, <1>3 DEF Reading
  <2>. QED
    BY <1>2, <2>1, <2>2 DEF MaxAge
<1>7. /\ owed' \in Seq(Request) /\ Len(owed) \in Nat /\ Len(owed') = Len(owed) + 1
      /\ owed'[Len(owed')] = r /\ \A i \in 1 .. Len(owed) : owed'[i] = owed[i]
  <2>1. owed \in Seq(Request)
    BY <1>1 DEF LinkType
  <2>. QED
    BY <1>5, <2>1, AppendProperties
<1>8. r.id = sent' /\ r.transaction = transaction'
  BY <1>5
<1>9. LinkType'
  <2>1. asked' \in [1..6 -> Nat]
    BY <1>1, <1>2, <1>3 DEF LinkType
  <2>. QED
    BY <1>1, <1>2, <1>3, <1>4, <1>7, <2>1 DEF LinkType
<1>14. /\ \A i \in 1..6 : i > position => asked[i] = 0
       /\ \A i \in 1..6 : i >= position => values[i] = 0
       /\ values[position] = 0
  <2>1. \A i \in 1..6 : (i > position => asked[i] = 0) /\ (i >= position => values[i] = 0)
    BY <1>1, <1>2 DEF Progress
  <2>2. position >= position
    BY <1>3
  <2>. QED
    BY <1>3, <2>1, <2>2
<1>10. Progress'
  <2>1. asked \in [1..6 -> Nat]
    BY <1>1 DEF LinkType
  <2>2. \A i \in 1..6 : i > position => asked'[i] = 0
    BY <1>2, <1>3, <1>14, <2>1
  <2>. QED
    BY <1>2, <1>3, <1>6, <1>14, <2>2 DEF Progress
<1>11. InOrder'
  <2>1. /\ \A i \in 1 .. Len(wire) : wire[i].to.id \in Nat /\ wire[i].to.id <= sent'
        /\ \A i \in 1 .. Len(owed) : owed[i].id \in Nat /\ owed[i].id <= sent'
    <3>1. \A q \in Request : q.id \in Nat
      BY DEF Request
    <3>2. /\ \A i \in 1 .. Len(wire) : wire[i].to \in Request /\ wire[i].to.id <= sent
          /\ \A i \in 1 .. Len(owed) : owed[i] \in Request /\ owed[i].id <= sent
      BY <1>1, UnderWay DEF AllRecent, Recent
    <3>3. sent \in Nat /\ sent' = sent + 1
      BY <1>2, <1>3
    <3>. QED
      BY <3>1, <3>2, <3>3
  <2>2. \A i \in 1 .. Len(owed') : i \in 1 .. Len(owed) \/ i = Len(owed')
    BY <1>7
  <2>3. \A i \in 1 .. Len(owed') : owed'[i].id \in Nat /\ owed'[i].id <= sent'
    BY <1>3, <1>7, <1>8, <2>1, <2>2
  <2>4. \A i, j \in 1 .. Len(owed') : i <= j => owed'[i].id <= owed'[j].id
    <3>. SUFFICES ASSUME NEW i \in 1 .. Len(owed'), NEW j \in 1 .. Len(owed'), i <= j
                  PROVE  owed'[i].id <= owed'[j].id
      OBVIOUS
    <3>1. CASE j = Len(owed')
      BY <1>7, <1>8, <2>3, <3>1
    <3>2. CASE j \in 1 .. Len(owed)
      <4>1. i \in 1 .. Len(owed)
        BY <1>7, <3>2
      <4>. QED
        BY <1>1, <1>7, <3>2, <4>1 DEF InOrder
    <3>. QED
      BY <2>2, <3>1, <3>2
  <2>5. \A i \in 1 .. Len(wire), j \in 1 .. Len(owed') : wire[i].to.id <= owed'[j].id
    BY <1>1, <1>7, <1>8, <2>1, <2>2 DEF InOrder
  <2>. QED
    BY <1>1, <1>2, <2>4, <2>5 DEF InOrder
<1>12. AllRecent'
  <2>1. /\ \A i \in 1 .. Len(wire) : Recent(wire[i].to, MaxAge', sent', transaction')
        /\ \A i \in 1 .. Len(owed) : Recent(owed[i], MaxAge', sent', transaction')
    BY <1>1, <1>2, <1>6, OneOlder, UnderWay DEF AllRecent
  <2>2. MaxAge \in 0..7
    BY <1>1, AgeRange
  <2>3. Recent(r, MaxAge', sent', transaction')
    <3>1. \A n \in Nat : n <= n /\ n - n = 0 /\ Before(0, n) = n
      BY DEF Before
    <3>2. 0 <= MaxAge'
      BY <1>6, <2>2
    <3>3. transaction' \in Nat /\ sent' \in Nat
      BY <1>3, <1>4, Bounds
    <3>4. Before(0, transaction') = transaction' /\ sent' <= sent' /\ sent' - sent' = 0
      BY <3>1, <3>3
    <3>. QED
      BY <1>8, <3>1, <3>2, <3>4 DEF Recent
  <2>. QED
    BY <1>2, <1>7, <2>1, <2>3 DEF AllRecent
<1>13. RightAnswer'
  <2>1. values \in [1..6 -> Nat] /\ asked \in [1..6 -> Nat] /\ values[position] = 0
    BY <1>1, <1>2, <1>3, <1>14 DEF LinkType
  <2>. QED
    BY <1>1, <1>2, <1>3, <2>1 DEF RightAnswer
<1>. QED
  BY <1>9, <1>10, <1>11, <1>12, <1>13 DEF LinkInv

-----------------------------------------------------------------------------
(* What is taken for a value has the id of the request that waits.           *)
LEMMA TakenIsAnswer ==
  ASSUME LinkInv, wire # <<>>, Outcome(Head(wire)) = "ok"
  PROVE  Head(wire).to \in Request /\ Head(wire).to.id = sent
<1>1. LinkType /\ AllRecent
  BY DEF LinkInv
<1>2. 1 \in 1 .. Len(wire) /\ Head(wire) = wire[1]
  <2>1. wire \in Seq(Frame)
    BY <1>1 DEF LinkType
  <2>. QED
    BY <2>1, TailDrops
<1>3. Head(wire).to.transaction = transaction
  BY DEF Outcome
<1>4. Head(wire).to \in Request /\ Recent(Head(wire).to, MaxAge, sent, transaction)
  BY <1>1, <1>2, UnderWay DEF AllRecent
<1>. QED
  BY <1>1, <1>3, <1>4, SameIdSameRequest

(* Then nothing that is under way is older.                                  *)
LEMMA NothingOlder ==
  ASSUME LinkInv, wire # <<>>, Head(wire).to.id = sent
  PROVE  /\ \A i \in 1 .. Len(wire) : sent - wire[i].to.id = 0
         /\ \A i \in 1 .. Len(owed) : sent - owed[i].id = 0
<1>1. LinkType /\ InOrder /\ AllRecent
  BY DEF LinkInv
<1>2. sent \in Nat /\ wire \in Seq(Frame)
  BY <1>1 DEF LinkType
<1>3. Len(wire) \in Nat /\ 1 \in 1 .. Len(wire) /\ Head(wire) = wire[1]
  BY <1>2, TailDrops
<1>4. /\ \A i \in 1 .. Len(wire) : wire[i].to.id <= sent /\ sent <= wire[i].to.id
      /\ \A i \in 1 .. Len(owed) : owed[i].id <= sent /\ sent <= owed[i].id
  <2>1. /\ \A i \in 1 .. Len(wire) : wire[1].to.id <= wire[i].to.id
        /\ \A i \in 1 .. Len(owed) : wire[1].to.id <= owed[i].id
    <3>1. \A i \in 1 .. Len(wire) : 1 <= i
      BY <1>3
    <3>. QED
      BY <1>1, <1>3, <3>1 DEF InOrder
  <2>. QED
    BY <1>1, <1>3, <2>1 DEF AllRecent, Recent
<1>5. /\ \A i \in 1 .. Len(wire) : wire[i].to.id \in Nat
      /\ \A i \in 1 .. Len(owed) : owed[i].id \in Nat
  <2>1. \A q \in Request : q.id \in Nat
    BY DEF Request
  <2>. QED
    BY <1>1, <2>1, UnderWay
<1>6. \A m \in Nat : m <= sent /\ sent <= m => sent - m = 0
  BY <1>2
<1>. QED
  BY <1>4, <1>5, <1>6

(* A block of the cycle is read.                                             *)
LEMMA BlockRead ==
  ASSUME LinkInv, Waiting, phase = "cycle", wire # <<>>, Head(wire).to.id = sent,
         BlockEnds("ok", sent), UNCHANGED <<transaction, asked, sent, faults>>
  PROVE  LinkInv' /\ ~Waiting'
<1>1. LinkType /\ Progress /\ InOrder /\ AllRecent /\ RightAnswer
  BY DEF LinkInv
<1>2. /\ values' = [values EXCEPT ![position] = sent]
      /\ IF position < 4 THEN position' = position + 1 /\ phase' = "cycle"
                         ELSE phase' = "boundary" /\ position' = position
      /\ owed' = owed /\ wire' = Tail(wire) /\ UNCHANGED <<lost, aborted>>
  BY Bounds DEF BlockEnds, KeepSocket
<1>3. position \in 1..4 /\ position \in 1..6 /\ sent \in Nat /\ values \in [1..6 -> Nat] /\ asked \in [1..6 -> Nat]
  BY <1>1 DEF LinkType
<1>4. asked[position] = sent /\ ~aborted
  BY <1>1 DEF Progress
<1>5. \A i \in 1..6 : (i > position => asked[i] = 0) /\ (i >= position => values[i] = 0)
  BY <1>1 DEF Progress, Reading
<1>6. phase' \in {"cycle", "boundary"} /\ ~Waiting'
  <2>1. CASE position < 4
    <3>1. position' \in 1..6 /\ position' > position
      BY <1>2, <1>3, <2>1, SMTT(30)
    <3>. QED
      BY <1>2, <1>5, <2>1, <3>1 DEF Waiting
  <2>2. CASE ~(position < 4)
    BY <1>2, <2>2 DEF Waiting, Reading
  <2>. QED
    BY <2>1, <2>2
<1>7. MaxAge' \in {0, 6}
  BY <1>6 DEF MaxAge
<1>8. wire' \in Seq(Frame) /\ owed' \in Seq(Request) /\ InOrder' /\ AllRecent'
  <2>1. /\ \A i \in 1 .. Len(wire) : sent - wire[i].to.id <= MaxAge'
        /\ \A i \in 1 .. Len(owed) : sent - owed[i].id <= MaxAge'
    BY <1>7, NothingOlder
  <2>. QED
    BY <1>1, <1>2, <2>1, FewerUnderWay
<1>9. LinkType'
  <2>1. values' \in [1..6 -> Nat]
    BY <1>2, <1>3
  <2>2. phase' = "cycle" => position' \in 1..4
    <3>1. \A n \in 1..4 : n < 4 => n + 1 \in 1..4
      OBVIOUS
    <3>2. CASE position < 4
      BY <1>2, <1>3, <3>1, <3>2
    <3>3. CASE ~(position < 4)
      BY <1>2, <3>3
    <3>. QED
      BY <3>2, <3>3
  <2>. QED
    BY <1>1, <1>2, <1>6, <1>8, <2>1, <2>2 DEF LinkType
<1>10. Progress'
  <2>1. CASE position < 4
    <3>1. \A i \in 1..6 : (i > position' => i > position) /\ (i >= position' => i > position)
      <4>1. \A i, p \in 1..6 : (i > p + 1 => i > p) /\ (i >= p + 1 => i > p)
        OBVIOUS
      <4>2. position' = position + 1
        BY <1>2, <2>1
      <4>. QED
        BY <1>3, <4>1, <4>2
    <3>2. \A i \in 1..6 : i > position => i >= position /\ i # position
      BY <1>3
    <3>3. \A i \in 1..6 : i > position => values'[i] = 0
      BY <1>2, <1>3, <1>5, <3>2
    <3>. QED
      BY <1>4, <1>5, <1>6, <3>1, <3>3 DEF Progress
  <2>2. CASE ~(position < 4)
    BY <1>2, <1>6, <2>2 DEF Progress, Reading
  <2>. QED
    BY <2>1, <2>2
<1>11. RightAnswer'
  BY <1>1, <1>2, <1>3, <1>4 DEF RightAnswer
<1>. QED
  BY <1>6, <1>8, <1>9, <1>10, <1>11 DEF LinkInv

(* A cycle fails: the socket is closed, and what was under way with it.      *)
LEMMA CycleLost ==
  ASSUME LinkInv, phase = "cycle", phase' = "boundary", Close, lost' = lost + 1, faults' \in Nat,
         ~aborted, UNCHANGED <<transaction, asked, sent, position, values, aborted>>
  PROVE  LinkInv' /\ Clean'
<1>1. LinkType /\ RightAnswer
  BY DEF LinkInv
<1>2. LinkType'
  BY <1>1 DEF LinkType, Close
<1>3. Progress' /\ InOrder' /\ AllRecent' /\ Clean'
  BY DEF Progress, InOrder, AllRecent, Clean, Waiting, Reading, Close
<1>. QED
  BY <1>1, <1>2, <1>3 DEF LinkInv, RightAnswer

(* A probe ends, read or not, or is skipped.                                 *)
LEMMA ProbeDone ==
  ASSUME LinkInv, phase = "evidence", NextProbe, aborted' \in BOOLEAN, faults' \in Nat,
         NEW taken, taken \in {0, asked[position]}, values' = [values EXCEPT ![position] = taken],
         UNCHANGED <<transaction, asked, sent, lost>>,
         \/ Close
         \/ wire # <<>> /\ KeepSocket
         \/ UNCHANGED <<wire, owed>>
  PROVE  LinkInv' /\ ~Waiting'
<1>1. LinkType /\ Progress /\ InOrder /\ AllRecent /\ RightAnswer
  BY DEF LinkInv
<1>2. IF position < 6 THEN position' = position + 1 /\ phase' = "evidence"
                      ELSE phase' = "rest" /\ position' = position
  BY Bounds DEF NextProbe
<1>3. position \in 1..6 /\ sent \in Nat /\ values \in [1..6 -> Nat] /\ asked \in [1..6 -> Nat]
  BY <1>1 DEF LinkType
<1>4. \A i \in 1..6 : (i > position => asked[i] = 0) /\ (i >= position => values[i] = 0)
  BY <1>1 DEF Progress, Reading
<1>5. /\ position' \in 1..6 /\ phase' \in {"evidence", "rest"}
      /\ phase' = "evidence" => position' = position + 1
  <2>1. CASE position < 6
    <3>1. position + 1 \in 1..6
      BY <1>3, <2>1
    <3>. QED
      BY <1>2, <2>1, <3>1
  <2>2. CASE ~(position < 6)
    BY <1>2, <1>3, <2>2
  <2>. QED
    BY <2>1, <2>2
<1>6. ~Waiting'
  <2>1. CASE phase' = "evidence"
    <3>1. position' > position
      BY <1>3, <1>5, <2>1
    <3>. QED
      BY <1>4, <1>5, <3>1 DEF Waiting
  <2>2. CASE phase' = "rest"
    BY <2>2 DEF Waiting, Reading
  <2>. QED
    BY <1>5, <2>1, <2>2
<1>7. MaxAge \in 0..6 /\ MaxAge' \in 0..6 /\ MaxAge <= MaxAge'
  <2>1. MaxAge \in {position - 1, position - 1 + 1}
    BY DEF MaxAge
  <2>2. CASE phase' = "evidence"
    <3>1. MaxAge' = position' - 1
      BY <1>6, <2>2 DEF MaxAge
    <3>2. MaxAge' = position
      BY <1>3, <1>5, <2>2, <3>1
    <3>3. \A n \in 1..6 : n - 1 \in 0..6 /\ n - 1 + 1 = n /\ n \in 0..6 /\ n - 1 <= n /\ n <= n
      OBVIOUS
    <3>4. MaxAge \in {position - 1, position}
      BY <1>3, <2>1, <3>3
    <3>. QED
      BY <1>3, <3>2, <3>3, <3>4
  <2>3. CASE phase' = "rest"
    <3>1. MaxAge' = 6
      BY <2>3 DEF MaxAge
    <3>2. \A n \in 1..6 : n - 1 \in 0..6 /\ n - 1 + 1 = n /\ n \in 0..6 /\ n - 1 <= 6 /\ n <= 6
      OBVIOUS
    <3>3. MaxAge \in {position - 1, position}
      BY <1>3, <2>1, <3>2
    <3>4. position \in 0..6 /\ position - 1 \in 0..6 /\ position <= 6 /\ position - 1 <= 6
      BY <1>3, <3>2
    <3>5. MaxAge \in 0..6 /\ MaxAge <= 6
      BY <3>3, <3>4
    <3>6. 6 \in 0..6
      OBVIOUS
    <3>. QED
      BY <3>1, <3>5, <3>6
  <2>. QED
    BY <1>5, <2>2, <2>3
<1>8. wire' \in Seq(Frame) /\ owed' \in Seq(Request) /\ InOrder' /\ AllRecent'
  <2>1. /\ \A i \in 1 .. Len(wire) : sent - wire[i].to.id <= MaxAge'
        /\ \A i \in 1 .. Len(owed) : sent - owed[i].id <= MaxAge'
    <3>1. \A q \in Request : sent - q.id <= MaxAge => sent - q.id <= MaxAge'
      <4>1. sent \in Nat /\ \A q \in Request : q.id \in Nat
        BY <1>1 DEF Request, LinkType
      <4>2. \A m \in Int : m <= MaxAge => m <= MaxAge'
        BY <1>7
      <4>3. \A q \in Request : sent - q.id \in Int
        BY <4>1
      <4>. QED
        BY <4>2, <4>3
    <3>. QED
      BY <1>1, <3>1, UnderWay DEF AllRecent, Recent
  <2>. QED
    BY <1>1, <2>1, FewerUnderWay DEF Close, KeepSocket
<1>9. LinkType'
  <2>1. values' \in [1..6 -> Nat]
    <3>1. taken \in Nat
      BY <1>3, SMTT(30)
    <3>. QED
      BY <1>3, <3>1
  <2>. QED
    BY <1>1, <1>5, <1>8, <2>1 DEF LinkType
<1>10. Progress'
  <2>1. CASE phase' = "evidence"
    <3>1. \A i \in 1..6 : (i > position' => i > position) /\ (i >= position' => i > position)
      <4>1. \A i, p \in 1..6 : (i > p + 1 => i > p) /\ (i >= p + 1 => i > p)
        OBVIOUS
      <4>2. position' = position + 1
        BY <1>5, <2>1
      <4>. QED
        BY <1>3, <4>1, <4>2
    <3>2. \A i \in 1..6 : i > position => i >= position /\ i # position
      BY <1>3
    <3>3. \A i \in 1..6 : i > position => values'[i] = 0
      BY <1>3, <1>4, <3>2
    <3>. QED
      BY <1>4, <1>6, <3>1, <3>3 DEF Progress
  <2>2. CASE phase' = "rest"
    BY <1>6, <2>2 DEF Progress, Reading
  <2>. QED
    BY <1>5, <2>1, <2>2
<1>11. RightAnswer'
  BY <1>1, <1>3 DEF RightAnswer
<1>. QED
  BY <1>6, <1>8, <1>9, <1>10, <1>11 DEF LinkInv

(* The requests of the next phase begin; what is under way grows no older.   *)
LEMMA PhaseBegins ==
  ASSUME LinkInv, BeginEvidence \/ BeginCycle
  PROVE  LinkInv' /\ ~Waiting' /\ ~Waiting
<1>1. LinkType /\ InOrder /\ AllRecent
  BY DEF LinkInv
<1>2. /\ \/ phase = "boundary" /\ phase' = "evidence"
         \/ phase \in {"boundary", "rest"} /\ phase' = "cycle"
      /\ position' = 1 /\ aborted' = FALSE /\ asked' = None /\ values' = None
      /\ UNCHANGED <<transaction, owed, wire, sent, faults, lost>>
  BY DEF BeginEvidence, BeginCycle
<1>3. \A i \in 1..6 : asked'[i] = 0 /\ values'[i] = 0
  BY <1>2, Bounds
<1>4. ~Waiting /\ ~Waiting'
  BY <1>2, <1>3 DEF Waiting, Reading
<1>5. MaxAge \in 0..6 /\ MaxAge' \in 0..6 /\ MaxAge <= MaxAge'
  <2>1. CASE phase = "boundary"
    <3>1. MaxAge = 0
      BY <2>1 DEF MaxAge
    <3>2. MaxAge' \in {0, 6}
      <4>1. \A n \in {1} : n - 1 = 0
        OBVIOUS
      <4>. QED
        BY <1>2, <1>4, <4>1 DEF MaxAge
    <3>. QED
      BY <3>1, <3>2
  <2>2. CASE phase = "rest" /\ phase' = "cycle"
    BY <1>4, <2>2 DEF MaxAge
  <2>. QED
    BY <1>2, <2>1, <2>2
<1>6. wire' \in Seq(Frame) /\ owed' \in Seq(Request) /\ InOrder' /\ AllRecent'
  <2>1. /\ \A i \in 1 .. Len(wire) : sent - wire[i].to.id <= MaxAge'
        /\ \A i \in 1 .. Len(owed) : sent - owed[i].id <= MaxAge'
    <3>1. \A q \in Request : sent - q.id <= MaxAge => sent - q.id <= MaxAge'
      <4>1. sent \in Nat /\ \A q \in Request : q.id \in Nat
        BY <1>1 DEF Request, LinkType
      <4>2. \A m \in Int : m <= MaxAge => m <= MaxAge'
        BY <1>5
      <4>3. \A q \in Request : sent - q.id \in Int
        BY <4>1
      <4>. QED
        BY <4>2, <4>3
    <3>. QED
      BY <1>1, <3>1, UnderWay DEF AllRecent, Recent
  <2>. QED
    BY <1>1, <1>2, <2>1, FewerUnderWay
<1>7. LinkType'
  <2>1. asked' \in [1..6 -> Nat] /\ values' \in [1..6 -> Nat]
    BY <1>2, Bounds
  <2>2. position' = 1 /\ 1 \in 1..4 /\ 1 \in 1..6
    BY <1>2
  <2>3. phase' \in {"cycle", "evidence"} /\ aborted' = FALSE
    BY <1>2
  <2>. QED
    BY <1>1, <1>2, <1>6, <2>1, <2>2, <2>3 DEF LinkType
<1>8. Progress' /\ RightAnswer'
  <2>1. DOMAIN values' = 1..6
    BY <1>2, Bounds
  <2>. QED
    BY <1>2, <1>3, <1>4, <2>1 DEF Progress, RightAnswer
<1>. QED
  BY <1>4, <1>6, <1>7, <1>8 DEF LinkInv

LEMMA AnswerKeeps ==
  ASSUME LinkInv, NEW defect \in Defects, NEW again \in BOOLEAN, DeviceAnswers(defect, again)
  PROVE  LinkInv'
<1>1. LinkType /\ Progress /\ InOrder /\ AllRecent /\ RightAnswer
  BY DEF LinkInv
<1>2. /\ owed # <<>> /\ owed' = IF again THEN owed ELSE Tail(owed)
      /\ UNCHANGED <<transaction, phase, position, aborted, asked, values, sent, lost>>
  BY DEF DeviceAnswers
<1>3. owed \in Seq(Request) /\ wire \in Seq(Frame) /\ faults \in Nat
  BY <1>1 DEF LinkType
<1>4. Len(owed) \in Nat \ {0} /\ Head(owed) = owed[1] /\ owed[1] \in Request
  BY <1>2, <1>3, TailDrops
<1>5. PICK f \in Frame : f.to = owed[1] /\ wire' = Append(wire, f)
  <2>1. [to |-> Head(owed), defect |-> defect] \in Frame
    BY <1>4 DEF Frame
  <2>. QED
    BY <1>4, <2>1 DEF DeviceAnswers
<1>6. /\ wire' \in Seq(Frame) /\ Len(wire) \in Nat /\ Len(wire') = Len(wire) + 1
      /\ wire'[Len(wire')] = f /\ \A i \in 1 .. Len(wire) : wire'[i] = wire[i]
  BY <1>3, <1>5, AppendProperties
<1>7. \A i \in 1 .. Len(wire') : i \in 1 .. Len(wire) \/ i = Len(wire')
  BY <1>6
<1>8. PICK d \in {0, 1} : /\ owed' \in Seq(Request) /\ Len(owed') \in Nat
                          /\ \A i \in 1 .. Len(owed') : i + d \in 1 .. Len(owed) /\ owed'[i] = owed[i + d]
  <2>1. CASE again
    <3>1. \A i \in 1 .. Len(owed) : i + 0 = i
      BY <1>4
    <3>. QED
      BY <1>2, <1>3, <1>4, <2>1, <3>1
  <2>2. CASE ~again
    BY <1>2, <1>3, <1>4, <2>2, TailDrops
  <2>. QED
    BY <2>1, <2>2
<1>9. InOrder'
  <2>1. \A i \in 1 .. Len(wire), j \in 1 .. Len(owed) : wire[i].to.id <= owed[j].id
    BY <1>1 DEF InOrder
  <2>2. 1 \in 1 .. Len(owed) /\ \A j \in 1 .. Len(owed) : owed[1].id <= owed[j].id
    <3>1. 1 \in 1 .. Len(owed) /\ \A j \in 1 .. Len(owed) : 1 <= j
      BY <1>4
    <3>. QED
      BY <1>1, <3>1 DEF InOrder
  <2>3. \A i, j \in 1 .. Len(wire') : i <= j => wire'[i].to.id <= wire'[j].to.id
    <3>. SUFFICES ASSUME NEW i \in 1 .. Len(wire'), NEW j \in 1 .. Len(wire'), i <= j
                  PROVE  wire'[i].to.id <= wire'[j].to.id
      OBVIOUS
    <3>1. CASE j \in 1 .. Len(wire)
      <4>1. i \in 1 .. Len(wire)
        BY <1>6, <3>1
      <4>. QED
        BY <1>1, <1>6, <3>1, <4>1 DEF InOrder
    <3>2. CASE i \in 1 .. Len(wire) /\ j = Len(wire')
      BY <1>5, <1>6, <2>1, <2>2, <3>2
    <3>3. CASE i = Len(wire') /\ j = Len(wire')
      BY <1>5, <1>6, <2>2, <3>3
    <3>4. i = Len(wire') => j = Len(wire')
      BY <1>6
    <3>. QED
      BY <1>7, <3>1, <3>2, <3>3, <3>4
  <2>4. \A i, j \in 1 .. Len(owed') : i <= j => owed'[i].id <= owed'[j].id
    <3>. SUFFICES ASSUME NEW i \in 1 .. Len(owed'), NEW j \in 1 .. Len(owed'), i <= j
                  PROVE  owed'[i].id <= owed'[j].id
      OBVIOUS
    <3>1. i + d \in 1 .. Len(owed) /\ j + d \in 1 .. Len(owed) /\ i + d <= j + d
      BY <1>8
    <3>2. owed[i + d].id <= owed[j + d].id
      BY <1>1, <3>1 DEF InOrder
    <3>. QED
      BY <1>8, <3>2
  <2>5. \A i \in 1 .. Len(wire'), j \in 1 .. Len(owed') : wire'[i].to.id <= owed'[j].id
    <3>. SUFFICES ASSUME NEW i \in 1 .. Len(wire'), NEW j \in 1 .. Len(owed')
                  PROVE  wire'[i].to.id <= owed'[j].id
      OBVIOUS
    <3>1. j + d \in 1 .. Len(owed) /\ owed'[j] = owed[j + d]
      BY <1>8
    <3>2. CASE i \in 1 .. Len(wire)
      BY <1>6, <2>1, <3>1, <3>2
    <3>3. CASE i = Len(wire')
      BY <1>5, <1>6, <2>2, <3>1, <3>3
    <3>. QED
      BY <1>7, <3>2, <3>3
  <2>. QED
    BY <2>3, <2>4, <2>5 DEF InOrder
<1>10. AllRecent'
  <2>1. MaxAge' = MaxAge
    BY <1>2 DEF MaxAge, Waiting, Reading
  <2>2. /\ \A i \in 1 .. Len(wire) : Recent(wire[i].to, MaxAge', sent', transaction')
        /\ \A i \in 1 .. Len(owed) : Recent(owed[i], MaxAge', sent', transaction')
    BY <1>1, <1>2, <2>1 DEF AllRecent
  <2>3. \A i \in 1 .. Len(wire') : Recent(wire'[i].to, MaxAge', sent', transaction')
    BY <1>4, <1>5, <1>6, <1>7, <2>2
  <2>4. \A i \in 1 .. Len(owed') : Recent(owed'[i], MaxAge', sent', transaction')
    BY <1>8, <2>2
  <2>. QED
    BY <2>3, <2>4 DEF AllRecent
<1>11. LinkType'
  <2>1. faults' \in Nat
    BY <1>3 DEF DeviceAnswers
  <2>. QED
    BY <1>1, <1>2, <1>6, <1>8, <2>1 DEF LinkType
<1>12. Progress' /\ RightAnswer'
  BY <1>1, <1>2 DEF Progress, RightAnswer, Waiting, Reading
<1>. QED
  BY <1>9, <1>10, <1>11, <1>12 DEF LinkInv

-----------------------------------------------------------------------------
(* Ways to keep the account: what is clean stays so; a dirty link is closed, *)
(* and a cycle lost with it; or there was a fault.                           *)
LEMMA Account ==
  ASSUME LinkType, PaidFor, LinkType',
         \/ lost' = lost /\ faults' = faults /\ (Clean => Clean')
         \/ lost' = lost + 1 /\ faults' = faults /\ ~Clean /\ Clean'
         \/ lost' = lost /\ faults' \in Nat /\ faults' > faults
         \/ lost' = lost + 1 /\ faults' = faults + 1 /\ Clean'
  PROVE  PaidFor'
<1>1. lost \in Nat /\ faults \in Nat /\ lost' \in Nat /\ faults' \in Nat
  BY DEF LinkType
<1>2. Dirt \in {0, 1} /\ (Clean => Dirt = 0) /\ (~Clean => Dirt = 1)
  BY DEF Dirt
<1>3. Dirt' \in {0, 1} /\ (Clean' => Dirt' = 0) /\ (~Clean' => Dirt' = 1)
  BY DEF Dirt
<1>4. lost + Dirt <= faults
  BY DEF PaidFor
<1>5. lost' + Dirt' <= faults'
  <2>1. CASE lost' = lost /\ faults' = faults /\ (Clean => Clean')
    <3>1. Dirt' <= Dirt
      BY <1>2, <1>3, <2>1
    <3>2. \A n, m \in Nat, d, e \in {0, 1} : n + d <= m /\ e <= d => n + e <= m
      OBVIOUS
    <3>. QED
      BY <1>1, <1>2, <1>3, <1>4, <2>1, <3>1, <3>2
  <2>2. CASE lost' = lost + 1 /\ faults' = faults /\ ~Clean /\ Clean'
    <3>1. Dirt = 1 /\ Dirt' = 0
      BY <1>2, <1>3, <2>2
    <3>. QED
      BY <1>1, <1>4, <2>2, <3>1
  <2>3. CASE lost' = lost /\ faults' \in Nat /\ faults' > faults
    <3>1. \A n, m, k \in Nat, d, e \in {0, 1} : n + d <= m /\ k > m => n + e <= k
      OBVIOUS
    <3>. QED
      BY <1>1, <1>2, <1>3, <1>4, <2>3, <3>1
  <2>4. CASE lost' = lost + 1 /\ faults' = faults + 1 /\ Clean'
    <3>1. Dirt' = 0
      BY <1>3, <2>4
    <3>. QED
      BY <1>1, <1>2, <1>4, <2>4, <3>1
  <2>. QED
    BY <2>1, <2>2, <2>3, <2>4
<1>. QED
  BY <1>5 DEF PaidFor

(* On a clean link the answer is the good one.                               *)
LEMMA CleanAnswer ==
  ASSUME LinkType, Clean, Waiting, wire # <<>>
  PROVE  Outcome(Head(wire)) = "ok" /\ Tail(wire) = <<>> /\ owed = <<>>
<1>1. wire \in Seq(Frame) /\ owed \in Seq(Request)
  BY DEF LinkType
<1>2. /\ Len(wire) \in Nat \ {0} /\ Len(owed) \in Nat /\ Head(wire) = wire[1]
      /\ Tail(wire) \in Seq(Frame) /\ Len(Tail(wire)) = Len(wire) - 1
  BY <1>1, TailDrops
<1>3. Len(wire) + Len(owed) <= 1 /\ \A i \in 1 .. Len(wire) : wire[i] = [to |-> CurrentRequest, defect |-> "none"]
  BY DEF Clean
<1>4. Len(wire) = 1 /\ Len(owed) = 0
  BY <1>2, <1>3
<1>5. Tail(wire) = <<>> /\ owed = <<>>
  <2>1. Len(Tail(wire)) = 0
    BY <1>2, <1>4
  <2>2. \A S : \A s \in Seq(S) : Len(s) = 0 => s = <<>>
    BY EmptySeq
  <2>. QED
    BY <1>1, <1>2, <1>4, <2>1, <2>2
<1>6. Head(wire) = [to |-> CurrentRequest, defect |-> "none"]
  BY <1>2, <1>3
<1>7. Outcome(Head(wire)) = "ok"
  <2>. DEFINE f == Head(wire)
              q == Requests[position]
  <2>1. f.defect = "none" /\ f.to = CurrentRequest
    BY <1>6
  <2>2. f.to.transaction = transaction /\ f.to.function = q.function /\ f.to.bytes = ByteCount(q)
    BY <2>1 DEF CurrentRequest
  <2>. HIDE DEF f, q
  <2>3. Outcome(f) = "ok"
    BY <2>1, <2>2 DEF Outcome, q
  <2>. QED
    BY <2>3 DEF f
<1>. QED
  BY <1>5, <1>7

LEMMA ReceiveKeeps ==
  ASSUME LinkInv, PaidFor, Receive
  PROVE  LinkInv' /\ PaidFor'
<1>. DEFINE outcome == Outcome(Head(wire))
            id == Head(wire).to.id
<1>1. /\ Waiting /\ wire # <<>>
      /\ BlockEnds(outcome, id) \/ ProbeEnds(outcome, id)
      /\ UNCHANGED <<transaction, asked, sent, faults>>
  BY DEF Receive
<1>2. LinkType /\ Progress
  BY DEF LinkInv
<1>3. asked[position] = sent /\ ~aborted /\ faults \in Nat
  BY <1>1, <1>2 DEF Progress, LinkType
<1>4. outcome = "ok" => id = sent
  BY <1>1, TakenIsAnswer
<1>5. Clean => outcome = "ok" /\ Tail(wire) = <<>> /\ owed = <<>>
  BY <1>1, <1>2, CleanAnswer
<1>. HIDE DEF outcome, id
<1>6. CASE BlockEnds(outcome, id) /\ outcome = "ok"
  <2>1. LinkInv' /\ ~Waiting'
    <3>1. id = sent /\ BlockEnds("ok", sent) /\ phase = "cycle"
      BY <1>4, <1>6 DEF BlockEnds
    <3>. QED
      BY <1>1, <3>1, BlockRead DEF id
  <2>2. lost' = lost /\ faults' = faults /\ (Clean => Clean')
    BY <1>1, <1>5, <1>6, <2>1 DEF BlockEnds, KeepSocket, Clean
  <2>. QED
    BY <1>2, <2>1, <2>2, Account DEF LinkInv
<1>7. CASE BlockEnds(outcome, id) /\ outcome # "ok"
  <2>1. /\ phase = "cycle" /\ phase' = "boundary" /\ lost' = lost + 1 /\ Close
        /\ UNCHANGED <<position, values, aborted>>
    BY <1>7 DEF BlockEnds
  <2>2. LinkInv' /\ Clean'
    BY <1>1, <1>3, <2>1, CycleLost
  <2>. QED
    BY <1>1, <1>2, <1>5, <1>7, <2>1, <2>2, Account DEF LinkInv
<1>8. CASE ProbeEnds(outcome, id)
  <2>. DEFINE taken == IF outcome = "ok" THEN id ELSE 0
  <2>1. taken \in {0, asked[position]}
    BY <1>3, <1>4
  <2>2. /\ phase = "evidence" /\ NextProbe /\ values' = [values EXCEPT ![position] = taken]
        /\ aborted' = (outcome = "transport") /\ lost' = lost
        /\ IF outcome = "transport" THEN Close ELSE KeepSocket
    BY <1>8 DEF ProbeEnds
  <2>3. aborted' \in BOOLEAN
    BY <2>2
  <2>. HIDE DEF taken
  <2>4. LinkInv' /\ ~Waiting'
    BY <1>1, <1>3, <2>1, <2>2, <2>3, ProbeDone
  <2>5. Clean => Clean'
    BY <1>5, <2>2, <2>4 DEF Clean, KeepSocket
  <2>. QED
    BY <1>1, <1>2, <2>2, <2>4, <2>5, Account DEF LinkInv
<1>. QED
  BY <1>1, <1>6, <1>7, <1>8

LEMMA FailureKeeps ==
  ASSUME LinkInv, PaidFor, TransportFails \/ ConnectFails
  PROVE  LinkInv' /\ PaidFor'
<1>1. /\ BlockEnds("transport", 0) \/ ProbeEnds("transport", 0)
      /\ faults' = faults + 1 /\ UNCHANGED <<transaction, asked, sent>>
      /\ Waiting \/ ~aborted
  BY DEF TransportFails, ConnectFails
<1>2. LinkType /\ ~aborted /\ faults \in Nat /\ faults' \in Nat /\ faults' > faults
  BY <1>1 DEF LinkInv, LinkType, Progress
<1>3. CASE BlockEnds("transport", 0)
  <2>1. /\ phase = "cycle" /\ phase' = "boundary" /\ lost' = lost + 1 /\ Close
        /\ UNCHANGED <<position, values, aborted>>
    BY <1>3 DEF BlockEnds
  <2>2. LinkInv' /\ Clean'
    BY <1>1, <1>2, <2>1, CycleLost
  <2>. QED
    BY <1>1, <1>2, <2>1, <2>2, Account DEF LinkInv
<1>4. CASE ProbeEnds("transport", 0)
  <2>1. /\ phase = "evidence" /\ NextProbe /\ values' = [values EXCEPT ![position] = 0]
        /\ aborted' = TRUE /\ Close /\ lost' = lost
    BY <1>4 DEF ProbeEnds
  <2>2. LinkInv'
    BY <1>1, <1>2, <2>1, ProbeDone
  <2>. QED
    BY <1>1, <1>2, <2>1, <2>2, Account DEF LinkInv
<1>. QED
  BY <1>1, <1>3, <1>4

LEMMA SkipKeeps ==
  ASSUME LinkInv, PaidFor, SkipProbe
  PROVE  LinkInv' /\ PaidFor'
<1>1. /\ phase = "evidence" /\ aborted /\ NextProbe
      /\ UNCHANGED <<owed, wire, transaction, asked, values, sent, lost, aborted, faults>>
  BY DEF SkipProbe
<1>2. LinkType /\ Progress
  BY DEF LinkInv
<1>3. position \in 1..6 /\ values \in [1..6 -> Nat] /\ aborted \in BOOLEAN /\ faults \in Nat
  BY <1>1, <1>2 DEF LinkType
<1>4. ~Waiting /\ asked[position] \in {0} /\ values[position] = 0
  <2>1. ~Waiting /\ Reading
    BY <1>1, <1>2 DEF Progress, Reading
  <2>2. position >= position
    BY <1>3
  <2>. QED
    BY <1>2, <1>3, <2>1, <2>2 DEF Progress, Waiting
<1>5. values' = [values EXCEPT ![position] = 0]
  BY <1>1, <1>3, <1>4
<1>6. LinkInv' /\ ~Waiting'
  BY <1>1, <1>3, <1>5, ProbeDone
<1>7. Clean => Clean'
  BY <1>1, <1>4, <1>6 DEF Clean
<1>. QED
  BY <1>1, <1>2, <1>6, <1>7, Account DEF LinkInv

LEMMA SendPays ==
  ASSUME LinkInv, PaidFor, SendRequest
  PROVE  PaidFor'
<1>1. LinkType /\ LinkType'
  BY SendKeeps DEF LinkInv
<1>2. /\ Reading /\ ~Waiting /\ UNCHANGED <<wire, phase, position, faults, lost>>
      /\ sent' = sent + 1 /\ asked' = [asked EXCEPT ![position] = sent']
      /\ owed' = Append(owed, [id |-> sent', transaction |-> transaction',
                               function |-> Requests[position].function,
                               bytes |-> ByteCount(Requests[position])])
  BY DEF SendRequest
<1>3. Waiting'
  <2>1. position \in 1..6 /\ asked \in [1..6 -> Nat] /\ sent \in Nat
    BY <1>1, <1>2 DEF LinkType, Reading
  <2>. QED
    BY <1>2, <2>1 DEF Waiting, Reading
<1>4. Requests' = Requests
  BY <1>2 DEF Requests
<1>5. owed' = Append(owed, CurrentRequest')
  BY <1>2, <1>4 DEF CurrentRequest, ByteCount
<1>6. ASSUME Clean PROVE Clean'
  <2>1. wire' = <<>> /\ owed' = <<CurrentRequest'>>
    BY <1>2, <1>5, <1>6 DEF Clean
  <2>. QED
    BY <1>3, <2>1 DEF Clean
<1>. QED
  BY <1>1, <1>2, <1>6, Account

LEMMA AnswerPays ==
  ASSUME LinkInv, PaidFor, NEW defect \in Defects, NEW again \in BOOLEAN, DeviceAnswers(defect, again)
  PROVE  PaidFor'
<1>1. LinkType /\ LinkType'
  BY AnswerKeeps DEF LinkInv
<1>. DEFINE cost == (IF defect = "none" THEN 0 ELSE 1) + (IF again THEN 1 ELSE 0)
<1>2. /\ owed # <<>> /\ owed' = IF again THEN owed ELSE Tail(owed)
      /\ wire' = Append(wire, [to |-> Head(owed), defect |-> defect])
      /\ faults' = faults + cost
      /\ UNCHANGED <<transaction, phase, position, asked, sent, lost>>
  BY DEF DeviceAnswers
<1>3. faults \in Nat /\ owed \in Seq(Request) /\ wire \in Seq(Frame)
  BY <1>1 DEF LinkType
<1>4. CASE defect = "none" /\ ~again
  <2>1. faults' = faults /\ owed' = Tail(owed)
    BY <1>2, <1>3, <1>4
  <2>2. ASSUME Clean PROVE Clean'
    <3>1. Waiting /\ Waiting' /\ CurrentRequest' = CurrentRequest
      BY <1>2, <2>2 DEF Clean, Waiting, Reading, CurrentRequest, Requests, ByteCount
    <3>2. Len(owed) \in Nat \ {0} /\ Len(wire) \in Nat /\ Head(owed) = owed[1] /\ owed' \in Seq(Request)
          /\ Len(owed') = Len(owed) - 1
      BY <1>2, <1>3, <2>1, TailDrops
    <3>3. Len(wire) + Len(owed) <= 1 /\ \A i \in 1 .. Len(owed) : owed[i] = CurrentRequest
      BY <2>2, <3>1 DEF Clean
    <3>4. Len(owed) = 1 /\ Len(wire) = 0 /\ Len(owed') = 0
      BY <3>2, <3>3
    <3>5. Head(owed) = CurrentRequest
      BY <3>2, <3>3, <3>4
    <3>6. wire = <<>> /\ owed' = <<>>
      BY <1>3, <3>2, <3>4, EmptySeq
    <3>7. wire' = <<[to |-> CurrentRequest', defect |-> "none"]>>
      BY <1>2, <1>4, <3>1, <3>5, <3>6
    <3>. QED
      BY <3>1, <3>6, <3>7 DEF Clean
  <2>. QED
    BY <1>1, <1>2, <2>1, <2>2, Account
<1>5. CASE ~(defect = "none" /\ ~again)
  <2>1. cost \in {1, 2}
    BY <1>5
  <2>. HIDE DEF cost
  <2>2. faults' \in Nat /\ faults' > faults
    BY <1>2, <1>3, <2>1
  <2>. QED
    BY <1>1, <1>2, <2>2, Account
<1>. QED
  BY <1>4, <1>5

LEMMA LinkStep == LinkInv /\ PaidFor /\ [LinkNext]_linkVars => LinkInv' /\ PaidFor'
<1>. SUFFICES ASSUME LinkInv, PaidFor, [LinkNext]_linkVars
              PROVE  LinkInv' /\ PaidFor'
  OBVIOUS
<1>1. CASE SendRequest
  BY <1>1, SendKeeps, SendPays
<1>2. CASE Receive
  BY <1>2, ReceiveKeeps
<1>3. CASE TransportFails \/ ConnectFails
  BY <1>3, FailureKeeps
<1>4. CASE SkipProbe
  BY <1>4, SkipKeeps
<1>5. CASE BeginEvidence \/ BeginCycle
  <2>1. LinkInv' /\ ~Waiting' /\ ~Waiting
    BY <1>5, PhaseBegins
  <2>2. lost' = lost /\ faults' = faults /\ (Clean => Clean')
    BY <1>5, <2>1 DEF BeginEvidence, BeginCycle, Clean
  <2>. QED
    BY <2>1, <2>2, Account DEF LinkInv
<1>6. CASE \E defect \in Defects, again \in BOOLEAN : DeviceAnswers(defect, again)
  BY <1>6, AnswerKeeps, AnswerPays
<1>7. CASE UNCHANGED linkVars
  BY <1>7, ZenonT(60) DEF linkVars, linkState, LinkInv, LinkType, Progress, InOrder, AllRecent, RightAnswer,
     Waiting, Reading, MaxAge, PaidFor, Dirt, Clean, CurrentRequest, Requests, ByteCount
<1>. QED
  BY <1>1, <1>2, <1>3, <1>4, <1>5, <1>6, <1>7 DEF LinkNext

-----------------------------------------------------------------------------
(* A value is the answer to the very request that was made for it, however   *)
(* often the device answers twice, late, wrongly or not at all, and for any  *)
(* number of ids larger than the probes of one evidence read (_probe,        *)
(* next_transaction_id, the parsers).                                        *)
THEOREM ValuesAreAnswers == LinkSpec => []RightAnswer
<1>1. LinkInv => RightAnswer
  BY DEF LinkInv
<1>. QED
  BY LinkInitInv, LinkStep, <1>1, PTL DEF LinkSpec

(* A misbehaviour costs at most one cycle, whatever the device does later:   *)
(* the failed read takes the connection with it (_read_block, close).        *)
THEOREM FaultsArePaidOnce == LinkSpec => []OneFaultOneCycle
<1>1. LinkInv /\ PaidFor => OneFaultOneCycle
  <2>. SUFFICES ASSUME LinkInv, PaidFor PROVE lost <= faults
    BY DEF OneFaultOneCycle
  <2>1. lost \in Nat /\ faults \in Nat /\ Dirt \in {0, 1}
    BY DEF LinkInv, LinkType, Dirt
  <2>. QED
    BY <2>1 DEF PaidFor
<1>. QED
  BY LinkInitInv, LinkStep, <1>1, PTL DEF LinkSpec

-----------------------------------------------------------------------------
(* The page *)

Asking == [kind : Kind, device : Device, latest : BOOLEAN]

BrowserType ==
  /\ selected \in Device
  /\ inflight \subseteq Asking
  /\ shown \in [Panel -> Device]

BrowserInv ==
  BrowserType /\ shown["control"] = selected /\ drawnLate \subseteq ByDevice

(* Outdating requests changes nothing but their generation.                  *)
LEMMA OutdatedRequests ==
  ASSUME NEW requests \in SUBSET Asking, NEW kinds
  PROVE  Outdated(kinds, requests) \subseteq Asking
<1>. SUFFICES ASSUME NEW r \in requests
              PROVE  (IF r.kind \in kinds THEN [r EXCEPT !.latest = FALSE] ELSE r) \in Asking
  BY DEF Outdated
<1>1. r \in Asking
  OBVIOUS
<1>2. CASE r.kind \in kinds
  BY <1>1, <1>2 DEF Asking
<1>3. CASE r.kind \notin kinds
  BY <1>1, <1>3
<1>. QED
  BY <1>2, <1>3

LEMMA AskType == \A kind \in Kind, d \in Device : Ask(kind, d) \in Asking
  BY DEF Ask, Asking

(* What an answer for the selected device does to the panels, if it is not   *)
(* late or is of a kind of which the devices alone are compared              *)
LEMMA DrawsRight ==
  ASSUME BrowserInv, UNCHANGED selected, NEW panels \in SUBSET Panel, NEW q \in inflight,
         \/ DrawAnswer(panels, q) /\ q.device = selected /\ (q.latest \/ q.kind \in ByDevice)
         \/ DrawNothing
  PROVE  /\ shown' \in [Panel -> Device] /\ drawnLate' \subseteq ByDevice
         /\ \A p \in Panel : shown'[p] # shown[p] => shown'[p] = selected'
         /\ shown'["control"] = selected'
<1>1. drawnLate' \subseteq ByDevice
  BY DEF BrowserInv, DrawAnswer, DrawNothing
<1>2. /\ shown' \in [Panel -> Device]
      /\ \A p \in Panel : shown'[p] # shown[p] => shown'[p] = selected'
      /\ shown'["control"] = selected'
  BY DEF BrowserInv, BrowserType, DrawAnswer, DrawNothing, Draw, Panel
<1>. QED
  BY <1>1, <1>2

(* One step of the page keeps the invariant and is as LateAnswersIgnored     *)
(* wants it.                                                                 *)
DrawnRight ==
  /\ shown'["control"] = selected'
  /\ \A p \in Panel : shown'[p] # shown[p] => shown'[p] = selected'
  /\ drawnLate' \subseteq ByDevice

LEMMA BrowserInitInv == BrowserInit => BrowserInv
<1>. SUFFICES ASSUME BrowserInit PROVE BrowserInv
  OBVIOUS
<1>1. Ask("device", selected) \in Asking
  BY AskType DEF BrowserInit, Kind
<1>. QED
  BY <1>1 DEF BrowserInit, BrowserInv, BrowserType, Panel

LEMMA RespondKeeps ==
  ASSUME BrowserInv, NEW q \in inflight, Respond(q)
  PROVE  BrowserInv' /\ DrawnRight
<1>1. q \in Asking /\ q.device \in Device /\ selected \in Device /\ Done(q) \subseteq inflight
      /\ inflight \subseteq Asking
  BY DEF BrowserInv, BrowserType, Asking, Done
<1>2. UNCHANGED selected
  BY DEF Respond, DeviceAnswer, BackendAnswer, CtAnswer, ScopeAnswer, ScopeCommandAnswer,
     LifecycleAnswer, LifecycleEnd
<1>3. \E panels \in SUBSET Panel :
        \/ DrawAnswer(panels, q) /\ q.device = selected /\ (q.latest \/ q.kind \in ByDevice)
        \/ DrawNothing
  <2>1. CASE DeviceAnswer(q)
    BY <2>1 DEF DeviceAnswer, Current, Panel
  <2>2. CASE BackendAnswer(q) \/ ScopeAnswer(q) \/ LifecycleEnd(q)
    BY <2>2 DEF BackendAnswer, ScopeAnswer, LifecycleEnd, Current, ScopeCurrent, Panel
  <2>3. CASE CtAnswer(q) \/ ScopeCommandAnswer(q)
    BY <2>3 DEF CtAnswer, ScopeCommandAnswer, ByDevice, Panel
  <2>4. CASE LifecycleAnswer(q)
    BY <2>4 DEF LifecycleAnswer, DrawNothing
  <2>. QED
    BY <2>1, <2>2, <2>3, <2>4 DEF Respond
<1>4. DrawnRight /\ shown' \in [Panel -> Device]
  BY <1>2, <1>3, DrawsRight DEF DrawnRight
<1>5. inflight' \subseteq Asking
  <2>1. Done(q) \subseteq Asking /\ Stale(Done(q)) \subseteq Asking
    BY <1>1, OutdatedRequests DEF Stale
  <2>2. \A d \in Device : Ask("backend", d) \in Asking /\ Ask("scope", d) \in Asking
    BY AskType DEF Kind
  <2>3. CASE DeviceAnswer(q)
    BY <1>1, <2>1, <2>2, <2>3 DEF DeviceAnswer
  <2>4. CASE LifecycleAnswer(q)
    <3>1. [q EXCEPT !.kind = "lifecycle end"] \in Asking
      BY <1>1 DEF Asking, Kind
    <3>. QED
      BY <1>1, <2>1, <2>2, <2>4, <3>1 DEF LifecycleAnswer
  <2>5. CASE BackendAnswer(q) \/ CtAnswer(q) \/ ScopeAnswer(q) \/ LifecycleEnd(q)
    BY <2>1, <2>5 DEF BackendAnswer, CtAnswer, ScopeAnswer, LifecycleEnd
  <2>6. CASE ScopeCommandAnswer(q)
    BY <2>1, <2>6 DEF ScopeCommandAnswer
  <2>. QED
    BY <2>3, <2>4, <2>5, <2>6 DEF Respond
<1>. QED
  BY <1>1, <1>2, <1>4, <1>5 DEF BrowserInv, BrowserType, DrawnRight

LEMMA BrowserStep == BrowserInv /\ [BrowserNext]_browserVars => BrowserInv' /\ DrawnRight
<1>. SUFFICES ASSUME BrowserInv, [BrowserNext]_browserVars PROVE BrowserInv' /\ DrawnRight
  OBVIOUS
<1>. USE DEF BrowserInv, BrowserType, DrawnRight
<1>0. /\ \A kind \in Kind, d \in Device : Ask(kind, d) \in Asking
      /\ \A kinds : Outdated(kinds, inflight) \subseteq Asking
  BY AskType, OutdatedRequests
<1>1. CASE Tick \/ Poll \/ ClickView
  <2>1. {"backend", "poll", "scope"} \subseteq Kind
    BY DEF Kind
  <2>2. inflight' \subseteq Asking
    BY <1>0, <1>1, <2>1 DEF Tick, Poll, ClickView, Stale
  <2>. QED
    BY <1>1, <2>2 DEF Tick, Poll, ClickView
<1>2. ASSUME NEW d \in Device, Select(d) PROVE BrowserInv' /\ DrawnRight
  <2>1. inflight' \subseteq Asking
    BY <1>0, <1>2 DEF Select, Kind
  <2>. QED
    BY <1>2, <2>1 DEF Select, Draw, Panel
<1>3. ASSUME NEW d \in Device, Message(d) PROVE BrowserInv' /\ DrawnRight
  BY <1>3 DEF Message, Draw, Panel
<1>4. ASSUME NEW kind \in Buttons, Click(kind) PROVE BrowserInv' /\ DrawnRight
  <2>1. inflight' \subseteq Asking
    BY <1>0, <1>4 DEF Click, Kind
  <2>. QED
    BY <1>4, <2>1 DEF Click, Draw, Panel
<1>5. CASE \E q \in inflight : Respond(q)
  BY <1>5, RespondKeeps
<1>6. CASE UNCHANGED browserVars
  BY <1>6 DEF browserVars
<1>. QED
  BY <1>1, <1>2, <1>3, <1>4, <1>5, <1>6 DEF BrowserNext

(* A panel turns to no device but the selected one and the button is always  *)
(* its own, for any selections, clicks and order of the answers. Of the      *)
(* requests that note a generation, no answer is drawn that a newer          *)
(* selection or SCOPE status request has overtaken (selectionResponseIs-     *)
(* Current, scopeStatusResponseIsCurrent); of CT reads and SCOPE commands    *)
(* only the devices are compared, and overtaken answers may be drawn.        *)
THEOREM LateAnswersAlwaysIgnored == BrowserSpec => LateAnswersIgnored
<1>1. BrowserInv /\ [BrowserNext]_browserVars => BrowserInv'
  BY BrowserStep
<1>2. BrowserInv /\ [BrowserNext]_browserVars =>
        [/\ shown'["control"] = selected'
         /\ \A p \in Panel : shown'[p] # shown[p] => shown'[p] = selected'
         /\ drawnLate' \subseteq ByDevice]_browserVars
  BY BrowserStep DEF DrawnRight
<1>. QED
  BY BrowserInitInv, <1>1, <1>2, PTL DEF BrowserSpec, LateAnswersIgnored

-----------------------------------------------------------------------------
(* The telnet session: what the filter makes of bytes it has not taken       *)

Byte == Digits \cup Negotiations \cup {"IAC", "SB", "SE", "opt"}
          \cup {"x", "eol", "$ ", "login:", "password:", "incorrect"}
Filter == {"text", "IAC", "sub", "sub IAC"} \cup Negotiations
Answer == {"DONT", "WONT"} \X Byte

(* Step by step from a filter's state f to the end of the bytes, in which the*)
(* filter is in no command: f, and the text and replies still to come, at    *)
(* every position.                                                           *)
Path(bytes, fs, ts, rs) ==
  \A i \in 1 .. Len(bytes) :
    /\ fs[i + 1] = After(fs[i], bytes[i])
    /\ ts[i] = Text(fs[i], bytes[i]) \o ts[i + 1]
    /\ rs[i] = Reply(fs[i], bytes[i]) \o rs[i + 1]

Run(bytes, f, text, replies) ==
  \E fs \in [1 .. Len(bytes) + 1 -> Filter], ts \in [1 .. Len(bytes) + 1 -> Seq(Byte)],
     rs \in [1 .. Len(bytes) + 1 -> Seq(Answer)] :
    /\ fs[1] = f /\ ts[1] = text /\ rs[1] = replies
    /\ fs[Len(bytes) + 1] = "text" /\ ts[Len(bytes) + 1] = <<>> /\ rs[Len(bytes) + 1] = <<>>
    /\ Path(bytes, fs, ts, rs)

LEMMA ByteTypes ==
  ASSUME NEW f \in Filter, NEW b \in Byte
  PROVE  After(f, b) \in Filter /\ Text(f, b) \in Seq(Byte) /\ Reply(f, b) \in Seq(Answer)
<1>1. After(f, b) \in Filter
  BY DEF After, Cut, Filter, Negotiations
<1>2. Text(f, b) \in Seq(Byte)
  <2>1. "x" \in Byte
    BY DEF Byte
  <2>2. <<b>> \in Seq(Byte) /\ <<"x">> \in Seq(Byte) /\ <<>> \in Seq(Byte)
    BY <2>1
  <2>. QED
    BY <2>2 DEF Text
<1>3. Reply(f, b) \in Seq(Answer)
  <2>1. CASE f = "WILL"
    <3>1. <<"DONT", b>> \in Answer
      BY DEF Answer
    <3>. QED
      BY <2>1, <3>1 DEF Reply
  <2>2. CASE f = "DO"
    <3>1. <<"WONT", b>> \in Answer
      BY DEF Answer
    <3>. QED
      BY <2>2, <3>1 DEF Reply
  <2>3. CASE f \notin {"WILL", "DO"}
    BY <2>3 DEF Reply
  <2>. QED
    BY <2>1, <2>2, <2>3
<1>. QED
  BY <1>1, <1>2, <1>3

(* What is left of a sequence *)
LEMMA RestOf ==
  ASSUME NEW S, NEW s \in Seq(S), NEW k \in 1 .. Len(s)
  PROVE  LET rest == SubSeq(s, k + 1, Len(s)) IN
           /\ rest \in Seq(S) /\ Len(rest) = Len(s) - k
           /\ \A i \in 1 .. Len(s) - k : rest[i] = s[i + k]
<1>. DEFINE n == Len(s)
            rest == SubSeq(s, k + 1, n)
<1>1. n \in Nat /\ k \in Nat /\ k <= n /\ k >= 1
  OBVIOUS
<1>2. \A i \in k + 1 .. n : s[i] \in S
  BY <1>1
<1>3. rest \in Seq(S) /\ Len(rest) = IF k + 1 <= n THEN n - (k + 1) + 1 ELSE 0
  BY <1>1, <1>2, SubSeqProperties
<1>4. \A i \in 1 .. n - (k + 1) + 1 : rest[i] = s[k + 1 + i - 1]
  BY <1>1, <1>2, SubSeqProperties
<1>. HIDE DEF n, rest
<1>5. Len(rest) = n - k
  BY <1>1, <1>3
<1>6. ASSUME NEW i \in 1 .. n - k PROVE rest[i] = s[i + k]
  <2>1. i \in 1 .. n - (k + 1) + 1 /\ k + 1 + i - 1 = i + k
    BY <1>1
  <2>. QED
    BY <1>4, <2>1
<1>. QED
  BY <1>3, <1>5, <1>6 DEF n, rest

LEMMA RunEmpty ==
  /\ Run(<<>>, "text", <<>>, <<>>)
  /\ \A f, text, replies : Run(<<>>, f, text, replies) => f = "text" /\ text = <<>> /\ replies = <<>>
<1>1. Run(<<>>, "text", <<>>, <<>>)
  <2>. DEFINE fs == [i \in 1..1 |-> "text"]
              none == [i \in 1..1 |-> <<>>]
  <2>1. fs \in [1..1 -> Filter] /\ none \in [1..1 -> Seq(Byte)] /\ none \in [1..1 -> Seq(Answer)]
    BY DEF Filter
  <2>2. Path(<<>>, fs, none, none)
    BY DEF Path
  <2>3. fs[1] = "text" /\ none[1] = <<>>
    OBVIOUS
  <2>4. Len(<<>>) + 1 = 1
    OBVIOUS
  <2>. HIDE DEF fs, none
  <2>. QED
    BY <2>1, <2>2, <2>3, <2>4 DEF Run
<1>2. Len(<<>>) + 1 = 1
  OBVIOUS
<1>3. \A f, text, replies : Run(<<>>, f, text, replies) => f = "text" /\ text = <<>> /\ replies = <<>>
  BY <1>2 DEF Run
<1>. QED
  BY <1>1, <1>3

(* The first byte is taken.                                                  *)
LEMMA RunFirst ==
  ASSUME NEW bytes \in Seq(Byte), bytes # <<>>, NEW f, NEW text, NEW replies,
         Run(bytes, f, text, replies)
  PROVE  \E t \in Seq(Byte), r \in Seq(Answer) :
           /\ text = Text(f, bytes[1]) \o t /\ replies = Reply(f, bytes[1]) \o r
           /\ Run(SubSeq(bytes, 1 + 1, Len(bytes)), After(f, bytes[1]), t, r)
<1>. DEFINE n == Len(bytes)
            tail == SubSeq(bytes, 1 + 1, n)
<1>1. n \in Nat /\ n >= 1
  BY EmptySeq
<1>2. Len(tail) = n - 1 /\ \A i \in 1 .. n - 1 : tail[i] = bytes[i + 1]
  <2>1. 1 \in 1 .. Len(bytes)
    BY <1>1
  <2>. QED
    BY <2>1, RestOf
<1>3. PICK fs \in [1 .. n + 1 -> Filter], ts \in [1 .. n + 1 -> Seq(Byte)],
           rs \in [1 .. n + 1 -> Seq(Answer)] :
        /\ fs[1] = f /\ ts[1] = text /\ rs[1] = replies
        /\ fs[n + 1] = "text" /\ ts[n + 1] = <<>> /\ rs[n + 1] = <<>>
        /\ Path(bytes, fs, ts, rs)
  BY DEF Run
<1>. DEFINE gs == [i \in 1 .. n |-> fs[i + 1]]
            us == [i \in 1 .. n |-> ts[i + 1]]
            ss == [i \in 1 .. n |-> rs[i + 1]]
<1>. HIDE DEF n, tail
<1>4. \A i \in 1 .. n : i + 1 \in 1 .. n + 1
  BY <1>1
<1>5. gs \in [1 .. n -> Filter] /\ us \in [1 .. n -> Seq(Byte)] /\ ss \in [1 .. n -> Seq(Answer)]
  BY <1>3, <1>4
<1>6. \A i \in 1 .. n : gs[i] = fs[i + 1] /\ us[i] = ts[i + 1] /\ ss[i] = rs[i + 1]
  OBVIOUS
<1>. HIDE DEF gs, us, ss
<1>7. Path(tail, gs, us, ss)
  <2>. SUFFICES ASSUME NEW i \in 1 .. n - 1
                PROVE  /\ gs[i + 1] = After(gs[i], tail[i])
                       /\ us[i] = Text(gs[i], tail[i]) \o us[i + 1]
                       /\ ss[i] = Reply(gs[i], tail[i]) \o ss[i + 1]
    BY <1>2 DEF Path
  <2>1. i \in 1 .. n /\ i + 1 \in 1 .. n
    BY <1>1
  <2>. QED
    BY <1>2, <1>3, <1>6, <2>1 DEF Path, n
<1>8. 1 \in 1 .. n /\ n \in 1 .. n
  BY <1>1
<1>9. gs[1] = After(f, bytes[1]) /\ text = Text(f, bytes[1]) \o us[1]
      /\ replies = Reply(f, bytes[1]) \o ss[1]
  BY <1>3, <1>6, <1>8 DEF Path, n
<1>10. Len(tail) + 1 = n
  BY <1>1, <1>2
<1>11. gs[n] = "text" /\ us[n] = <<>> /\ ss[n] = <<>>
  BY <1>3, <1>6, <1>8
<1>12. Run(tail, gs[1], us[1], ss[1])
  BY <1>5, <1>7, <1>10, <1>11 DEF Run
<1>. QED
  BY <1>5, <1>8, <1>9, <1>12 DEF tail, n

LEMMA Regroup ==
  /\ \A s, t, u \in Seq(Byte) : (s \o t) \o u = s \o (t \o u)
  /\ \A s, t, u \in Seq(Answer) : (s \o t) \o u = s \o (t \o u)
  BY ConcatAssociative, SMTT(30)

(* Runs one after the other                                                  *)
LEMMA RunConcat ==
  ASSUME NEW a \in Seq(Byte), NEW b \in Seq(Byte), NEW f, NEW t, NEW r,
         NEW t2 \in Seq(Byte), NEW r2 \in Seq(Answer),
         Run(a, f, t, r), Run(b, "text", t2, r2)
  PROVE  Run(a \o b, f, t \o t2, r \o r2)
<1>. DEFINE m == Len(a)
            n == Len(b)
            ab == a \o b
<1>1. m \in Nat /\ n \in Nat /\ \A i \in 1 .. m : a[i] \in Byte
  OBVIOUS
<1>2. ab \in Seq(Byte) /\ Len(ab) = m + n
      /\ \A i \in 1 .. m + n : ab[i] = IF i <= m THEN a[i] ELSE b[i - m]
  BY ConcatProperties
<1>3. PICK fs \in [1 .. m + 1 -> Filter], ts \in [1 .. m + 1 -> Seq(Byte)],
           rs \in [1 .. m + 1 -> Seq(Answer)] :
        /\ fs[1] = f /\ ts[1] = t /\ rs[1] = r
        /\ fs[m + 1] = "text" /\ ts[m + 1] = <<>> /\ rs[m + 1] = <<>>
        /\ Path(a, fs, ts, rs)
  BY DEF Run
<1>4. PICK gs \in [1 .. n + 1 -> Filter], us \in [1 .. n + 1 -> Seq(Byte)],
           ss \in [1 .. n + 1 -> Seq(Answer)] :
        /\ gs[1] = "text" /\ us[1] = t2 /\ ss[1] = r2
        /\ gs[n + 1] = "text" /\ us[n + 1] = <<>> /\ ss[n + 1] = <<>>
        /\ Path(b, gs, us, ss)
  BY DEF Run
<1>. DEFINE hs == [i \in 1 .. m + n + 1 |-> IF i <= m THEN fs[i] ELSE gs[i - m]]
            vs == [i \in 1 .. m + n + 1 |-> IF i <= m THEN ts[i] \o t2 ELSE us[i - m]]
            qs == [i \in 1 .. m + n + 1 |-> IF i <= m THEN rs[i] \o r2 ELSE ss[i - m]]
<1>. HIDE DEF m, n, ab
<1>5. \A i \in 1 .. m + n + 1 : (i <= m => i \in 1 .. m + 1) /\ (~(i <= m) => i - m \in 1 .. n + 1)
  BY <1>1
<1>6. \A i \in 1 .. m + 1 : ts[i] \o t2 \in Seq(Byte) /\ rs[i] \o r2 \in Seq(Answer)
  BY <1>3, ConcatProperties
<1>7. hs \in [1 .. m + n + 1 -> Filter]
  BY <1>3, <1>4, <1>5
<1>8. vs \in [1 .. m + n + 1 -> Seq(Byte)]
  BY <1>4, <1>5, <1>6
<1>9. qs \in [1 .. m + n + 1 -> Seq(Answer)]
  BY <1>4, <1>5, <1>6
(* The first run ends where the second begins. *)
<1>10. \A i \in 1 .. m + 1 : hs[i] = fs[i] /\ vs[i] = ts[i] \o t2 /\ qs[i] = rs[i] \o r2
  <2>. SUFFICES ASSUME NEW i \in 1 .. m + 1
                PROVE  hs[i] = fs[i] /\ vs[i] = ts[i] \o t2 /\ qs[i] = rs[i] \o r2
    OBVIOUS
  <2>1. i \in 1 .. m + n + 1
    BY <1>1
  <2>2. CASE i <= m
    BY <2>1, <2>2
  <2>3. CASE ~(i <= m)
    <3>1. i = m + 1 /\ i - m = 1
      BY <1>1, <2>3
    <3>2. hs[i] = gs[1] /\ vs[i] = us[1] /\ qs[i] = ss[1]
      BY <2>1, <2>3, <3>1
    <3>3. <<>> \o t2 = t2 /\ <<>> \o r2 = r2
      BY ConcatEmptySeq
    <3>. QED
      BY <1>3, <1>4, <3>1, <3>2, <3>3
  <2>. QED
    BY <2>2, <2>3
<1>11. \A i \in 1 .. m + n + 1, j \in 1 .. n + 1 : i = m + j =>
         hs[i] = gs[j] /\ vs[i] = us[j] /\ qs[i] = ss[j]
  <2>. SUFFICES ASSUME NEW i \in 1 .. m + n + 1, NEW j \in 1 .. n + 1, i = m + j
                PROVE  hs[i] = gs[j] /\ vs[i] = us[j] /\ qs[i] = ss[j]
    OBVIOUS
  <2>1. ~(i <= m) /\ i - m = j
    BY <1>1
  <2>. QED
    BY <2>1
<1>. HIDE DEF hs, vs, qs
<1>12. Path(ab, hs, vs, qs)
  <2>. SUFFICES ASSUME NEW i \in 1 .. m + n
                PROVE  /\ hs[i + 1] = After(hs[i], ab[i])
                       /\ vs[i] = Text(hs[i], ab[i]) \o vs[i + 1]
                       /\ qs[i] = Reply(hs[i], ab[i]) \o qs[i + 1]
    BY <1>2 DEF Path
  <2>1. CASE i <= m
    <3>0. i \in 1 .. m /\ i \in 1 .. m + 1 /\ i + 1 \in 1 .. m + 1
      BY <1>1, <2>1
    <3>1. ab[i] = a[i]
      BY <1>2, <2>1
    <3>2. /\ fs[i + 1] = After(fs[i], a[i])
          /\ ts[i] = Text(fs[i], a[i]) \o ts[i + 1]
          /\ rs[i] = Reply(fs[i], a[i]) \o rs[i + 1]
      BY <1>3, <3>0 DEF Path, m
    <3>3. fs[i] \in Filter /\ a[i] \in Byte /\ ts[i + 1] \in Seq(Byte) /\ rs[i + 1] \in Seq(Answer)
      BY <1>1, <1>3, <3>0
    <3>4. Text(fs[i], a[i]) \in Seq(Byte) /\ Reply(fs[i], a[i]) \in Seq(Answer)
      BY <3>3, ByteTypes
    <3>5. (Text(fs[i], a[i]) \o ts[i + 1]) \o t2 = Text(fs[i], a[i]) \o (ts[i + 1] \o t2)
      BY <3>3, <3>4, Regroup, ZenonT(60)
    <3>6. (Reply(fs[i], a[i]) \o rs[i + 1]) \o r2 = Reply(fs[i], a[i]) \o (rs[i + 1] \o r2)
      BY <3>3, <3>4, Regroup, ZenonT(60)
    <3>7. hs[i] = fs[i] /\ vs[i] = ts[i] \o t2 /\ qs[i] = rs[i] \o r2
      BY <1>10, <3>0
    <3>8. hs[i + 1] = fs[i + 1] /\ vs[i + 1] = ts[i + 1] \o t2 /\ qs[i + 1] = rs[i + 1] \o r2
      BY <1>10, <3>0
    <3>. QED
      BY <3>1, <3>2, <3>5, <3>6, <3>7, <3>8
  <2>2. CASE ~(i <= m)
    <3>1. /\ i \in 1 .. m + n + 1 /\ i - m \in 1 .. n /\ i - m \in 1 .. n + 1 /\ i = m + (i - m)
          /\ i + 1 \in 1 .. m + n + 1 /\ i - m + 1 \in 1 .. n + 1 /\ i + 1 = m + (i - m + 1)
      BY <1>1, <2>2
    <3>2. ab[i] = b[i - m]
      BY <1>2, <2>2
    <3>3. /\ gs[i - m + 1] = After(gs[i - m], b[i - m])
          /\ us[i - m] = Text(gs[i - m], b[i - m]) \o us[i - m + 1]
          /\ ss[i - m] = Reply(gs[i - m], b[i - m]) \o ss[i - m + 1]
      BY <1>4, <3>1 DEF Path, n
    <3>4. hs[i] = gs[i - m] /\ vs[i] = us[i - m] /\ qs[i] = ss[i - m]
      BY <1>11, <3>1
    <3>5. hs[i + 1] = gs[i - m + 1] /\ vs[i + 1] = us[i - m + 1] /\ qs[i + 1] = ss[i - m + 1]
      BY <1>11, <3>1
    <3>. QED
      BY <3>2, <3>3, <3>4, <3>5
  <2>. QED
    BY <2>1, <2>2
<1>13. /\ hs[1] = f /\ vs[1] = t \o t2 /\ qs[1] = r \o r2
       /\ hs[m + n + 1] = "text" /\ vs[m + n + 1] = <<>> /\ qs[m + n + 1] = <<>>
  <2>1. 1 \in 1 .. m + 1 /\ m + n + 1 \in 1 .. m + n + 1 /\ n + 1 \in 1 .. n + 1 /\ m + n + 1 = m + (n + 1)
    BY <1>1
  <2>2. hs[1] = f /\ vs[1] = t \o t2 /\ qs[1] = r \o r2
    BY <1>3, <1>10, <2>1
  <2>3. hs[m + n + 1] = gs[n + 1] /\ vs[m + n + 1] = us[n + 1] /\ qs[m + n + 1] = ss[n + 1]
    BY <1>11, <2>1
  <2>. QED
    BY <1>4, <2>2, <2>3
<1>. QED
  BY <1>2, <1>7, <1>8, <1>9, <1>12, <1>13 DEF Run, ab

(* Text passes the filter as it is.                                          *)
LEMMA RunText ==
  ASSUME NEW bytes \in Seq(Byte \ {"IAC"})
  PROVE  bytes \in Seq(Byte) /\ Run(bytes, "text", bytes, <<>>)
<1>. DEFINE n == Len(bytes)
            fs == [i \in 1 .. n + 1 |-> "text"]
            ts == [i \in 1 .. n + 1 |-> SubSeq(bytes, i, n)]
            rs == [i \in 1 .. n + 1 |-> <<>>]
<1>1. bytes \in Seq(Byte) /\ n \in Nat
  BY SeqMonotonic
<1>2. \A i \in 1 .. n : bytes[i] \in Byte /\ bytes[i] # "IAC"
  OBVIOUS
<1>3. \A i \in 1 .. n + 1 : SubSeq(bytes, i, n) \in Seq(Byte)
  <2>. SUFFICES ASSUME NEW i \in 1 .. n + 1 PROVE SubSeq(bytes, i, n) \in Seq(Byte)
    OBVIOUS
  <2>1. \A j \in i .. n : bytes[j] \in Byte
    BY <1>1, <1>2
  <2>. QED
    BY <1>1, <2>1, SubSeqProperties
<1>4. \A i \in 1 .. n : SubSeq(bytes, i, n) = <<bytes[i]>> \o SubSeq(bytes, i + 1, n)
  <2>. SUFFICES ASSUME NEW i \in 1 .. n
                PROVE  SubSeq(bytes, i, n) = <<bytes[i]>> \o SubSeq(bytes, i + 1, n)
    OBVIOUS
  <2>1. n \in i .. n
    BY <1>1
  <2>. QED
    BY <1>1, <2>1, SubSeqRecursiveFirst
<1>5. SubSeq(bytes, n + 1, n) = <<>> /\ SubSeq(bytes, 1, n) = bytes
  BY <1>1, SubSeqEmpty, SubSeqFull
<1>6. <<>> \o <<>> = <<>>
  OBVIOUS
<1>. HIDE DEF n
<1>7. fs \in [1 .. n + 1 -> Filter] /\ rs \in [1 .. n + 1 -> Seq(Answer)]
  BY DEF Filter
<1>8. ts \in [1 .. n + 1 -> Seq(Byte)]
  BY <1>3
<1>9. \A i \in 1 .. n : i \in 1 .. n + 1 /\ i + 1 \in 1 .. n + 1
  BY <1>1
<1>10. \A i \in 1 .. n : After("text", bytes[i]) = "text" /\ Text("text", bytes[i]) = <<bytes[i]>>
                         /\ Reply("text", bytes[i]) = <<>>
  BY <1>2 DEF After, Text, Reply
<1>11. Path(bytes, fs, ts, rs)
  <2>. SUFFICES ASSUME NEW i \in 1 .. n
                PROVE  /\ fs[i + 1] = After(fs[i], bytes[i])
                       /\ ts[i] = Text(fs[i], bytes[i]) \o ts[i + 1]
                       /\ rs[i] = Reply(fs[i], bytes[i]) \o rs[i + 1]
    BY DEF Path, n
  <2>1. fs[i] = "text" /\ fs[i + 1] = "text" /\ rs[i] = <<>> /\ rs[i + 1] = <<>>
    BY <1>9
  <2>2. ts[i] = SubSeq(bytes, i, n) /\ ts[i + 1] = SubSeq(bytes, i + 1, n)
    BY <1>9
  <2>. HIDE DEF fs, ts, rs
  <2>. QED
    BY <1>4, <1>6, <1>10, <2>1, <2>2
<1>12. 1 \in 1 .. n + 1 /\ n + 1 \in 1 .. n + 1
  BY <1>1
<1>13. fs[1] = "text" /\ fs[n + 1] = "text" /\ rs[1] = <<>> /\ rs[n + 1] = <<>>
  BY <1>12
<1>14. ts[1] = bytes /\ ts[n + 1] = <<>>
  BY <1>5, <1>12
<1>. HIDE DEF fs, ts, rs
<1>. QED
  BY <1>1, <1>7, <1>8, <1>11, <1>13, <1>14 DEF Run, n

(* Bytes that are no text and have a reply to the last of them at most       *)
LEMMA RunCommand ==
  ASSUME NEW bytes \in Seq(Byte), bytes # <<>>,
         NEW fs \in [1 .. Len(bytes) + 1 -> Filter], fs[Len(bytes) + 1] = "text",
         \A i \in 1 .. Len(bytes) :
           /\ fs[i + 1] = After(fs[i], bytes[i]) /\ Text(fs[i], bytes[i]) = <<>>
           /\ i # Len(bytes) => Reply(fs[i], bytes[i]) = <<>>,
         NEW reply, reply = Reply(fs[Len(bytes)], bytes[Len(bytes)])
  PROVE  reply \in Seq(Answer) /\ Run(bytes, fs[1], <<>>, reply)
<1>. DEFINE n == Len(bytes)
            ts == [i \in 1 .. n + 1 |-> <<>>]
            rs == [i \in 1 .. n + 1 |-> IF i <= n THEN reply ELSE <<>>]
<1>1. n \in Nat /\ n >= 1 /\ n \in 1 .. n /\ n \in 1 .. n + 1 /\ bytes[n] \in Byte
  BY EmptySeq
<1>. HIDE DEF n
<1>2. reply \in Seq(Answer)
  <2>1. fs[n] \in Filter
    BY <1>1 DEF n
  <2>. QED
    BY <1>1, <2>1, ByteTypes DEF n
<1>3. ts \in [1 .. n + 1 -> Seq(Byte)] /\ rs \in [1 .. n + 1 -> Seq(Answer)]
  BY <1>2
<1>4. <<>> \o <<>> = <<>> /\ <<>> \o reply = reply /\ reply \o <<>> = reply
  BY <1>2, ConcatEmptySeq
<1>5. /\ \A i \in 1 .. n + 1 : ts[i] = <<>> /\ (i <= n => rs[i] = reply) /\ (i = n + 1 => rs[i] = <<>>)
      /\ 1 \in 1 .. n + 1 /\ n + 1 \in 1 .. n + 1 /\ 1 <= n
  BY <1>1
<1>. HIDE DEF ts, rs
<1>6. Path(bytes, fs, ts, rs)
  <2>. SUFFICES ASSUME NEW i \in 1 .. n
                PROVE  /\ fs[i + 1] = After(fs[i], bytes[i])
                       /\ ts[i] = Text(fs[i], bytes[i]) \o ts[i + 1]
                       /\ rs[i] = Reply(fs[i], bytes[i]) \o rs[i + 1]
    BY DEF Path, n
  <2>1. i \in 1 .. n + 1 /\ i + 1 \in 1 .. n + 1 /\ i <= n
    BY <1>1
  <2>2. fs[i + 1] = After(fs[i], bytes[i]) /\ Text(fs[i], bytes[i]) = <<>>
    BY DEF n
  <2>3. ts[i] = Text(fs[i], bytes[i]) \o ts[i + 1]
    BY <1>4, <1>5, <2>1, <2>2
  <2>4. CASE i = n
    <3>1. rs[i] = reply /\ rs[i + 1] = <<>>
      BY <1>5, <2>1, <2>4
    <3>2. Reply(fs[i], bytes[i]) = reply
      BY <2>4 DEF n
    <3>. QED
      BY <1>4, <2>2, <2>3, <3>1, <3>2
  <2>5. CASE i # n
    <3>1. i + 1 <= n
      BY <1>1, <2>5
    <3>2. rs[i] = reply /\ rs[i + 1] = reply
      BY <1>5, <2>1, <3>1
    <3>3. Reply(fs[i], bytes[i]) = <<>>
      BY <2>5 DEF n
    <3>. QED
      BY <1>4, <2>2, <2>3, <3>2, <3>3
  <2>. QED
    BY <2>4, <2>5
<1>7. fs[n + 1] = "text" /\ ts[1] = <<>> /\ ts[n + 1] = <<>> /\ rs[1] = reply /\ rs[n + 1] = <<>>
  BY <1>5 DEF n
<1>. QED
  BY <1>2, <1>3, <1>6, <1>7 DEF Run, n

(* An offer is no text and is refused.                                       *)
LEMMA RunOffer ==
  ASSUME NEW offer \in Offers
  PROVE  offer \in Seq(Byte) /\ Refusal(offer) \in Seq(Answer)
         /\ Run(offer, "text", <<>>, Refusal(offer))
<1>1. {"IAC", "SB", "SE", "opt", "x"} \cup Negotiations \subseteq Byte
  BY DEF Byte
<1>2. {"text", "IAC", "sub", "sub IAC"} \cup Negotiations \subseteq Filter
  BY DEF Filter
<1>3. ASSUME NEW command \in Negotiations, offer = <<"IAC", command, "opt">>
      PROVE  offer \in Seq(Byte) /\ Refusal(offer) \in Seq(Answer)
             /\ Run(offer, "text", <<>>, Refusal(offer))
  <2>. DEFINE fs == <<"text", "IAC", command, "text">>
  <2>1. offer \in Seq(Byte) /\ Len(offer) = 3 /\ offer # <<>>
        /\ offer[1] = "IAC" /\ offer[2] = command /\ offer[3] = "opt"
    BY <1>1, <1>3
  <2>2. fs[1] = "text" /\ fs[2] = "IAC" /\ fs[3] = command /\ fs[4] = "text"
    OBVIOUS
  <2>8. fs \in [1 .. 4 -> Filter]
    <3>1. "text" \in Filter /\ "IAC" \in Filter /\ command \in Filter
      BY <1>2
    <3>2. fs \in Seq(Filter) /\ Len(fs) = 4
      BY <3>1
    <3>. HIDE DEF fs
    <3>. QED
      BY <3>2, LenProperties
  <2>. HIDE DEF fs
  <2>3. /\ After("text", "IAC") = "IAC" /\ After("IAC", command) = command
        /\ After(command, "opt") = "text"
    BY DEF After, Cut, Negotiations
  <2>4. /\ Text("text", "IAC") = <<>> /\ Text("IAC", command) = <<>> /\ Text(command, "opt") = <<>>
        /\ Reply("text", "IAC") = <<>> /\ Reply("IAC", command) = <<>>
    BY DEF Text, Reply, Negotiations
  <2>5. \A i \in 1 .. 3 :
          /\ fs[i + 1] = After(fs[i], offer[i]) /\ Text(fs[i], offer[i]) = <<>>
          /\ i # 3 => Reply(fs[i], offer[i]) = <<>>
    <3>1. \A i \in 1 .. 3 : i = 1 \/ i = 2 \/ i = 3
      OBVIOUS
    <3>. QED
      BY <2>1, <2>2, <2>3, <2>4, <3>1
  <2>6. Refusal(offer) = Reply(fs[3], offer[3])
    BY <2>1, <2>2 DEF Refusal
  <2>7. Len(offer) + 1 = 4
    BY <2>1
  <2>. QED
    BY <2>1, <2>2, <2>5, <2>6, <2>7, <2>8, RunCommand
<1>4. CASE offer = <<"IAC", "SB", "opt", "IAC", "IAC", "x", "IAC", "SE">>
  <2>. DEFINE fs == [i \in 1 .. 9 |-> IF i \in {1, 9} THEN "text" ELSE IF i = 2 THEN "IAC"
                                     ELSE IF i \in {5, 8} THEN "sub IAC" ELSE "sub"]
  <2>1. offer \in Seq(Byte) /\ Len(offer) = 8 /\ offer # <<>>
    BY <1>1, <1>4
  <2>2. /\ offer[1] = "IAC" /\ offer[2] = "SB" /\ offer[3] = "opt" /\ offer[4] = "IAC"
        /\ offer[5] = "IAC" /\ offer[6] = "x" /\ offer[7] = "IAC" /\ offer[8] = "SE"
    BY <1>4
  <2>3. fs \in [1 .. 9 -> Filter]
    <3>1. "text" \in Filter /\ "IAC" \in Filter /\ "sub" \in Filter /\ "sub IAC" \in Filter
      BY <1>2
    <3>. QED
      BY <3>1
  <2>4. /\ fs[1] = "text" /\ fs[2] = "IAC" /\ fs[3] = "sub" /\ fs[4] = "sub" /\ fs[5] = "sub IAC"
        /\ fs[6] = "sub" /\ fs[7] = "sub" /\ fs[8] = "sub IAC" /\ fs[9] = "text"
    OBVIOUS
  <2>. HIDE DEF fs
  <2>5. /\ After("text", "IAC") = "IAC" /\ After("IAC", "SB") = "sub" /\ After("sub", "opt") = "sub"
        /\ After("sub", "IAC") = "sub IAC" /\ After("sub IAC", "IAC") = "sub"
        /\ After("sub", "x") = "sub" /\ After("sub IAC", "SE") = "text"
    BY DEF After, Negotiations
  <2>6. /\ \A f \in {"sub", "sub IAC"}, b \in Byte : Text(f, b) = <<>> /\ Reply(f, b) = <<>>
        /\ Text("IAC", "SB") = <<>> /\ Reply("IAC", "SB") = <<>> /\ Reply("SB", "opt") = <<>>
        /\ Text("text", "IAC") = <<>> /\ Reply("text", "IAC") = <<>>
    BY DEF Text, Reply
  <2>7. \A i \in 1 .. 8 :
          /\ fs[i + 1] = After(fs[i], offer[i]) /\ Text(fs[i], offer[i]) = <<>>
          /\ i # 8 => Reply(fs[i], offer[i]) = <<>>
    <3>1. \A i \in 1 .. 8 : i = 1 \/ i = 2 \/ i = 3 \/ i = 4 \/ i = 5 \/ i = 6 \/ i = 7 \/ i = 8
      OBVIOUS
    <3>2. /\ fs[2] = After(fs[1], offer[1]) /\ fs[3] = After(fs[2], offer[2])
          /\ fs[4] = After(fs[3], offer[3]) /\ fs[5] = After(fs[4], offer[4])
          /\ fs[6] = After(fs[5], offer[5]) /\ fs[7] = After(fs[6], offer[6])
          /\ fs[8] = After(fs[7], offer[7]) /\ fs[9] = After(fs[8], offer[8])
      BY <2>2, <2>4, <2>5
    <3>3. /\ Text(fs[1], offer[1]) = <<>> /\ Reply(fs[1], offer[1]) = <<>>
          /\ Text(fs[2], offer[2]) = <<>> /\ Reply(fs[2], offer[2]) = <<>>
      BY <2>2, <2>4, <2>6
    <3>4. /\ fs[3] \in {"sub", "sub IAC"} /\ fs[4] \in {"sub", "sub IAC"} /\ fs[5] \in {"sub", "sub IAC"}
          /\ fs[6] \in {"sub", "sub IAC"} /\ fs[7] \in {"sub", "sub IAC"} /\ fs[8] \in {"sub", "sub IAC"}
      BY <2>4
    <3>5. \A i \in 3 .. 8 : fs[i] \in {"sub", "sub IAC"} /\ offer[i] \in Byte
      <4>1. \A i \in 3 .. 8 : i = 3 \/ i = 4 \/ i = 5 \/ i = 6 \/ i = 7 \/ i = 8
        OBVIOUS
      <4>2. \A i \in 3 .. 8 : offer[i] \in Byte
        <5>1. \A i \in 1 .. Len(offer) : offer[i] \in Byte
          BY <2>1, ElementOfSeq
        <5>2. \A i \in 3 .. 8 : i \in 1 .. Len(offer)
          BY <2>1
        <5>. QED
          BY <5>1, <5>2
      <4>. QED
        BY <3>4, <4>1, <4>2
    <3>6. \A i \in 3 .. 8 : Text(fs[i], offer[i]) = <<>> /\ Reply(fs[i], offer[i]) = <<>>
      BY <2>6, <3>5
    <3>7. \A i \in 1 .. 8 : fs[i + 1] = After(fs[i], offer[i])
      BY <3>1, <3>2
    <3>8. \A i \in 1 .. 8 : Text(fs[i], offer[i]) = <<>> /\ Reply(fs[i], offer[i]) = <<>>
      <4>1. \A i \in 1 .. 8 : i = 1 \/ i = 2 \/ i \in 3 .. 8
        OBVIOUS
      <4>. QED
        BY <3>3, <3>6, <4>1
    <3>. QED
      BY <3>7, <3>8
  <2>8. Refusal(offer) = Reply(fs[8], offer[8])
    BY <1>1, <2>2, <2>4, <2>6 DEF Refusal
  <2>9. Len(offer) + 1 = 9
    BY <2>1
  <2>. QED
    BY <2>1, <2>3, <2>4, <2>7, <2>8, <2>9, RunCommand
<1>. QED
  BY <1>3, <1>4 DEF Offers, Negotiations

-----------------------------------------------------------------------------
(* The telnet session: what the reader has asked for and what comes          *)

(* Before a key's response may stand the prompt after the last value.        *)
LeftOver(lead) == lead = <<>> \/ lead = <<"$ ">>

Awaited(s, text) ==
  \E lead \in Seq(Byte), answer \in Response(s) :
    LeftOver(lead) /\ (s <= 4 => lead = <<>>) /\ text = lead \o answer

TelnetType ==
  /\ session \in {"none", "open", "closed"}
  /\ stage \in 1 .. 4 + Keys
  /\ filter \in Filter /\ clean \in Seq(Byte)
  /\ incoming \in Seq(Byte) /\ received \in 0 .. Len(incoming)
  /\ refusals \in Seq(Answer) /\ demands \in Seq(Answer)
  /\ raw \in Seq(Seq(Byte))

(* The text taken and the text to come are the response that is awaited, and *)
(* the replies sent and those to come are the refusals that are called for.  *)
Stream(text, replies) ==
  /\ Run(incoming, filter, text, replies)
  /\ demands = refusals \o replies

(* How far the session is                                                    *)
Reached ==
  /\ stage \in 1 .. 3 + Keys
  /\ stage > 3 => Len(raw) = stage - 4
  /\ stage <= 3 => raw = <<>>

Expecting ==
  \E text \in Seq(Byte), replies \in Seq(Answer) : Stream(text, replies) /\ Awaited(stage, clean \o text)

TelnetInv ==
  /\ TelnetType
  /\ session = "none" => TelnetInit
  /\ session = "open" => Reached /\ Expecting
  /\ \E replies \in Seq(Answer) : demands = refusals \o replies
  /\ OwnInteger

(* The parts of a text that has been taken in part                           *)
LEMMA Parts ==
  ASSUME NEW c \in Seq(Byte), NEW t \in Seq(Byte), NEW w, c \o t = w
  PROVE  /\ Len(c) \in Nat /\ Len(t) \in Nat /\ w \in Seq(Byte) /\ Len(w) = Len(c) + Len(t)
         /\ \A i \in 1 .. Len(c) : c[i] = w[i]
         /\ \A i \in 1 .. Len(t) : t[i] = w[Len(c) + i]
<1>1. Len(c) \in Nat /\ Len(t) \in Nat
  OBVIOUS
<1>2. w \in Seq(Byte) /\ Len(w) = Len(c) + Len(t)
      /\ \A i \in 1 .. Len(c) + Len(t) : w[i] = IF i <= Len(c) THEN c[i] ELSE t[i - Len(c)]
  BY ConcatProperties
<1>. DEFINE m == Len(c)
            n == Len(t)
<1>. HIDE DEF m, n
<1>3. \A i \in 1 .. m : c[i] = w[i]
  <2>1. \A i \in 1 .. m : i \in 1 .. m + n /\ i <= m
    BY <1>1 DEF m, n
  <2>. QED
    BY <1>2, <2>1 DEF m, n
<1>4. \A i \in 1 .. n : t[i] = w[m + i]
  <2>1. \A i \in 1 .. n : m + i \in 1 .. m + n /\ ~(m + i <= m) /\ m + i - m = i
    BY <1>1 DEF m, n
  <2>. QED
    BY <1>2, <2>1 DEF m, n
<1>. QED
  BY <1>1, <1>2, <1>3, <1>4 DEF m, n

LEMMA NoText == \A t \in Seq(Byte) : Len(t) = 0 => t = <<>>
  BY EmptySeq

LEMMA Prompts ==
  /\ Response(1) = {<<"x", "login:">>} /\ Response(2) = {<<"password:">>}
  /\ Response(3) = {<<"eol", "$ ">>, <<"incorrect", "eol", "login:">>}
  /\ Markers(1) = {"login:"} /\ Markers(2) = {"password:"} /\ Markers(3) = {"$ ", "login:", "incorrect"}
  BY DEF Response, Markers

LEMMA Words ==
  ASSUME NEW S
  PROVE  /\ \A a \in S : <<a>> \in Seq(S)
         /\ \A a, b \in S : <<a, b>> \in Seq(S)
         /\ \A a, b, c \in S : <<a, b, c>> \in Seq(S)
  OBVIOUS

LEMMA PromptBytes == \A s \in 1..3 : Response(s) \subseteq Seq(Byte \ {"IAC"})
<1>. SUFFICES ASSUME NEW s \in 1..3
              PROVE  Response(s) \subseteq Seq(Byte \ {"IAC"})
  OBVIOUS
<1>1. s = 1 \/ s = 2 \/ s = 3
  OBVIOUS
<1>. DEFINE Plain == Byte \ {"IAC"}
<1>3. "x" \in Plain /\ "eol" \in Plain /\ "$ " \in Plain
      /\ "login:" \in Plain /\ "password:" \in Plain /\ "incorrect" \in Plain
  BY DEF Byte
<1>. HIDE DEF Plain
<1>4. <<"x", "login:">> \in Seq(Plain) /\ <<"password:">> \in Seq(Plain) /\ <<"eol", "$ ">> \in Seq(Plain)
  BY <1>3, Words
<1>5. <<"incorrect", "eol", "login:">> \in Seq(Plain)
  BY <1>3, Words
<1>6. Response(s) \subseteq Seq(Plain)
  BY <1>1, <1>4, <1>5, Prompts
<1>. QED
  BY <1>6 DEF Plain

(* A prompt is the last word of its response.                                *)
LEMMA PromptRead ==
  ASSUME TelnetType, stage \in 1..3, NEW text \in Seq(Byte), Awaited(stage, clean \o text),
         Complete, ~Rejected
  PROVE  text = <<>>
<1>. DEFINE w == clean \o text
<1>1. clean \in Seq(Byte)
  BY DEF TelnetType
<1>2. /\ Len(clean) \in Nat /\ Len(text) \in Nat /\ w \in Seq(Byte) /\ Len(w) = Len(clean) + Len(text)
      /\ \A i \in 1 .. Len(clean) : clean[i] = w[i]
  BY <1>1, Parts
<1>3. PICK answer \in Response(stage) : w = answer
  <2>1. PICK lead \in Seq(Byte), answer \in Response(stage) : w = lead \o answer /\ (stage <= 4 => lead = <<>>)
    BY Zenon DEF Awaited
  <2>2. lead = <<>> /\ answer \in Seq(Byte \ {"IAC"})
    <3>1. stage <= 4
      OBVIOUS
    <3>. QED
      BY <2>1, <3>1, PromptBytes
  <2>3. <<>> \o answer = answer
    BY <2>2, ConcatEmptySeq
  <2>. QED
    BY <2>1, <2>2, <2>3
<1>. HIDE DEF w
<1>4. PICK marker \in Markers(stage), i \in 1 .. Len(clean) : clean[i] = marker
  BY DEF Complete, Contains
<1>5. w[i] = marker
  BY <1>2, <1>4
<1>8. Len(w) \in Nat /\ i \in 1 .. Len(w)
  BY <1>2
<1>6. i = Len(w)
  <2>1. CASE stage = 1
    <3>1. w = <<"x", "login:">> /\ marker = "login:"
      BY <1>3, <1>4, <2>1, Prompts
    <3>2. Len(w) = 2 /\ w[1] = "x"
      BY <3>1
    <3>. QED
      BY <1>2, <1>4, <1>5, <3>1, <3>2
  <2>2. CASE stage = 2
    <3>1. w = <<"password:">>
      BY <1>3, <2>2, Prompts
    <3>2. Len(w) = 1
      BY <3>1
    <3>. QED
      BY <1>2, <1>4, <3>2
  <2>3. CASE stage = 3
    <3>1. marker \in {"$ ", "login:", "incorrect"}
      BY <1>4, <2>3, Prompts
    <3>2. marker = "$ "
      BY <1>4, <2>3, <3>1 DEF Rejected, Contains
    <3>3. w \in {<<"eol", "$ ">>, <<"incorrect", "eol", "login:">>}
      BY <1>3, <2>3, Prompts
    <3>4. CASE w = <<"eol", "$ ">>
      <4>1. Len(w) = 2 /\ w[1] = "eol"
        BY <3>4
      <4>2. i \in 1 .. 2
        BY <1>2, <1>4, <4>1
      <4>3. i # 1
        BY <1>5, <3>2, <4>1
      <4>. QED
        BY <4>1, <4>2, <4>3
    <3>5. CASE w = <<"incorrect", "eol", "login:">>
      <4>1. Len(w) = 3 /\ w[1] = "incorrect" /\ w[2] = "eol" /\ w[3] = "login:"
        BY <3>5
      <4>2. i \in 1 .. 3
        BY <1>8, <4>1
      <4>3. i = 1 \/ i = 2 \/ i = 3
        BY <4>2
      <4>. QED
        BY <1>5, <3>2, <4>1, <4>3
    <3>. QED
      BY <3>3, <3>4, <3>5
  <2>. QED
    BY <2>1, <2>2, <2>3
<1>7. Len(text) = 0
  BY <1>2, <1>4, <1>6
<1>. QED
  BY <1>7, NoText

-----------------------------------------------------------------------------
(* The line with a key's value                                               *)

Redraw == <<"$ ", "x", "eol">>
LineEnd == <<"eol", "$ ">>

LEMMA KeyResponse ==
  ASSUME NEW s \in Nat, s > 3
  PROVE  /\ Value(s - 3) \in Seq(Digits) /\ Len(Value(s - 3)) \in 1..2
         /\ Response(s) = {Redraw \o Value(s - 3) \o LineEnd}
<1>1. "3" \in Digits /\ "7" \in Digits
  BY DEF Digits
<1>2. <<"3", "7">> \in Seq(Digits) /\ <<"7">> \in Seq(Digits)
  BY <1>1, Words
<1>3. Len(<<"3", "7">>) = 2 /\ Len(<<"7">>) = 1 /\ 1 \in 1..2 /\ 2 \in 1..2
  OBVIOUS
<1>4. Value(s - 3) = <<"3", "7">> \/ Value(s - 3) = <<"7">>
  BY DEF Value
<1>5. Value(s - 3) \in Seq(Digits) /\ Len(Value(s - 3)) \in 1..2
  BY <1>2, <1>3, <1>4
<1>6. s # 1 /\ s # 2 /\ s # 3
  OBVIOUS
<1>7. Response(s) = {<<"$ ", "x", "eol">> \o Value(s - 3) \o <<"eol", "$ ">>}
  BY <1>6 DEF Response
<1>. QED
  BY <1>5, <1>7 DEF Redraw, LineEnd

(* The integer digits of a text w is its only line of digits, the line that       *)
(* begins after the place a, and the next end of line ends it.               *)
Line(w, a, digits) ==
  /\ w \in Seq(Byte) /\ Len(w) = a + Len(digits) + 2
  /\ w[a] = "eol" /\ w[a + Len(digits) + 1] = "eol" /\ w[a + Len(digits) + 2] = "$ "
  /\ \A i \in 1 .. a : w[i] \notin Digits
  /\ \A i \in 1 .. a - 1 : w[i] # "eol"
  /\ \A i \in 1 .. Len(digits) : w[a + i] = digits[i]

(* Two sequences, place by place                                             *)
Places(w, s, m, t, n) ==
  /\ w \in Seq(Byte) /\ Len(w) = m + n
  /\ \A i \in 1 .. m : w[i] = s[i]
  /\ \A i \in 1 .. n : w[m + i] = t[i]

LEMMA Joined ==
  \A s, t \in Seq(Byte), m, n \in Nat : Len(s) = m /\ Len(t) = n => Places(s \o t, s, m, t, n)
<1>. SUFFICES ASSUME NEW s \in Seq(Byte), NEW t \in Seq(Byte), NEW m \in Nat, NEW n \in Nat,
                     m = Len(s), n = Len(t)
              PROVE  Places(s \o t, s, m, t, n)
  OBVIOUS
<1>. QED
  BY Parts DEF Places

LEMMA KeyLine ==
  ASSUME NEW digits \in Seq(Digits), NEW lead, LeftOver(lead)
  PROVE  \E a \in 3..4 : Line(lead \o (Redraw \o digits \o LineEnd), a, digits)
<1>. DEFINE n == Len(digits)
            l == Len(lead)
            most == Redraw \o digits
            answer == most \o LineEnd
            w == lead \o answer
<1>1. n \in Nat
  OBVIOUS
<1>2. "$ " \in Byte /\ "x" \in Byte /\ "eol" \in Byte
  BY DEF Byte
<1>3. Redraw \in Seq(Byte)
  BY <1>2, Words DEF Redraw
<1>4. Len(Redraw) = 3
  BY DEF Redraw
<1>5. LineEnd \in Seq(Byte)
  BY <1>2, Words DEF LineEnd
<1>6. Len(LineEnd) = 2
  BY DEF LineEnd
<1>7. digits \in Seq(Byte)
  <2>1. Digits \subseteq Byte
    BY DEF Byte
  <2>. QED
    BY <2>1, SeqMonotonic
<1>8. lead \in Seq(Byte)
  <2>1. CASE lead = <<>>
    BY <2>1
  <2>2. CASE lead = <<"$ ">>
    BY <1>2, <2>2, Words
  <2>. QED
    BY <2>1, <2>2 DEF LeftOver
<1>9. (lead = <<>> /\ l = 0) \/ (lead = <<"$ ">> /\ l = 1)
  <2>1. CASE lead = <<>>
    <3>1. Len(<<>>) = 0
      OBVIOUS
    <3>. QED
      BY <2>1, <3>1, Zenon
  <2>2. CASE lead = <<"$ ">>
    <3>1. Len(<<"$ ">>) = 1
      OBVIOUS
    <3>. QED
      BY <2>2, <3>1, Zenon
  <2>. QED
    BY <2>1, <2>2, Zenon DEF LeftOver
<1>10. l \in Nat
  <2>1. 0 \in Nat /\ 1 \in Nat
    OBVIOUS
  <2>. QED
    BY <1>9, <2>1
<1>a. 3 \in Nat /\ 2 \in Nat
  OBVIOUS
<1>b. most = Redraw \o digits /\ answer = most \o LineEnd /\ w = lead \o answer /\ n = Len(digits) /\ l = Len(lead)
  OBVIOUS
<1>. HIDE DEF most, answer, w, n, l
<1>11. /\ most \in Seq(Byte) /\ Len(most) = 3 + n
       /\ \A i \in 1 .. 3 : most[i] = Redraw[i]
       /\ \A i \in 1 .. n : most[3 + i] = digits[i]
  <2>1. Len(digits) = n
    BY <1>b, Zenon
  <2>2. Places(Redraw \o digits, Redraw, 3, digits, n)
    BY <1>1, <1>3, <1>4, <1>7, <1>a, <2>1, Joined, Zenon
  <2>. QED
    BY <1>b, <2>2, Zenon DEF Places
<1>12. 3 + n \in Nat /\ 3 + n + 2 \in Nat
  BY <1>1
<1>13. /\ answer \in Seq(Byte) /\ Len(answer) = 3 + n + 2
       /\ \A i \in 1 .. 3 + n : answer[i] = most[i]
       /\ \A i \in 1 .. 2 : answer[3 + n + i] = LineEnd[i]
  <2>1. Places(most \o LineEnd, most, 3 + n, LineEnd, 2)
    BY <1>5, <1>6, <1>11, <1>12, <1>a, Joined, Zenon
  <2>. QED
    BY <1>b, <2>1, Zenon DEF Places
<1>14. /\ w \in Seq(Byte) /\ Len(w) = l + (3 + n + 2)
       /\ \A i \in 1 .. l : w[i] = lead[i]
       /\ \A i \in 1 .. 3 + n + 2 : w[l + i] = answer[i]
  <2>1. Len(lead) = l
    BY <1>b, Zenon
  <2>2. Places(lead \o answer, lead, l, answer, 3 + n + 2)
    BY <1>8, <1>10, <1>12, <1>13, <2>1, Joined, Zenon
  <2>. QED
    BY <1>b, <2>2, Zenon DEF Places
<1>15. \A i \in 1 .. l : w[i] = "$ "
  <2>1. \A i \in 1 .. l : l = 1 /\ i = 1
    <3>1. l = 0 \/ l = 1
      BY <1>9, Zenon
    <3>. QED
      BY <3>1
  <2>0. 0 # 1
    OBVIOUS
  <2>2. l = 1 => lead = <<"$ ">>
    BY <1>9, <2>0, Zenon
  <2>3. <<"$ ">>[1] = "$ "
    OBVIOUS
  <2>. QED
    BY <1>14, <2>1, <2>2, <2>3, Zenon
<1>16. w[l + 1] = "$ " /\ w[l + 2] = "x" /\ w[l + 3] = "eol"
  <2>1. \A i \in 1 .. 3 : i \in 1 .. 3 + n + 2 /\ i \in 1 .. 3 + n
    BY <1>1
  <2>2. \A i \in 1 .. 3 : w[l + i] = Redraw[i]
    BY <1>11, <1>13, <1>14, <2>1
  <2>3. 1 \in 1..3 /\ 2 \in 1..3 /\ 3 \in 1..3
    OBVIOUS
  <2>4. Redraw[1] = "$ " /\ Redraw[2] = "x" /\ Redraw[3] = "eol"
    BY DEF Redraw
  <2>. QED
    BY <2>2, <2>3, <2>4
<1>17. \A i \in 1 .. n : w[l + 3 + i] = digits[i]
  <2>. SUFFICES ASSUME NEW i \in 1 .. n PROVE w[l + 3 + i] = digits[i]
    OBVIOUS
  <2>1. 3 + i \in 1 .. 3 + n + 2 /\ 3 + i \in 1 .. 3 + n /\ l + (3 + i) = l + 3 + i
    BY <1>1, <1>10
  <2>2. w[l + (3 + i)] = answer[3 + i] /\ answer[3 + i] = most[3 + i] /\ most[3 + i] = digits[i]
    BY <1>11, <1>13, <1>14, <2>1
  <2>. QED
    BY <2>1, <2>2
<1>18. w[l + 3 + n + 1] = "eol" /\ w[l + 3 + n + 2] = "$ "
  <2>1. /\ 3 + n + 1 \in 1 .. 3 + n + 2 /\ l + (3 + n + 1) = l + 3 + n + 1 /\ 1 \in 1..2
        /\ 3 + n + 2 \in 1 .. 3 + n + 2 /\ l + (3 + n + 2) = l + 3 + n + 2 /\ 2 \in 1..2
    BY <1>1, <1>10
  <2>2. w[l + (3 + n + 1)] = LineEnd[1] /\ w[l + (3 + n + 2)] = LineEnd[2]
    BY <1>13, <1>14, <2>1
  <2>3. LineEnd[1] = "eol" /\ LineEnd[2] = "$ "
    BY DEF LineEnd
  <2>. QED
    BY <2>1, <2>2, <2>3
<1>19. \A i \in 1 .. l + 3 : i \in 1 .. l \/ i = l + 1 \/ i = l + 2 \/ i = l + 3
  BY <1>10
<1>20. "$ " \notin Digits /\ "x" \notin Digits /\ "eol" \notin Digits
  BY DEF Digits
<1>21. \A i \in 1 .. l + 3 : w[i] \notin Digits
  BY <1>15, <1>16, <1>19, <1>20
<1>22. \A i \in 1 .. l + 3 - 1 : i \in 1 .. l \/ i = l + 1 \/ i = l + 2
  BY <1>10
<1>23. \A i \in 1 .. l + 3 - 1 : w[i] # "eol"
  BY <1>15, <1>16, <1>22
<1>24. l + 3 \in 3..4 /\ l + (3 + n + 2) = l + 3 + n + 2
  <2>1. l = 0 \/ l = 1
    BY <1>9, Zenon
  <2>. QED
    BY <1>1, <2>1
<1>25. w \in Seq(Byte) /\ Len(w) = l + 3 + n + 2
  BY <1>14, <1>24
<1>26. Line(w, l + 3, digits)
  <2>. DEFINE k == l + 3
  <2>1. k = l + 3
    OBVIOUS
  <2>. HIDE DEF k
  <2>2. w \in Seq(Byte) /\ Len(w) = k + Len(digits) + 2
    BY <1>25, <1>b, <2>1
  <2>3. w[k] = "eol" /\ w[k + Len(digits) + 1] = "eol" /\ w[k + Len(digits) + 2] = "$ "
    BY <1>16, <1>18, <1>b, <2>1
  <2>4. \A i \in 1 .. Len(digits) : w[k + i] = digits[i]
    BY <1>17, <1>b, <2>1
  <2>5. \A i \in 1 .. k : w[i] \notin Digits
    BY <1>21, <2>1, Zenon
  <2>6. \A i \in 1 .. k - 1 : w[i] # "eol"
    <3>1. k - 1 = l + 3 - 1
      BY <1>10, <2>1
    <3>. QED
      BY <1>23, <3>1, Zenon
  <2>. QED
    BY <2>1, <2>2, <2>3, <2>4, <2>5, <2>6, Zenon DEF Line
<1>. QED
  BY <1>24, <1>26 DEF w, answer, most

(* The bytes from i to j are digits.                                         *)
LEMMA DigitsOf ==
  ASSUME NEW s \in Seq(Byte), NEW i \in 1 .. Len(s), NEW j \in i .. Len(s),
         ToSet(SubSeq(s, i, j)) \subseteq Digits
  PROVE  \A k \in i .. j : s[k] \in Digits
<1>. DEFINE u == SubSeq(s, i, j)
<1>1. i \in Nat /\ j \in Nat /\ Len(s) \in Nat /\ i >= 1 /\ i <= j /\ j <= Len(s)
  OBVIOUS
<1>2. \A k \in i .. j : s[k] \in Byte
  BY <1>1, ElementOfSeq
<1>3. Len(u) = IF i <= j THEN j - i + 1 ELSE 0
  BY <1>1, <1>2, SubSeqProperties
<1>4. \A k \in 1 .. j - i + 1 : u[k] = s[i + k - 1]
  BY <1>1, <1>2, SubSeqProperties
<1>. HIDE DEF u
<1>5. Len(u) = j - i + 1
  BY <1>1, <1>3
<1>. SUFFICES ASSUME NEW k \in i .. j PROVE s[k] \in Digits
  OBVIOUS
<1>6. k - i + 1 \in 1 .. j - i + 1 /\ i + (k - i + 1) - 1 = k
  BY <1>1
<1>7. u[k - i + 1] = s[k]
  BY <1>4, <1>6
<1>8. u[k - i + 1] \in ToSet(u)
  <2>1. u \in Seq(Byte)
    BY <1>1, <1>2, SubSeqProperties DEF u
  <2>2. k - i + 1 \in DOMAIN u
    BY <1>5, <1>6, <2>1
  <2>. QED
    BY <2>2, Zenon DEF ToSet
<1>. QED
  BY <1>7, <1>8 DEF u

(* A line of digits in the part of the text that has been taken is the one   *)
(* with the value, and all of it.                                            *)
LEMMA OnlyLine ==
  ASSUME TelnetType, NEW w, NEW a \in 3..4, NEW digits \in Seq(Digits), Line(w, a, digits),
         Len(clean) <= Len(w), \A i \in 1 .. Len(clean) : clean[i] = w[i],
         NEW i \in 1 .. Len(clean), NEW j \in IntegerLines(i)
  PROVE  i = a + 1 /\ j = a + Len(digits) /\ j \in i .. Len(clean) - 1
<1>. DEFINE m == Len(clean)
            n == Len(digits)
<1>1. clean \in Seq(Byte)
  BY DEF TelnetType
<1>2. m \in Nat /\ n \in Nat
  BY <1>1
<1>3. LineStart(i) /\ j \in LineEnds(i)
  BY DEF IntegerLines
<1>4. j \in i .. m - 1 /\ clean[j + 1] = "eol"
  BY <1>3 DEF LineEnds
<1>5. ToSet(SubSeq(clean, i, j)) \subseteq Digits
  BY <1>3 DEF LineEnds
<1>6. j \in i .. m
  BY <1>2, <1>4
<1>7. \A k \in i .. j : clean[k] \in Digits
  BY <1>1, <1>5, <1>6, DigitsOf
<1>8. \A k \in 1 .. n : digits[k] \in Digits
  BY ElementOfSeq
<1>. HIDE DEF m, n
<1>9. /\ Len(w) = a + n + 2 /\ w[a + n + 1] = "eol" /\ w[a + n + 2] = "$ "
      /\ \A k \in 1 .. a : w[k] \notin Digits
      /\ \A k \in 1 .. n : w[a + k] = digits[k]
  BY DEF Line, n
<1>10. /\ m <= a + n + 2 /\ i \in 1 .. m /\ \A k \in 1 .. m : clean[k] = w[k]
  BY <1>9 DEF m
<1>11. "eol" \notin Digits /\ "$ " \notin Digits
  BY DEF Digits
<1>12. \A k \in i .. j : w[k] \in Digits
  <2>1. \A k \in i .. j : k \in 1 .. m
    BY <1>2, <1>4, <1>10
  <2>. QED
    BY <1>7, <1>10, <2>1
<1>13. w[j + 1] = "eol"
  <2>1. j + 1 \in 1 .. m
    BY <1>2, <1>4, <1>10
  <2>. QED
    BY <1>4, <1>10, <2>1
<1>14. \A k \in 1 .. n : w[a + k] \in Digits
  BY <1>8, <1>9
<1>15. ~(i <= a)
  <2>1. i \in i .. j /\ (i <= a => i \in 1 .. a)
    BY <1>2, <1>4, <1>10
  <2>. QED
    BY <1>9, <1>12, <2>1
<1>16. i # a + n + 2 /\ i # a + n + 1
  <2>1. i \in i .. j
    BY <1>2, <1>4, <1>10
  <2>2. w[i] \in Digits
    BY <1>12, <2>1
  <2>. QED
    BY <1>9, <1>11, <2>2
<1>17. i = a + 1
  <2>1. i # 1
    BY <1>15
  <2>2. clean[i - 1] = "eol"
    BY <1>3, <2>1 DEF LineStart
  <2>3. i - 1 \in 1 .. m
    BY <1>2, <1>10, <2>1
  <2>4. w[i - 1] = "eol"
    BY <1>10, <2>2, <2>3
  <2>5. i # a + 1 => i - 1 - a \in 1 .. n /\ a + (i - 1 - a) = i - 1
    BY <1>2, <1>10, <1>15, <1>16
  <2>. QED
    BY <1>11, <1>14, <2>4, <2>5
<1>18. j >= a + n
  <2>1. ~(j >= a + n) => j + 1 - a \in 1 .. n /\ a + (j + 1 - a) = j + 1
    BY <1>2, <1>4, <1>17
  <2>. QED
    BY <1>11, <1>13, <1>14, <2>1
<1>19. ~(j >= a + n + 1)
  <2>1. j >= a + n + 1 => a + n + 1 \in i .. j
    BY <1>2, <1>4, <1>17
  <2>. QED
    BY <1>9, <1>11, <1>12, <2>1
<1>20. j = a + n
  BY <1>2, <1>4, <1>18, <1>19
<1>. QED
  BY <1>4, <1>17, <1>20 DEF m, n

LEMMA Portion ==
  ASSUME NEW s \in Seq(Byte), NEW a \in Nat, NEW n \in Nat, a + n <= Len(s)
  PROVE  /\ SubSeq(s, a + 1, a + n) \in Seq(Byte) /\ Len(SubSeq(s, a + 1, a + n)) = n
         /\ \A k \in 1 .. n : SubSeq(s, a + 1, a + n)[k] = s[a + k]
<1>1. ASSUME NEW p \in Int, NEW q \in Int, p = a + 1, q = a + n
      PROVE  /\ SubSeq(s, p, q) \in Seq(Byte) /\ Len(SubSeq(s, p, q)) = n
             /\ \A k \in 1 .. n : SubSeq(s, p, q)[k] = s[a + k]
  <2>. DEFINE u == SubSeq(s, p, q)
  <2>1. \A k \in p .. q : s[k] \in Byte
    <3>1. \A k \in p .. q : k \in 1 .. Len(s)
      BY <1>1
    <3>. QED
      BY <3>1, ElementOfSeq
  <2>2. /\ u \in Seq(Byte) /\ Len(u) = IF p <= q THEN q - p + 1 ELSE 0
        /\ \A k \in 1 .. q - p + 1 : u[k] = s[p + k - 1]
    BY <2>1, SubSeqProperties
  <2>. HIDE DEF u
  <2>3. Len(u) = n
    BY <1>1, <2>2
  <2>4. \A k \in 1 .. n : k \in 1 .. q - p + 1 /\ p + k - 1 = a + k
    BY <1>1
  <2>5. \A k \in 1 .. n : u[k] = s[a + k]
    BY <2>2, <2>4
  <2>. QED
    BY <2>2, <2>3, <2>5 DEF u
<1>2. a + 1 \in Int /\ a + n \in Int
  OBVIOUS
<1>. QED
  BY <1>1, <1>2, Zenon

LEMMA OneOfOne ==
  ASSUME NEW k \in Int
  PROVE  Min({k}) = k /\ Max({k}) = k
<1>1. \A x \in {k} : (\A y \in {k} : x <= y) <=> x = k
  OBVIOUS
<1>2. \A x \in {k} : (\A y \in {k} : x >= y) <=> x = k
  OBVIOUS
<1>3. Min({k}) = k
  BY <1>1 DEF Min
<1>4. Max({k}) = k
  BY <1>2 DEF Max
<1>. QED
  BY <1>3, <1>4

(* When a line of digits is found, the value is read and a prompt may be left. *)
LEMMA IntegerFound ==
  ASSUME TelnetType, stage > 3, NEW w, NEW a \in 3..4, NEW digits \in Seq(Digits), Line(w, a, digits),
         Len(clean) <= Len(w), \A i \in 1 .. Len(clean) : clean[i] = w[i], Complete
  PROVE  IntegerRead = digits /\ Len(clean) >= a + Len(digits) + 1
<1>. DEFINE m == Len(clean)
            n == Len(digits)
<1>1. clean \in Seq(Byte) /\ stage \in Nat
  BY DEF TelnetType
<1>2. m \in Nat /\ n \in Nat
  BY <1>1
<1>3. PICK i \in 1 .. m : IntegerLines(i) # {}
  <2>1. ~(stage <= 3)
    BY <1>1
  <2>. QED
    BY <2>1 DEF Complete
<1>4. PICK j : j \in IntegerLines(i)
  BY <1>3
<1>5. i = a + 1 /\ j = a + n /\ j \in i .. m - 1
  BY <1>4, OnlyLine
<1>6. m >= a + n + 1
  BY <1>2, <1>5
<1>7. \A k \in 1 .. m : IntegerLines(k) # {} => k = a + 1
  BY OnlyLine
<1>8. {k \in 1 .. m : IntegerLines(k) # {}} = {a + 1}
  BY <1>3, <1>5, <1>7
<1>9. \A k \in IntegerLines(a + 1) : k = a + n
  BY <1>5, OnlyLine
<1>10. IntegerLines(a + 1) = {a + n}
  BY <1>4, <1>5, <1>9
<1>11. a + 1 \in Int /\ a + n \in Int
  BY <1>2
<1>12. Min({a + 1}) = a + 1 /\ Max({a + n}) = a + n
  BY <1>11, OneOfOne
<1>13. IntegerRead = SubSeq(clean, a + 1, a + n)
  BY <1>8, <1>10, <1>12, Zenon DEF IntegerRead
<1>14. \A k \in 1 .. n : w[a + k] = digits[k]
  BY DEF Line
<1>. HIDE DEF m, n
<1>15. \A k \in 1 .. n : clean[a + k] = digits[k]
  <2>1. \A k \in 1 .. n : a + k \in 1 .. m
    BY <1>2, <1>6
  <2>. QED
    BY <1>14, <2>1 DEF m
<1>. DEFINE u == SubSeq(clean, a + 1, a + n)
<1>16. a \in Nat /\ a + n <= m
  BY <1>2, <1>6
<1>17. u \in Seq(Byte) /\ Len(u) = n /\ \A k \in 1 .. n : u[k] = clean[a + k]
  BY <1>1, <1>2, <1>16, Portion DEF m
<1>. HIDE DEF u
<1>21. \A k \in 1 .. n : u[k] = digits[k]
  BY <1>15, <1>17
<1>22. u = digits
  <2>1. digits \in Seq(Digits) /\ Len(digits) = n
    BY DEF n
  <2>. QED
    BY <1>17, <1>21, <2>1, SeqEqual
<1>. QED
  BY <1>6, <1>13, <1>22 DEF u, m, n

LEMMA KeyRead ==
  ASSUME TelnetType, stage > 3, NEW text \in Seq(Byte), Awaited(stage, clean \o text), Complete
  PROVE  IntegerRead = Value(stage - 3) /\ LeftOver(text)
<1>. DEFINE digits == Value(stage - 3)
            m == Len(clean)
            n == Len(digits)
            w == clean \o text
<1>1. clean \in Seq(Byte) /\ stage \in Nat
  BY DEF TelnetType
<1>2. digits \in Seq(Digits) /\ Response(stage) = {Redraw \o digits \o LineEnd}
  BY <1>1, KeyResponse
<1>. HIDE DEF digits, w
<1>3. PICK lead \in Seq(Byte), answer \in Response(stage) : LeftOver(lead) /\ w = lead \o answer
  BY Zenon DEF Awaited, w
<1>4. answer = Redraw \o digits \o LineEnd
  BY <1>2
<1>5. PICK a \in 3..4 : Line(lead \o (Redraw \o digits \o LineEnd), a, digits)
  BY <1>2, <1>3, KeyLine
<1>6. Line(w, a, digits)
  BY <1>3, <1>4, <1>5, Zenon
<1>7. /\ m \in Nat /\ Len(text) \in Nat /\ Len(w) = m + Len(text)
      /\ \A i \in 1 .. m : clean[i] = w[i]
      /\ \A i \in 1 .. Len(text) : text[i] = w[m + i]
  BY <1>1, Parts DEF w
<1>8. m <= Len(w)
  BY <1>7
<1>9. IntegerRead = digits /\ m >= a + n + 1
  BY <1>2, <1>6, <1>7, <1>8, IntegerFound
<1>a. Len(w) = a + n + 2 /\ w[a + n + 2] = "$ "
  BY <1>6, Zenon DEF Line
<1>b. digits \in Seq(Digits)
  BY <1>2, Zenon
<1>c. n \in Nat
  BY <1>b
<1>10. Len(w) = a + n + 2
  BY <1>a, Zenon
<1>. HIDE DEF m, n
<1>11. Len(text) = 0 \/ (Len(text) = 1 /\ m + 1 = a + n + 2)
  <2>1. m \in Nat /\ Len(text) \in Nat /\ m + Len(text) = a + n + 2
    BY <1>7, <1>10, Zenon
  <2>2. m >= a + n + 1
    BY <1>9
  <2>3. \A b, c, k, l \in Nat : l + k = b + c + 2 /\ l >= b + c + 1 => k = 0 \/ (k = 1 /\ l + 1 = b + c + 2)
    OBVIOUS
  <2>4. a \in Nat
    BY <1>5
  <2>. QED
    BY <1>c, <2>1, <2>2, <2>3, <2>4, Zenon
<1>12. CASE Len(text) = 0
  <2>1. text = <<>>
    BY <1>12, NoText
  <2>2. LeftOver(text)
    BY <2>1, Zenon DEF LeftOver
  <2>. QED
    BY <1>9, <2>2 DEF digits
<1>13. CASE Len(text) = 1 /\ m + 1 = a + n + 2
  <2>1. 1 \in 1 .. Len(text)
    BY <1>13
  <2>2. text[1] = w[a + n + 2]
    BY <1>7, <1>13, <2>1
  <2>3. text[1] = "$ "
    BY <1>a, <2>2, Zenon
  <2>. DEFINE prompt == "$ "
  <2>4. text[1] = prompt /\ Len(text) = 1
    BY <1>13, <2>3
  <2>5. prompt \in Byte
    BY DEF Byte
  <2>. HIDE DEF prompt
  <2>6. <<prompt>> \in Seq(Byte) /\ Len(<<prompt>>) = 1 /\ <<prompt>>[1] = prompt
    BY <2>5
  <2>7. \A i \in 1 .. Len(text) : text[i] = <<prompt>>[i]
    BY <2>4, <2>6
  <2>8. text = <<prompt>>
    BY <2>4, <2>6, <2>7, SeqEqual
  <2>9. LeftOver(text)
    BY <2>8, Zenon DEF LeftOver, prompt
  <2>. QED
    BY <1>9, <2>9 DEF digits
<1>. QED
  BY <1>11, <1>12, <1>13

-----------------------------------------------------------------------------
(* The telnet session: its steps                                             *)

LEMMA AnswerBytes == \A s \in Nat \ {0} : Response(s) \subseteq Seq(Byte \ {"IAC"})
<1>. SUFFICES ASSUME NEW s \in Nat \ {0} PROVE Response(s) \subseteq Seq(Byte \ {"IAC"})
  OBVIOUS
<1>1. CASE s \in 1..3
  BY <1>1, PromptBytes
<1>2. CASE s > 3
  <2>. DEFINE Plain == Byte \ {"IAC"}
              digits == Value(s - 3)
  <2>1. digits \in Seq(Digits) /\ Response(s) = {Redraw \o digits \o LineEnd}
    BY <1>2, KeyResponse
  <2>2. "x" \in Plain /\ "eol" \in Plain /\ "$ " \in Plain /\ Digits \subseteq Plain
    BY DEF Byte, Digits
  <2>. HIDE DEF Plain, digits
  <2>3. Redraw \in Seq(Plain)
    BY <2>2, Words DEF Redraw
  <2>4. LineEnd \in Seq(Plain)
    BY <2>2, Words DEF LineEnd
  <2>5. digits \in Seq(Plain)
    BY <2>1, <2>2, SeqMonotonic
  <2>6. Redraw \o digits \in Seq(Plain)
    BY <2>3, <2>5, ConcatProperties
  <2>7. Redraw \o digits \o LineEnd \in Seq(Plain)
    BY <2>4, <2>6, ConcatProperties
  <2>. QED
    BY <2>1, <2>7 DEF Plain
<1>. QED
  BY <1>1, <1>2

LEMMA Nothing ==
  /\ \A s \in Seq(Byte) : s \o <<>> = s /\ <<>> \o s = s
  /\ \A s \in Seq(Answer) : s \o <<>> = s /\ <<>> \o s = s
  BY ConcatEmptySeq

LEMMA Together ==
  /\ \A s, t \in Seq(Byte) : s \o t \in Seq(Byte)
  /\ \A s, t \in Seq(Answer) : s \o t \in Seq(Answer)
  BY ConcatProperties

(* What the device sends is a response that may be interrupted by an offer,  *)
(* and calls for the refusal of that.                                        *)
Arrives(s, text, replies) ==
  \E answer \in Response(s), more \in Seq(Answer) :
    /\ answer \in Seq(Byte) /\ incoming' \in Seq(Byte) /\ Len(incoming') >= Len(incoming)
    /\ Run(incoming', filter, text \o answer, replies \o more)
    /\ demands' = demands \o more

LEMMA Sent ==
  ASSUME NEW s \in Nat \ {0}, incoming \in Seq(Byte), demands \in Seq(Answer), DeviceSends(s),
         NEW text \in Seq(Byte), NEW replies \in Seq(Answer), Run(incoming, filter, text, replies)
  PROVE  Arrives(s, text, replies)
<1>1. PICK answer \in Response(s) :
        \/ incoming' = incoming \o answer /\ demands' = demands
        \/ \E offer \in Offers, i \in 0 .. Len(answer) :
             /\ incoming' = incoming \o SubSeq(answer, 1, i) \o offer \o SubSeq(answer, i + 1, Len(answer))
             /\ demands' = demands \o Refusal(offer)
  BY Zenon DEF DeviceSends
<1>2. answer \in Seq(Byte \ {"IAC"})
  BY AnswerBytes
<1>3. answer \in Seq(Byte) /\ Run(answer, "text", answer, <<>>)
  BY <1>2, RunText
<1>a. <<>> \in Seq(Answer) /\ <<>> \in Seq(Byte)
  OBVIOUS
<1>4. CASE incoming' = incoming \o answer /\ demands' = demands
  <2>1. incoming' \in Seq(Byte) /\ Len(incoming') >= Len(incoming)
    BY <1>3, <1>4, ConcatProperties
  <2>2. Run(incoming \o answer, filter, text \o answer, replies \o <<>>)
    BY <1>3, <1>a, RunConcat
  <2>3. demands' = demands \o <<>>
    BY <1>4, Nothing
  <2>. QED
    BY <1>3, <1>4, <1>a, <2>1, <2>2, <2>3, Zenon DEF Arrives
<1>5. CASE \E offer \in Offers, i \in 0 .. Len(answer) :
             /\ incoming' = incoming \o SubSeq(answer, 1, i) \o offer \o SubSeq(answer, i + 1, Len(answer))
             /\ demands' = demands \o Refusal(offer)
  <2>1. PICK offer \in Offers, i \in 0 .. Len(answer) :
             /\ incoming' = incoming \o SubSeq(answer, 1, i) \o offer \o SubSeq(answer, i + 1, Len(answer))
             /\ demands' = demands \o Refusal(offer)
    BY <1>5
  <2>. DEFINE p == SubSeq(answer, 1, i)
              q == SubSeq(answer, i + 1, Len(answer))
              refusal == Refusal(offer)
  <2>2. p \in Seq(Byte \ {"IAC"}) /\ q \in Seq(Byte \ {"IAC"}) /\ p \o q = answer
    <3>1. \A j \in 1 .. Len(answer) : answer[j] \in Byte \ {"IAC"}
      BY <1>2, ElementOfSeq
    <3>2. (\A j \in 1 .. i : answer[j] \in Byte \ {"IAC"})
          /\ (\A j \in i + 1 .. Len(answer) : answer[j] \in Byte \ {"IAC"})
      <4>1. (\A j \in 1 .. i : j \in 1 .. Len(answer)) /\ (\A j \in i + 1 .. Len(answer) : j \in 1 .. Len(answer))
        OBVIOUS
      <4>. QED
        BY <3>1, <4>1
    <3>3. i \in Int /\ i + 1 \in Int /\ Len(answer) \in Int /\ 1 \in Int
      BY <1>2
    <3>4. p \in Seq(Byte \ {"IAC"})
      BY <3>2, <3>3, SubSeqProperties
    <3>5. q \in Seq(Byte \ {"IAC"})
      BY <3>2, <3>3, SubSeqProperties
    <3>6. p \o q = answer
      <4>1. 1 \in 1 .. Len(answer) + 1 /\ i \in 1 - 1 .. Len(answer) /\ Len(answer) \in i .. Len(answer)
        BY <3>3
      <4>2. p \o q = SubSeq(answer, 1, Len(answer))
        BY <1>2, <4>1, ConcatAdjacentSubSeq
      <4>. QED
        BY <1>2, <4>2, SubSeqFull
    <3>. QED
      BY <3>4, <3>5, <3>6
  <2>3. /\ p \in Seq(Byte) /\ Run(p, "text", p, <<>>)
        /\ q \in Seq(Byte) /\ Run(q, "text", q, <<>>)
    BY <2>2, RunText
  <2>4. offer \in Seq(Byte) /\ refusal \in Seq(Answer) /\ Run(offer, "text", <<>>, refusal)
    BY RunOffer
  <2>. HIDE DEF p, q, refusal
  <2>5. incoming \o p \in Seq(Byte) /\ Run(incoming \o p, filter, text \o p, replies \o <<>>)
    BY <1>a, <2>3, RunConcat, Together
  <2>6. /\ incoming \o p \o offer \in Seq(Byte)
        /\ Run(incoming \o p \o offer, filter, text \o p \o <<>>, replies \o <<>> \o refusal)
    BY <1>a, <2>4, <2>5, RunConcat, Together
  <2>7. /\ incoming \o p \o offer \o q \in Seq(Byte)
        /\ Run(incoming \o p \o offer \o q, filter, text \o p \o <<>> \o q, replies \o <<>> \o refusal \o <<>>)
    BY <1>a, <2>3, <2>6, RunConcat, Together
  <2>8. text \o p \o <<>> \o q = text \o answer
    <3>1. text \o p \in Seq(Byte)
      BY <2>3, Together
    <3>2. text \o p \o <<>> = text \o p
      BY <3>1, Nothing
    <3>3. text \o p \o q = text \o (p \o q)
      BY <2>3, Regroup, ZenonT(60)
    <3>. QED
      BY <2>2, <3>2, <3>3 DEF p, q
  <2>9. replies \o <<>> \o refusal \o <<>> = replies \o refusal
    <3>1. replies \o <<>> = replies /\ replies \o refusal \in Seq(Answer)
      BY <2>4, Nothing, Together
    <3>. QED
      BY <3>1, Nothing
  <2>10. incoming' = incoming \o p \o offer \o q /\ demands' = demands \o refusal
    BY <2>1 DEF p, q, refusal
  <2>11. Len(incoming \o p \o offer \o q) >= Len(incoming)
    <3>1. Len(incoming \o p) = Len(incoming) + Len(p)
      BY <2>3, ConcatProperties
    <3>2. Len(incoming \o p \o offer) = Len(incoming \o p) + Len(offer)
      BY <2>4, <2>5, ConcatProperties
    <3>3. Len(incoming \o p \o offer \o q) = Len(incoming \o p \o offer) + Len(q)
      BY <2>3, <2>6, ConcatProperties
    <3>4. Len(incoming) \in Nat /\ Len(p) \in Nat /\ Len(offer) \in Nat /\ Len(q) \in Nat
      BY <2>3, <2>4, LenProperties
    <3>5. \A k, l, m, n \in Nat : k + l + m + n >= k
      OBVIOUS
    <3>. QED
      BY <3>1, <3>2, <3>3, <3>4, <3>5, Zenon
  <2>. QED
    BY <1>3, <2>4, <2>7, <2>8, <2>9, <2>10, <2>11, Zenon DEF Arrives
<1>. QED
  BY <1>1, <1>4, <1>5

LEMMA TelnetStart == TelnetInit => TelnetInv
<1>. SUFFICES ASSUME TelnetInit PROVE TelnetInv
  OBVIOUS
<1>1. Keys \in Nat
  BY TelnetAssumption
<1>2. 1 \in 1 .. 4 + Keys /\ 0 \in 0 .. 0
  BY <1>1
<1>3. <<>> \in Seq(Byte) /\ <<>> \in Seq(Answer) /\ <<>> \in Seq(Seq(Byte)) /\ Len(<<>>) = 0
  OBVIOUS
<1>4. "text" \in Filter
  BY DEF Filter
<1>5. TelnetType
  BY <1>2, <1>3, <1>4 DEF TelnetInit, TelnetType
<1>6. demands = refusals \o <<>>
  BY <1>3, Nothing DEF TelnetInit
<1>7. OwnInteger
  BY DEF TelnetInit, OwnInteger
<1>. QED
  BY <1>3, <1>5, <1>6, <1>7 DEF TelnetInv, TelnetInit

(* What is sent while the last response has been taken is awaited next.      *)
LEMMA Asked ==
  ASSUME TelnetType, NEW s \in Nat \ {0}, DeviceSends(s), NEW text \in Seq(Byte), NEW replies \in Seq(Answer),
         Stream(text, replies), LeftOver(text), s <= 4 => text = <<>>,
         stage' = s, clean' = <<>>, UNCHANGED <<filter, refusals>>
  PROVE  /\ incoming' \in Seq(Byte) /\ demands' \in Seq(Answer) /\ Len(incoming') \in Nat
         /\ Expecting' /\ (\E r \in Seq(Answer) : demands = refusals \o r)'
<1>1. incoming \in Seq(Byte) /\ demands \in Seq(Answer) /\ refusals \in Seq(Answer)
  BY DEF TelnetType
<1>2. Run(incoming, filter, text, replies) /\ demands = refusals \o replies
  BY DEF Stream
<1>3. PICK answer \in Response(s), more \in Seq(Answer) :
        /\ answer \in Seq(Byte) /\ incoming' \in Seq(Byte) /\ Len(incoming') >= Len(incoming)
        /\ Run(incoming', filter, text \o answer, replies \o more)
        /\ demands' = demands \o more
  <2>1. Arrives(s, text, replies)
    BY <1>1, <1>2, Sent, Zenon
  <2>. QED
    BY <2>1, Zenon DEF Arrives
<1>4. text \o answer \in Seq(Byte) /\ replies \o more \in Seq(Answer) /\ demands' \in Seq(Answer)
  BY <1>1, <1>3, Together
<1>5. demands' = refusals \o (replies \o more)
  BY <1>1, <1>2, <1>3, Regroup, ZenonT(60)
<1>6. Stream(text \o answer, replies \o more)'
  BY <1>3, <1>5 DEF Stream
<1>7. <<>> \o (text \o answer) = text \o answer
  BY <1>4, Nothing
<1>8. Awaited(s, text \o answer)
  BY <1>3, Zenon DEF Awaited
<1>9. Awaited(stage', clean' \o (text \o answer))
  BY <1>7, <1>8
<1>10. Expecting'
  BY <1>4, <1>6, <1>9 DEF Expecting
<1>11. (\E r \in Seq(Answer) : demands = refusals \o r)'
  BY <1>4, <1>5
<1>. QED
  BY <1>3, <1>4, <1>10, <1>11, LenProperties

LEMMA OpenKeeps == TelnetInv /\ Open => TelnetInv'
<1>. SUFFICES ASSUME TelnetInv, Open PROVE TelnetInv'
  OBVIOUS
<1>1. TelnetType /\ TelnetInit /\ OwnInteger
  BY DEF TelnetInv, Open
<1>2. /\ stage' = 1 /\ clean' = <<>> /\ raw' = <<>> /\ received' = 0 /\ filter' = filter
      /\ refusals' = refusals /\ raw' = raw
  BY <1>1 DEF Open, TelnetInit, filterVars
<1>3. OwnInteger'
  BY <1>1, <1>2 DEF OwnInteger
<1>4. CASE session' = "open" /\ DeviceSends(1)
  <2>1. <<>> \in Seq(Byte) /\ <<>> \in Seq(Answer)
    OBVIOUS
  <2>2. Run(incoming, filter, <<>>, <<>>) /\ demands = refusals \o <<>>
    BY <1>1, <2>1, RunEmpty, Nothing DEF TelnetInit
  <2>3. Stream(<<>>, <<>>)
    BY <2>2, Zenon DEF Stream
  <2>4. LeftOver(<<>>)
    BY Zenon DEF LeftOver
  <2>5. /\ incoming' \in Seq(Byte) /\ demands' \in Seq(Answer) /\ Len(incoming') \in Nat
        /\ Expecting' /\ (\E r \in Seq(Answer) : demands = refusals \o r)'
    <3>1. 1 \in Nat \ {0}
      OBVIOUS
    <3>. QED
      BY <1>1, <1>2, <1>4, <2>1, <2>3, <2>4, <3>1, Asked
  <2>6. Reached'
    <3>1. Keys \in Nat
      BY TelnetAssumption
    <3>2. 1 \in 1 .. 3 + Keys /\ ~(1 > 3)
      BY <3>1
    <3>. QED
      BY <1>2, <3>2 DEF Reached
  <2>7. TelnetType'
    <3>1. 0 \in 0 .. Len(incoming')
      BY <2>5
    <3>2. session' \in {"none", "open", "closed"}
      BY <1>4
    <3>3. stage' = stage /\ clean' = clean
      BY <1>1, <1>2 DEF TelnetInit
    <3>. QED
      BY <1>1, <1>2, <2>5, <3>1, <3>2, <3>3 DEF TelnetType
  <2>. QED
    BY <1>3, <1>4, <2>5, <2>6, <2>7 DEF TelnetInv
<1>5. CASE session' = "closed" /\ UNCHANGED <<incoming, deviceVars>>
  <2>1. TelnetType'
    BY <1>1, <1>2, <1>5 DEF TelnetType, TelnetInit, deviceVars
  <2>2. (\E replies \in Seq(Answer) : demands = refusals \o replies)'
    BY <1>2, <1>5 DEF TelnetInv, deviceVars
  <2>. QED
    BY <1>3, <1>5, <2>1, <2>2 DEF TelnetInv
<1>. QED
  BY <1>4, <1>5 DEF Open

(* The session ends, or nothing that the invariant speaks of changes but how *)
(* much has been received.                                                   *)
LEMMA EndKeeps == TelnetInv /\ (ReadFails \/ LoginRejected) => TelnetInv'
<1>. SUFFICES ASSUME TelnetInv, ReadFails \/ LoginRejected PROVE TelnetInv'
  OBVIOUS
<1>1. /\ session' = "closed" /\ clean' \in {clean, <<>>}
      /\ UNCHANGED <<stage, filter, refusals, raw, incoming, received, demands>>
  BY DEF ReadFails, LoginRejected, End, filterVars, deviceVars
<1>2. TelnetType'
  <2>1. <<>> \in Seq(Byte)
    OBVIOUS
  <2>. QED
    BY <1>1, <2>1 DEF TelnetType, TelnetInv
<1>3. (\E replies \in Seq(Answer) : demands = refusals \o replies)'
  BY <1>1 DEF TelnetInv
<1>4. OwnInteger'
  BY <1>1 DEF OwnInteger, TelnetInv
<1>. QED
  BY <1>1, <1>2, <1>3, <1>4 DEF TelnetInv

LEMMA RecvKeeps == TelnetInv /\ (Recv \/ UNCHANGED telnetVars) => TelnetInv'
<1>. SUFFICES ASSUME TelnetInv, Recv \/ UNCHANGED telnetVars PROVE TelnetInv'
  OBVIOUS
<1>1. /\ UNCHANGED <<session, stage, filter, clean, refusals, raw, result, incoming, demands, extra>>
      /\ received' \in 1 .. Len(incoming) \/ received' = received
  BY DEF Recv, telnetVars, filterVars, deviceVars
<1>2. TelnetType'
  BY <1>1 DEF TelnetType, TelnetInv
<1>3. (\E replies \in Seq(Answer) : demands = refusals \o replies)'
  BY <1>1 DEF TelnetInv
<1>4. OwnInteger'
  BY <1>1 DEF OwnInteger, TelnetInv
<1>5. session' = "open" => Reached' /\ Expecting'
  BY <1>1 DEF TelnetInv, Reached, Expecting, Stream
<1>6. session' = "none" => TelnetInit'
  <2>1. session = "none" => UNCHANGED telnetVars
    BY DEF Recv
  <2>. QED
    BY <1>1, <2>1 DEF TelnetInv, TelnetInit, telnetVars
<1>. QED
  BY <1>2, <1>3, <1>4, <1>5, <1>6 DEF TelnetInv

(* The rest after two bytes is the rest of the rest after one.               *)
LEMMA RestOfRest ==
  ASSUME NEW s \in Seq(Byte), Len(s) >= 2
  PROVE  LET tail == SubSeq(s, 1 + 1, Len(s)) IN
           /\ tail \in Seq(Byte) /\ tail # <<>> /\ tail[1] = s[2] /\ Len(tail) = Len(s) - 1
           /\ SubSeq(tail, 1 + 1, Len(tail)) = SubSeq(s, 2 + 1, Len(s))
<1>. DEFINE n == Len(s)
            tail == SubSeq(s, 1 + 1, n)
            u == SubSeq(tail, 1 + 1, Len(tail))
            v == SubSeq(s, 2 + 1, n)
<1>1. n \in Nat /\ 1 \in 1 .. n /\ 2 \in 1 .. n
  OBVIOUS
<1>2. tail \in Seq(Byte) /\ Len(tail) = n - 1 /\ \A i \in 1 .. n - 1 : tail[i] = s[i + 1]
  BY <1>1, RestOf
<1>3. v \in Seq(Byte) /\ Len(v) = n - 2 /\ \A i \in 1 .. n - 2 : v[i] = s[i + 2]
  BY <1>1, RestOf
<1>. HIDE DEF tail, v, n
<1>4. n - 1 \in Nat /\ 1 \in 1 .. n - 1 /\ n - 1 - 1 = n - 2
  BY <1>1
<1>5. u \in Seq(Byte) /\ Len(u) = n - 2 /\ \A i \in 1 .. n - 2 : u[i] = tail[i + 1]
  <2>1. 1 \in 1 .. Len(tail)
    BY <1>2, <1>4
  <2>2. u \in Seq(Byte) /\ Len(u) = Len(tail) - 1 /\ \A i \in 1 .. Len(tail) - 1 : u[i] = tail[i + 1]
    BY <1>2, <2>1, RestOf
  <2>. HIDE DEF u
  <2>3. Len(tail) - 1 = n - 2
    BY <1>2, <1>4
  <2>. QED
    BY <2>2, <2>3
<1>. HIDE DEF u
<1>6. \A i \in 1 .. n - 2 : u[i] = v[i]
  <2>. SUFFICES ASSUME NEW i \in 1 .. n - 2 PROVE u[i] = v[i]
    OBVIOUS
  <2>1. i + 1 \in 1 .. n - 1 /\ i + 1 + 1 = i + 2
    BY <1>1
  <2>2. u[i] = tail[i + 1] /\ tail[i + 1] = s[i + 1 + 1] /\ v[i] = s[i + 2]
    BY <1>2, <1>3, <1>5, <2>1
  <2>. QED
    BY <2>1, <2>2
<1>7. u = v
  BY <1>3, <1>5, <1>6, SeqEqual
<1>8. tail[1] = s[2]
  <2>1. 1 + 1 = 2
    OBVIOUS
  <2>. QED
    BY <1>2, <1>4, <2>1
<1>9. tail # <<>>
  <2>1. Len(<<>>) = 0
    OBVIOUS
  <2>. QED
    BY <1>2, <1>4, <2>1
<1>. QED
  BY <1>2, <1>7, <1>8, <1>9 DEF tail, u, v, n

(* A byte, or a command with its option, goes from what is to come to what   *)
(* has been taken: to the text and to the replies.                           *)
LEMMA TakesByte ==
  ASSUME TelnetType, NEW text \in Seq(Byte), NEW replies \in Seq(Answer), Stream(text, replies),
         received > 0, ConsumeByte, refusals' = refusals \o Due, demands' = demands
  PROVE  \E t \in Seq(Byte), r \in Seq(Answer) :
           /\ Stream(t, r)' /\ clean' \o t = clean \o text
           /\ clean' \in Seq(Byte) /\ refusals' \in Seq(Answer) /\ filter' \in Filter
           /\ incoming' \in Seq(Byte) /\ received' \in 0 .. Len(incoming')
<1>. DEFINE b == incoming[1]
<1>1. /\ incoming \in Seq(Byte) /\ clean \in Seq(Byte) /\ refusals \in Seq(Answer)
      /\ filter \in Filter /\ received \in 1 .. Len(incoming)
  BY DEF TelnetType
<1>2. incoming # <<>> /\ 1 \in 1 .. Len(incoming) /\ b \in Byte
  <2>1. 1 \in 1 .. Len(incoming)
    BY <1>1
  <2>2. incoming # <<>>
    BY <2>1
  <2>. QED
    BY <1>1, <2>1, <2>2, ElementOfSeq
<1>3. /\ filter' = After(filter, b) /\ clean' = clean \o Text(filter, b) /\ Due = Reply(filter, b)
      /\ incoming' = SubSeq(incoming, 1 + 1, Len(incoming)) /\ received' = received - 1
  BY DEF ConsumeByte, Due, Take
<1>. HIDE DEF b
<1>4. filter' \in Filter /\ Text(filter, b) \in Seq(Byte) /\ Reply(filter, b) \in Seq(Answer)
  BY <1>1, <1>2, <1>3, ByteTypes
<1>5. PICK t \in Seq(Byte), r \in Seq(Answer) :
        /\ text = Text(filter, b) \o t /\ replies = Reply(filter, b) \o r
        /\ Run(incoming', filter', t, r)
  BY <1>1, <1>2, <1>3, RunFirst DEF Stream, b
<1>6. clean' \o t = clean \o text
  <2>1. (clean \o Text(filter, b)) \o t = clean \o (Text(filter, b) \o t)
    BY <1>1, <1>4, Regroup, ZenonT(60)
  <2>2. clean' = clean \o Text(filter, b) /\ text = Text(filter, b) \o t
    BY <1>3, <1>5, Zenon
  <2>. QED
    BY <2>1, <2>2, Zenon
<1>7. demands' = refusals' \o r
  <2>1. demands = refusals \o replies
    BY DEF Stream
  <2>2. (refusals \o Reply(filter, b)) \o r = refusals \o (Reply(filter, b) \o r)
    BY <1>1, <1>4, Regroup, ZenonT(60)
  <2>. QED
    BY <1>3, <1>5, <2>1, <2>2
<1>8. incoming' \in Seq(Byte) /\ received' \in 0 .. Len(incoming')
  <2>1. incoming' \in Seq(Byte) /\ Len(incoming') = Len(incoming) - 1
    BY <1>1, <1>2, <1>3, RestOf
  <2>2. received - 1 \in 0 .. Len(incoming) - 1
    BY <1>1
  <2>. QED
    BY <1>3, <2>1, <2>2
<1>9. clean' \in Seq(Byte) /\ refusals' \in Seq(Answer)
  BY <1>1, <1>3, <1>4, Together
<1>. QED
  BY <1>4, <1>5, <1>6, <1>7, <1>8, <1>9 DEF Stream

LEMMA TakesCommand ==
  ASSUME TelnetType, NEW text \in Seq(Byte), NEW replies \in Seq(Answer), Stream(text, replies),
         ConsumeCommand, refusals' = refusals \o Due, demands' = demands
  PROVE  \E t \in Seq(Byte), r \in Seq(Answer) :
           /\ Stream(t, r)' /\ clean' \o t = clean \o text
           /\ clean' \in Seq(Byte) /\ refusals' \in Seq(Answer) /\ filter' \in Filter
           /\ incoming' \in Seq(Byte) /\ received' \in 0 .. Len(incoming')
<1>. DEFINE command == incoming[1]
            option == incoming[2]
            tail == SubSeq(incoming, 1 + 1, Len(incoming))
<1>1. /\ incoming \in Seq(Byte) /\ clean \in Seq(Byte) /\ refusals \in Seq(Answer)
      /\ received \in 0 .. Len(incoming)
  BY DEF TelnetType
<1>2. /\ filter = "IAC" /\ command \in Negotiations /\ received > 1
      /\ filter' = "text" /\ clean' = clean /\ Due = Reply(command, option)
      /\ incoming' = SubSeq(incoming, 2 + 1, Len(incoming)) /\ received' = received - 2
  BY DEF ConsumeCommand, OptionHere, Due, Take
<1>3. incoming # <<>> /\ Len(incoming) >= 2 /\ 2 \in 1 .. Len(incoming)
  <2>1. Len(incoming) >= 2 /\ 2 \in 1 .. Len(incoming)
    BY <1>1, <1>2
  <2>. QED
    BY <2>1
<1>4. command \in Filter /\ command \in Byte /\ option \in Byte
  <2>1. option \in Byte
    BY <1>1, <1>3, ElementOfSeq
  <2>2. Negotiations \subseteq Filter /\ Negotiations \subseteq Byte
    BY DEF Filter, Byte
  <2>. QED
    BY <1>2, <2>1, <2>2
<1>. HIDE DEF command, option
<1>5. After("IAC", command) = command /\ Text("IAC", command) = <<>> /\ Reply("IAC", command) = <<>>
  BY <1>2 DEF After, Cut, Text, Reply, Negotiations
<1>6. After(command, option) = "text" /\ Text(command, option) = <<>>
  BY <1>2 DEF After, Text, Negotiations
<1>7. Reply(command, option) \in Seq(Answer)
  BY <1>4, ByteTypes
<1>8. PICK t1 \in Seq(Byte), r1 \in Seq(Answer) :
        text = <<>> \o t1 /\ replies = <<>> \o r1 /\ Run(tail, command, t1, r1)
  <2>1. Run(incoming, "IAC", text, replies)
    BY <1>2 DEF Stream
  <2>2. \E t1 \in Seq(Byte), r1 \in Seq(Answer) :
          /\ text = Text("IAC", incoming[1]) \o t1 /\ replies = Reply("IAC", incoming[1]) \o r1
          /\ Run(SubSeq(incoming, 1 + 1, Len(incoming)), After("IAC", incoming[1]), t1, r1)
    BY <1>1, <1>3, <2>1, RunFirst, Zenon
  <2>. QED
    BY <1>5, <2>2, Zenon DEF command
<1>9. text = t1 /\ replies = r1
  BY <1>8, Nothing
<1>10. /\ tail \in Seq(Byte) /\ tail # <<>> /\ tail[1] = option /\ Len(tail) = Len(incoming) - 1
       /\ SubSeq(tail, 1 + 1, Len(tail)) = incoming'
  BY <1>1, <1>2, <1>3, RestOfRest DEF option
<1>. HIDE DEF tail
<1>11. PICK t \in Seq(Byte), r \in Seq(Answer) :
        text = <<>> \o t /\ replies = Reply(command, option) \o r /\ Run(incoming', "text", t, r)
  <2>1. \E t \in Seq(Byte), r \in Seq(Answer) :
          /\ t1 = Text(command, tail[1]) \o t /\ r1 = Reply(command, tail[1]) \o r
          /\ Run(SubSeq(tail, 1 + 1, Len(tail)), After(command, tail[1]), t, r)
    BY <1>8, <1>10, RunFirst, Zenon
  <2>. QED
    BY <1>6, <1>9, <1>10, <2>1, Zenon
<1>12. clean' \o t = clean \o text
  <2>1. text = t
    BY <1>11, Nothing
  <2>2. clean' = clean
    BY <1>2, Zenon
  <2>. QED
    BY <2>1, <2>2
<1>13. demands' = refusals' \o r
  <2>1. demands = refusals \o replies
    BY DEF Stream
  <2>2. (refusals \o Reply(command, option)) \o r = refusals \o (Reply(command, option) \o r)
    BY <1>1, <1>7, <1>11, Regroup, ZenonT(60)
  <2>. QED
    BY <1>2, <1>11, <2>1, <2>2
<1>14. Stream(t, r)'
  BY <1>2, <1>11, <1>13 DEF Stream
<1>15. incoming' \in Seq(Byte) /\ received' \in 0 .. Len(incoming')
  <2>1. incoming' \in Seq(Byte) /\ Len(incoming') = Len(incoming) - 2
    BY <1>1, <1>2, <1>3, RestOf
  <2>2. received - 2 \in 0 .. Len(incoming) - 2
    BY <1>1, <1>2
  <2>. QED
    BY <1>2, <2>1, <2>2
<1>16. clean' \in Seq(Byte) /\ refusals' \in Seq(Answer) /\ filter' \in Filter
  <2>1. "text" \in Filter
    BY DEF Filter
  <2>2. refusals' \in Seq(Answer)
    BY <1>1, <1>2, <1>7, Together
  <2>. QED
    BY <1>1, <1>2, <2>1, <2>2
<1>. QED
  BY <1>12, <1>14, <1>15, <1>16

LEMMA ConsumeKeeps == TelnetInv /\ Consume => TelnetInv'
<1>. SUFFICES ASSUME TelnetInv, Consume PROVE TelnetInv'
  OBVIOUS
<1>1. TelnetType /\ Reached /\ Expecting /\ OwnInteger
  BY DEF TelnetInv, Consume
<1>2. /\ session' = "open" /\ UNCHANGED <<session, stage, raw, demands>> /\ received > 0
      /\ ConsumeCommand \/ ConsumeByte
      /\ refusals' = refusals \o Due /\ demands' = demands
  BY DEF Consume, deviceVars
<1>3. PICK text \in Seq(Byte), replies \in Seq(Answer) : Stream(text, replies) /\ Awaited(stage, clean \o text)
  BY <1>1 DEF Expecting
<1>. DEFINE Taken(t, r) ==
       /\ Stream(t, r)' /\ clean' \o t = clean \o text
       /\ clean' \in Seq(Byte) /\ refusals' \in Seq(Answer) /\ filter' \in Filter
       /\ incoming' \in Seq(Byte) /\ received' \in 0 .. Len(incoming')
<1>4. PICK t \in Seq(Byte), r \in Seq(Answer) : Taken(t, r)
  <2>1. CASE ConsumeCommand
    BY <1>1, <1>2, <1>3, <2>1, TakesCommand, Zenon
  <2>2. CASE ConsumeByte
    BY <1>1, <1>2, <1>3, <2>2, TakesByte, Zenon
  <2>. QED
    BY <1>2, <2>1, <2>2
<1>5. Stream(t, r)' /\ clean' \o t = clean \o text
  BY <1>4
<1>6. /\ clean' \in Seq(Byte) /\ refusals' \in Seq(Answer) /\ filter' \in Filter
      /\ incoming' \in Seq(Byte) /\ received' \in 0 .. Len(incoming')
  BY <1>4
<1>7. TelnetType'
  BY <1>1, <1>2, <1>6 DEF TelnetType
<1>8. Reached'
  BY <1>1, <1>2 DEF Reached
<1>9. Expecting'
  BY <1>2, <1>3, <1>5, Zenon DEF Expecting
<1>10. (\E replies_1 \in Seq(Answer) : demands = refusals \o replies_1)'
  BY <1>5, Zenon DEF Stream
<1>11. OwnInteger'
  BY <1>1, <1>2 DEF OwnInteger
<1>. QED
  BY <1>2, <1>7, <1>8, <1>9, <1>10, <1>11 DEF TelnetInv

(* The response that is complete is the one awaited, and what is left of it. *)
LEMMA Answered ==
  ASSUME TelnetType, stage \in Nat \ {0}, NEW text \in Seq(Byte), Awaited(stage, clean \o text), Complete, ~Rejected
  PROVE  /\ LeftOver(text) /\ (stage <= 3 => text = <<>>)
         /\ stage > 3 => IntegerRead = Value(stage - 3)
<1>1. CASE stage <= 3
  <2>1. stage \in 1..3 /\ ~(stage > 3)
    BY <1>1
  <2>2. text = <<>>
    BY <2>1, PromptRead
  <2>3. LeftOver(text)
    BY <2>2, Zenon DEF LeftOver
  <2>. QED
    BY <2>1, <2>2, <2>3
<1>2. CASE stage > 3
  <2>1. IntegerRead = Value(stage - 3) /\ LeftOver(text)
    BY <1>2, KeyRead
  <2>. QED
    BY <1>2, <2>1
<1>. QED
  BY <1>1, <1>2

LEMMA AdvanceKeeps == TelnetInv /\ Advance => TelnetInv'
<1>. SUFFICES ASSUME TelnetInv, Advance PROVE TelnetInv'
  OBVIOUS
<1>1. TelnetType /\ Reached /\ Expecting /\ OwnInteger
  BY DEF TelnetInv, Advance
<1>2. /\ Complete /\ ~Rejected /\ received = 0 /\ clean' = <<>> /\ stage' = stage + 1
      /\ filter' = filter /\ refusals' = refusals /\ received' = received
      /\ raw' = IF stage <= 3 THEN raw ELSE Append(raw, IntegerRead)
  BY DEF Advance
<1>3. PICK text \in Seq(Byte), replies \in Seq(Answer) : Stream(text, replies) /\ Awaited(stage, clean \o text)
  BY <1>1 DEF Expecting
<1>a. Keys \in Nat
  BY TelnetAssumption
<1>4. stage \in Nat \ {0} /\ stage \in 1 .. 3 + Keys /\ stage + 1 \in 1 .. 4 + Keys /\ stage + 1 \in Nat \ {0}
  <2>1. stage \in 1 .. 3 + Keys
    BY <1>1 DEF Reached
  <2>. QED
    BY <1>a, <2>1
<1>5. /\ LeftOver(text) /\ (stage <= 3 => text = <<>>)
      /\ stage > 3 => IntegerRead = Value(stage - 3)
  BY <1>1, <1>2, <1>3, <1>4, Answered
<1>6. /\ raw' \in Seq(Seq(Byte)) /\ OwnInteger'
      /\ stage + 1 > 3 => Len(raw') = stage + 1 - 4
      /\ stage + 1 <= 3 => raw' = <<>>
  <2>1. raw \in Seq(Seq(Byte))
    BY <1>1 DEF TelnetType
  <2>2. CASE stage <= 3
    <3>1. raw' = raw /\ raw = <<>>
      BY <1>1, <1>2, <2>2 DEF Reached
    <3>2. stage + 1 > 3 => stage + 1 - 4 = 0
      BY <1>4, <2>2
    <3>3. Len(<<>>) = 0
      OBVIOUS
    <3>. QED
      BY <1>1, <2>1, <3>1, <3>2, <3>3 DEF OwnInteger
  <2>3. CASE stage > 3
    <3>. DEFINE value == Value(stage - 3)
                k == Len(raw)
    <3>1. ~(stage <= 3) /\ k = stage - 4 /\ k \in Nat /\ k + 1 = stage - 3 /\ k + 1 = stage + 1 - 4 /\ ~(stage + 1 <= 3)
      BY <1>1, <1>4, <2>3 DEF Reached
    <3>2. value \in Seq(Byte)
      <4>1. value \in Seq(Digits)
        BY <1>4, <2>3, KeyResponse
      <4>2. Digits \subseteq Byte
        BY DEF Byte
      <4>. QED
        BY <4>1, <4>2, SeqMonotonic
    <3>3. raw' = Append(raw, value)
      BY <1>2, <1>5, <2>3, <3>1
    <3>. HIDE DEF value
    <3>4. /\ raw' \in Seq(Seq(Byte)) /\ Len(raw') = k + 1 /\ raw'[k + 1] = value
          /\ \A i \in 1 .. k : raw'[i] = raw[i]
      BY <2>1, <3>2, <3>3, AppendProperties
    <3>5. value = Value(k + 1)
      BY <3>1 DEF value
    <3>. HIDE DEF k
    <3>6. OwnInteger'
      <4>1. \A i \in 1 .. k : raw[i] = Value(i)
        BY <1>1, <2>1 DEF OwnInteger, k
      <4>2. \A i \in 1 .. k + 1 : i \in 1 .. k \/ i = k + 1
        BY <3>1
      <4>3. \A i \in 1 .. k + 1 : raw'[i] = Value(i)
        BY <3>4, <3>5, <4>1, <4>2, Zenon
      <4>4. DOMAIN raw' = 1 .. k + 1
        BY <3>4
      <4>. QED
        BY <4>3, <4>4, Zenon DEF OwnInteger
    <3>. QED
      BY <3>1, <3>4, <3>6
  <2>. QED
    BY <1>4, <2>2, <2>3
<1>7. CASE stage = 3 + Keys /\ session' = "closed" /\ UNCHANGED <<incoming, deviceVars>>
  <2>1. TelnetType'
    <3>1. <<>> \in Seq(Byte) /\ session' \in {"none", "open", "closed"}
      BY <1>7
    <3>. QED
      BY <1>1, <1>2, <1>4, <1>6, <1>7, <3>1 DEF TelnetType, deviceVars
  <2>2. (\E r \in Seq(Answer) : demands = refusals \o r)'
    BY <1>2, <1>7 DEF TelnetInv, deviceVars
  <2>. QED
    BY <1>6, <1>7, <2>1, <2>2 DEF TelnetInv
<1>8. CASE stage # 3 + Keys /\ DeviceSends(stage + 1) /\ UNCHANGED <<session, result>>
  <2>1. stage + 1 <= 4 => text = <<>>
    BY <1>4, <1>5
  <2>. DEFINE s == stage + 1
  <2>2. /\ s \in Nat \ {0} /\ DeviceSends(s) /\ stage' = s /\ (s <= 4 => text = <<>>)
    BY <1>2, <1>4, <1>8, <2>1
  <2>. HIDE DEF s
  <2>3. UNCHANGED <<filter, refusals>>
    BY <1>2
  <2>4. /\ incoming' \in Seq(Byte) /\ demands' \in Seq(Answer) /\ Len(incoming') \in Nat
        /\ Expecting' /\ (\E r \in Seq(Answer) : demands = refusals \o r)'
    BY <1>1, <1>2, <1>3, <1>5, <2>2, <2>3, Asked
  <2>5. TelnetType'
    <3>1. 0 \in 0 .. Len(incoming')
      BY <2>4
    <3>2. <<>> \in Seq(Byte)
      OBVIOUS
    <3>. QED
      BY <1>1, <1>2, <1>4, <1>6, <1>8, <2>4, <3>1, <3>2 DEF TelnetType
  <2>6. Reached'
    <3>. DEFINE s1 == stage + 1
    <3>1. s1 \in 1 .. 3 + Keys
      BY <1>4, <1>8, <1>a
    <3>2. stage' = s1
      BY <1>2
    <3>3. s1 > 3 => Len(raw') = s1 - 4
      <4>1. stage + 1 > 3 => Len(raw') = stage + 1 - 4
        BY <1>6, Zenon
      <4>2. stage \in Nat
        BY <1>4
      <4>. QED
        BY <4>1, <4>2
    <3>4. s1 <= 3 => raw' = <<>>
      BY <1>6, Zenon
    <3>. HIDE DEF s1
    <3>. QED
      BY <3>1, <3>2, <3>3, <3>4 DEF Reached
  <2>7. session' = "open"
    BY <1>8 DEF Advance
  <2>. QED
    BY <1>6, <2>4, <2>5, <2>6, <2>7 DEF TelnetInv
<1>. QED
  BY <1>7, <1>8 DEF Advance, End

LEMMA FirstPart ==
  ASSUME NEW s \in Seq(Answer), NEW t \in Seq(Answer)
  PROVE  SubSeq(s \o t, 1, Len(s)) = s
<1>. DEFINE w == s \o t
            m == Len(s)
            u == SubSeq(w, 1, m)
<1>1. m \in Nat /\ 1 \in Int /\ m \in Int
  OBVIOUS
<1>2. w \in Seq(Answer) /\ \A i \in 1 .. m : w[i] = s[i]
  BY ConcatProperties
<1>3. \A i \in 1 .. m : w[i] \in Answer
  BY <1>2, ElementOfSeq
<1>. HIDE DEF w, m
<1>4. /\ u \in Seq(Answer) /\ Len(u) = IF 1 <= m THEN m - 1 + 1 ELSE 0
      /\ \A i \in 1 .. m - 1 + 1 : u[i] = w[1 + i - 1]
  BY <1>1, <1>3, SubSeqProperties
<1>. HIDE DEF u
<1>5. Len(u) = m
  BY <1>1, <1>4
<1>6. \A i \in 1 .. m : i \in 1 .. m - 1 + 1 /\ 1 + i - 1 = i
  BY <1>1
<1>7. \A i \in 1 .. m : u[i] = s[i]
  BY <1>2, <1>4, <1>6
<1>8. u = s
  BY <1>4, <1>5, <1>7, SeqEqual DEF m
<1>. QED
  BY <1>8 DEF u, w, m

LEMMA TelnetStep == TelnetInv /\ [TelnetNext]_telnetVars => TelnetInv'
  BY OpenKeeps, RecvKeeps, ConsumeKeeps, EndKeeps, AdvanceKeeps DEF TelnetNext

LEMMA TelnetInvariant == TelnetSpec => []TelnetInv
<1>. QED
  BY TelnetStart, TelnetStep, PTL DEF TelnetSpec

(* Every value that is read is the whole integer the device printed for that *)
(* key, wherever recv cuts the stream and whatever negotiation lies in it    *)
(* (device_evidence/telnet.py, read_until_integer).                          *)
THEOREM EveryIntegerIsOwn == TelnetSpec => []OwnInteger
<1>1. TelnetInv => OwnInteger
  BY DEF TelnetInv
<1>. QED
  BY <1>1, TelnetInvariant, PTL

(* Every option the device offers or asks for is refused once and in order,  *)
(* and the replies are complete when the stream is (_consume).               *)
THEOREM EveryOptionIsRefused == TelnetSpec => []OptionsRefused
<1>1. TelnetInv => OptionsRefused
  <2>. SUFFICES ASSUME TelnetInv PROVE OptionsRefused
    OBVIOUS
  <2>1. TelnetType /\ refusals \in Seq(Answer) /\ demands \in Seq(Answer)
    BY DEF TelnetInv, TelnetType
  <2>2. IsPrefix(refusals, demands)
    <3>1. PICK r \in Seq(Answer) : demands = refusals \o r
      BY DEF TelnetInv
    <3>2. Len(demands) = Len(refusals) + Len(r) /\ Len(refusals) <= Len(demands)
      BY <2>1, <3>1, ConcatProperties
    <3>3. SubSeq(demands, 1, Len(refusals)) = refusals
      BY <2>1, <3>1, FirstPart
    <3>4. SubSeq(refusals, 1, Len(refusals)) = refusals
      BY <2>1, SubSeqFull
    <3>. QED
      BY <3>2, <3>3, <3>4 DEF IsPrefix
  <2>3. session = "open" /\ incoming = <<>> => refusals = demands
    <3>. SUFFICES ASSUME session = "open", incoming = <<>> PROVE refusals = demands
      OBVIOUS
    <3>1. PICK text \in Seq(Byte), replies \in Seq(Answer) : Stream(text, replies)
      BY DEF TelnetInv, Expecting
    <3>2. replies = <<>>
      BY <3>1, RunEmpty DEF Stream
    <3>. QED
      BY <2>1, <3>1, <3>2, Nothing DEF Stream
  <2>. QED
    BY <2>2, <2>3 DEF OptionsRefused
<1>. QED
  BY <1>1, TelnetInvariant, PTL
=============================================================================
