----------------------------- MODULE ModbusLink -----------------------------
(***************************************************************************)
(* One connection of ReadOnlyModbusClient used by one worker: the blocks   *)
(* of a measurement cycle, then perhaps the probes of an evidence read,    *)
(* then the next cycle. The device answers in order, but it may answer     *)
(* twice, late, wrongly or not at all. What the other threads do to the    *)
(* socket is in Acquisition; here the frames on it are.                    *)
(*                                                                         *)
(* A request has a number that is never used again, for the properties,    *)
(* besides the transaction id the protocol carries.                        *)
(***************************************************************************)
EXTENDS Integers, Sequences

CONSTANTS
  Modulus,     \* transaction ids; the code masks with 0xFFFF
  MaxCycles,   \* bound on the cycles of the worker
  MaxFaults    \* bound on the misbehaviours of device and network

(* BLOCK_BASES with REGISTER_COUNT; the requests of an evidence read *)
Holding(start, count) == [function |-> 3, start |-> start, count |-> count]
Blocks == <<Holding(0, 16), Holding(100, 16), Holding(200, 16), Holding(300, 16)>>
Probes == <<Holding(40, 4), Holding(140, 4), Holding(240, 4), Holding(340, 4),
            [function |-> 2, start |-> 0, count |-> 3], Holding(1000, 2)>>

(* _validate_read_request *)
ValidRequest(q) ==
  /\ q.start \in 0..65535 /\ q.start + q.count - 1 <= 65535
  /\ q.count \in 1 .. IF q.function = 3 THEN 125 ELSE 2000

(* The program makes valid requests only, and an id comes back later than
   the longest run of reads that go on after a refused answer. *)
ASSUME LinkAssumption ==
  /\ \A i \in DOMAIN Blocks : ValidRequest(Blocks[i])
  /\ \A i \in DOMAIN Probes : ValidRequest(Probes[i])
  /\ Modulus \in Nat /\ Modulus > Len(Probes) + 1
  /\ MaxCycles \in Nat /\ MaxFaults \in Nat

VARIABLES
  open,          \* _socket is not None
  transaction,   \* _transaction_id
  owed,          \* requests of this connection the device may still answer
  wire,          \* frames sent by the device and not yet received
  phase,         \* "cycle", "boundary", "evidence" or "rest"
  position,      \* the position in the phase's requests
  aborted,       \* failed_transport_key is not None
  asked,         \* number of the request made at each position, 0 for none
  values,        \* number of the request whose answer became its value, 0 for None
  sent, cycles,  \* requests made, cycles begun
  faults, lost   \* misbehaviours so far, cycles that failed

linkState == <<open, transaction, owed, wire, phase, position, aborted, asked, values>>
linkVars == <<linkState, sent, cycles, faults, lost>>

Requests == IF phase = "evidence" THEN Probes ELSE Blocks
None == [i \in 1..Len(Probes) |-> 0]
Reading == phase \in {"cycle", "evidence"}
Waiting == Reading /\ asked[position] # 0

LinkInit ==
  /\ open = FALSE /\ transaction = 0
  /\ owed = <<>> /\ wire = <<>>
  /\ phase = "rest" /\ position = 1 /\ aborted = FALSE
  /\ asked = None /\ values = None
  /\ sent = 0 /\ cycles = 0 /\ faults = 0 /\ lost = 0

-----------------------------------------------------------------------------
(* parse_read_holding_response, parse_read_discrete_inputs_response, and the
   decoding of a block or of an energy flow. Every frame has the length its
   header gives, except one that gives less than 2. *)
ByteCount(q) == IF q.function = 3 THEN 2 * q.count ELSE (q.count + 7) \div 8

Decoded(q) == phase = "cycle" \/ q.count = 4   \* non-finite values are refused

(* Variant: the transaction id of the answer is not compared. *)
OutcomeAnyId(f) ==
  LET q == Requests[position] IN
  CASE f.defect = "length" -> "transport"
    [] f.defect \in {"header", "exception"} -> "protocol"
    [] f.to.function # q.function \/ f.to.bytes # ByteCount(q) -> "protocol"
    [] f.defect = "unused bits" /\ q.function = 2 -> "protocol"
    [] f.defect = "value" /\ Decoded(q) -> "decode"
    [] OTHER -> "ok"

Outcome(f) ==
  LET q == Requests[position] IN
  CASE f.defect = "length" -> "transport"
    [] f.to.transaction # transaction -> "protocol"
    [] f.defect \in {"header", "exception"} -> "protocol"
    [] f.to.function # q.function \/ f.to.bytes # ByteCount(q) -> "protocol"
    [] f.defect = "unused bits" /\ q.function = 2 -> "protocol"
    [] f.defect = "value" /\ Decoded(q) -> "decode"
    [] OTHER -> "ok"

-----------------------------------------------------------------------------
(* connect if there is no socket, then sendall *)
NextTransaction == (transaction + 1) % Modulus

SendRequest ==
  /\ Reading /\ ~Waiting /\ ~aborted
  /\ open' = TRUE
  /\ transaction' = NextTransaction
  /\ sent' = sent + 1
  /\ asked' = [asked EXCEPT ![position] = sent']
  /\ owed' = Append(owed, [id |-> sent', transaction |-> transaction',
                           function |-> Requests[position].function, bytes |-> ByteCount(Requests[position])])
  /\ UNCHANGED <<wire, phase, position, aborted, values, cycles, faults, lost>>

KeepSocket == UNCHANGED <<open, owed>> /\ wire' = Tail(wire)
Close == open' = FALSE /\ owed' = <<>> /\ wire' = <<>>

(* Variant: _read_block closes only after transport errors. *)
BlockEndsOpen(outcome, id) ==
  /\ phase = "cycle"
  /\ IF outcome = "ok"
     THEN /\ values' = [values EXCEPT ![position] = id]
          /\ IF position < Len(Blocks) THEN position' = position + 1 /\ UNCHANGED phase
                                       ELSE phase' = "boundary" /\ UNCHANGED position
          /\ KeepSocket /\ UNCHANGED lost
     ELSE /\ phase' = "boundary" /\ lost' = lost + 1
          /\ IF outcome = "transport" THEN Close ELSE KeepSocket
          /\ UNCHANGED <<position, values>>
  /\ UNCHANGED aborted

(* _read_block: every failure closes the client and ends the cycle. *)
BlockEnds(outcome, id) ==
  /\ phase = "cycle"
  /\ IF outcome = "ok"
     THEN /\ values' = [values EXCEPT ![position] = id]
          /\ IF position < Len(Blocks) THEN position' = position + 1 /\ UNCHANGED phase
                                       ELSE phase' = "boundary" /\ UNCHANGED position
          /\ KeepSocket /\ UNCHANGED lost
     ELSE /\ phase' = "boundary" /\ lost' = lost + 1
          /\ Close
          /\ UNCHANGED <<position, values>>
  /\ UNCHANGED aborted

NextProbe == IF position < Len(Probes) THEN position' = position + 1 /\ UNCHANGED phase
                                             ELSE phase' = "rest" /\ UNCHANGED position

(* _probe: only a transport error closes the client, and then read() does
   not attempt the probes that are left. *)
ProbeEnds(outcome, id) ==
  /\ phase = "evidence" /\ NextProbe
  /\ values' = [values EXCEPT ![position] = IF outcome = "ok" THEN id ELSE 0]
  /\ aborted' = (outcome = "transport")
  /\ IF aborted' THEN Close ELSE KeepSocket
  /\ UNCHANGED lost

Receive ==
  /\ Waiting /\ wire # <<>>
  /\ LET f == Head(wire) IN BlockEnds(Outcome(f), f.to.id) \/ ProbeEnds(Outcome(f), f.to.id)
  /\ UNCHANGED <<transaction, asked, sent, cycles, faults>>

(* The socket's time limit expires in the middle of an answer or without one,
   or the peer closes or resets the connection, with or without answers that
   have not been received. *)
TransportFails ==
  /\ Waiting /\ faults < MaxFaults
  /\ faults' = faults + 1
  /\ BlockEnds("transport", 0) \/ ProbeEnds("transport", 0)
  /\ UNCHANGED <<transaction, asked, sent, cycles>>

ConnectFails ==
  /\ Reading /\ ~Waiting /\ ~aborted /\ ~open /\ faults < MaxFaults
  /\ faults' = faults + 1
  /\ BlockEnds("transport", 0) \/ ProbeEnds("transport", 0)
  /\ UNCHANGED <<transaction, asked, sent, cycles>>

SkipProbe ==
  /\ phase = "evidence" /\ aborted /\ NextProbe
  /\ UNCHANGED <<open, transaction, owed, wire, aborted, asked, values, sent, cycles, faults, lost>>

(* run: the evidence that is pending at the boundary of two cycles *)
BeginEvidence ==
  /\ phase = "boundary"
  /\ phase' = "evidence" /\ position' = 1 /\ aborted' = FALSE
  /\ asked' = None /\ values' = None
  /\ UNCHANGED <<open, transaction, owed, wire, sent, cycles, faults, lost>>

BeginCycle ==
  /\ phase \in {"boundary", "rest"} /\ cycles < MaxCycles
  /\ cycles' = cycles + 1
  /\ phase' = "cycle" /\ position' = 1 /\ aborted' = FALSE
  /\ asked' = None /\ values' = None
  /\ UNCHANGED <<open, transaction, owed, wire, sent, faults, lost>>

-----------------------------------------------------------------------------
(* The device answers the oldest request; it may spoil the answer, and it may
   keep the request to answer it again. *)
DeviceAnswers(defect, again) ==
  LET cost == (IF defect = "none" THEN 0 ELSE 1) + (IF again THEN 1 ELSE 0) IN
  /\ owed # <<>> /\ faults + cost <= MaxFaults
  /\ faults' = faults + cost
  /\ wire' = Append(wire, [to |-> Head(owed), defect |-> defect])
  /\ owed' = IF again THEN owed ELSE Tail(owed)
  /\ UNCHANGED <<open, transaction, phase, position, aborted, asked, values, sent, cycles, lost>>

Defects == {"none", "length", "header", "exception", "unused bits", "value"}

LinkNext ==
  \/ SendRequest \/ Receive \/ TransportFails \/ ConnectFails
  \/ SkipProbe \/ BeginEvidence \/ BeginCycle
  \/ \E defect \in Defects, again \in BOOLEAN : DeviceAnswers(defect, again)

LinkSpec == LinkInit /\ [][LinkNext]_linkVars

-----------------------------------------------------------------------------
(* A value, in a sample or in an evidence read, is the device's answer to the
   very request that was made for it: an answer that came late or twice is
   never taken for another register's, although an evidence read goes on
   reading from a stream that is out of step (_probe, the parsers). *)
RightAnswer == \A i \in DOMAIN values : values[i] # 0 => values[i] = asked[i]

(* A misbehaviour of the device or the network costs at most one cycle: no
   stale answer, and no socket that is half used, outlives the failure it
   caused (_read_block). *)
OneFaultOneCycle == lost <= faults
=============================================================================
