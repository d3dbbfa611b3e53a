------------------------------ MODULE CtTelnet ------------------------------
(***************************************************************************)
(* TelnetCtConfigurationReader.read: one telnet session that logs in and   *)
(* reads the CT keys. The device's bytes arrive in chunks cut anywhere,    *)
(* with telnet negotiation anywhere between and inside its words; the      *)
(* filter of _TelnetSocket must leave the text and refuse every option.    *)
(*                                                                         *)
(* A byte is a telnet code, a digit, an end of line, an option or the text *)
(* "x"; a prompt the reader looks for is one byte, because the reader      *)
(* searches all the text it has.                                           *)
(***************************************************************************)
EXTENDS Integers, Sequences, SequencesExt

CONSTANTS
  Keys,      \* number of CT keys; the code has five
  MaxExtra   \* bound on the negotiations a device sends

ASSUME TelnetAssumption == Keys \in 1..5 /\ MaxExtra \in Nat

VARIABLES
  session,   \* "none", "open", "closed"
  stage,     \* responses awaited so far: login, password, AUTH, then the keys
  filter,    \* _subnegotiation, _pending_negotiation and _pending_iac in one
  clean,     \* _clean
  refusals,  \* negotiation replies sent
  raw,       \* values read
  result,    \* "none", "OBSERVED", or the state of the error raised
  incoming,  \* bytes of the device that _consume has not taken
  received,  \* how many of them recv has returned: the rest of a chunk
  demands,   \* the refusals that what the device has sent calls for
  extra      \* negotiations sent so far

filterVars == <<filter, clean, refusals>>
deviceVars == <<demands, extra>>
telnetVars == <<session, stage, filterVars, raw, result, incoming, received, deviceVars>>

Digits == {"3", "7"}
Markers(s) ==
  CASE s = 1 -> {"login:"} [] s = 2 -> {"password:"} [] s = 3 -> {"$ ", "login:", "incorrect"}

TelnetInit ==
  /\ session = "none" /\ stage = 1
  /\ filter = "text" /\ clean = <<>> /\ refusals = <<>>
  /\ raw = <<>> /\ result = "none"
  /\ incoming = <<>> /\ received = 0 /\ demands = <<>> /\ extra = 0

-----------------------------------------------------------------------------
(* _consume: what a byte does to the filter, the text and the replies *)
Negotiations == {"WILL", "WONT", "DO", "DONT"}

(* Variant: a negotiation cut by the end of a chunk is forgotten. *)
CutForgotten(command) == "text"

(* The option of a command comes with a later chunk. *)
Cut(command) == command

After(f, byte) ==
  CASE f = "text" -> IF byte = "IAC" THEN "IAC" ELSE "text"
    [] f = "IAC" -> IF byte \in Negotiations THEN Cut(byte) ELSE IF byte = "SB" THEN "sub" ELSE "text"
    [] f = "sub" -> IF byte = "IAC" THEN "sub IAC" ELSE "sub"
    [] f = "sub IAC" -> IF byte = "SE" THEN "text" ELSE "sub"
    [] OTHER -> "text"

Text(f, byte) ==
  IF f = "text" /\ byte # "IAC" THEN <<byte>>
  ELSE IF f = "IAC" /\ byte = "IAC" THEN <<"x">> ELSE <<>>

Reply(f, byte) ==
  CASE f = "WILL" -> << <<"DONT", byte>> >>
    [] f = "DO" -> << <<"WONT", byte>> >>
    [] OTHER -> <<>>

Take(n) == incoming' = SubSeq(incoming, n + 1, Len(incoming)) /\ received' = received - n

(* A command whose option is in the same chunk is answered on the spot. *)
OptionHere == filter = "IAC" /\ incoming[1] \in Negotiations /\ received > 1

(* The reply that the next step of _consume sends *)
Due == IF OptionHere THEN Reply(incoming[1], incoming[2]) ELSE Reply(filter, incoming[1])

ConsumeCommand == OptionHere /\ filter' = "text" /\ UNCHANGED clean /\ Take(2)

ConsumeByte ==
  /\ ~OptionHere
  /\ filter' = After(filter, incoming[1])
  /\ clean' = clean \o Text(filter, incoming[1])
  /\ Take(1)

(* extract_integer_if_present: the first line that is an integer, once its
   end has arrived *)
LineStart(i) == i = 1 \/ clean[i - 1] = "eol"

(* Variant: the end of the line is not awaited. *)
LineEndsEarly(i) == {j \in i .. Len(clean) : ToSet(SubSeq(clean, i, j)) \subseteq Digits}

LineEnds(i) ==
  {j \in i .. Len(clean) - 1 : ToSet(SubSeq(clean, i, j)) \subseteq Digits /\ clean[j + 1] = "eol"}

IntegerLines(i) == IF LineStart(i) THEN LineEnds(i) ELSE {}

Complete ==
  IF stage <= 3 THEN \E marker \in Markers(stage) : Contains(clean, marker)
                ELSE \E i \in 1 .. Len(clean) : IntegerLines(i) # {}

IntegerRead ==
  LET first == Min({i \in 1 .. Len(clean) : IntegerLines(i) # {}}) IN
    SubSeq(clean, first, Max(IntegerLines(first)))

-----------------------------------------------------------------------------
(* What the device sends when it is connected, and after each line: prompts,
   a redraw of the command and a line with the value, and negotiation at one
   place of it. *)
Value(k) == IF k % 2 = 1 THEN <<"3", "7">> ELSE <<"7">>

Response(s) ==
  CASE s = 1 -> {<<"x", "login:">>}
    [] s = 2 -> {<<"password:">>}
    [] s = 3 -> {<<"eol", "$ ">>, <<"incorrect", "eol", "login:">>}
    [] OTHER -> {<<"$ ", "x", "eol">> \o Value(s - 3) \o <<"eol", "$ ">>}

Offers == {<<"IAC", "WILL", "opt">>, <<"IAC", "DO", "opt">>, <<"IAC", "WONT", "opt">>,
           <<"IAC", "SB", "opt", "IAC", "IAC", "x", "IAC", "SE">>}
Refusal(offer) == Reply(offer[2], offer[3])

DeviceSends(s) ==
  \E text \in Response(s) :
    \/ /\ incoming' = incoming \o text
       /\ UNCHANGED <<demands, extra>>
    \/ /\ extra < MaxExtra /\ extra' = extra + 1
       /\ \E offer \in Offers, i \in 0 .. Len(text) :
            /\ incoming' = incoming \o SubSeq(text, 1, i) \o offer \o SubSeq(text, i + 1, Len(text))
            /\ demands' = demands \o Refusal(offer)

-----------------------------------------------------------------------------
Open ==
  /\ session = "none"
  /\ \/ session' = "open" /\ DeviceSends(1) /\ UNCHANGED result
     \/ session' = "closed" /\ result' = "TELNET_UNAVAILABLE" /\ UNCHANGED <<incoming, deviceVars>>
  /\ UNCHANGED <<stage, filterVars, raw, received>>

(* _recv_and_consume: recv returns some of what has arrived. *)
Recv ==
  /\ session = "open" /\ received = 0 /\ ~Complete
  /\ received' \in 1 .. Len(incoming)
  /\ UNCHANGED <<session, stage, filterVars, raw, result, incoming, deviceVars>>

Consume ==
  /\ session = "open" /\ received > 0
  /\ ConsumeCommand \/ ConsumeByte
  /\ refusals' = refusals \o Due
  /\ UNCHANGED <<session, stage, raw, result, deviceVars>>

End(state) == session' = "closed" /\ result' = state

(* Silence until the time limit, a lost connection, or a reply that cannot be
   sent *)
ReadFails ==
  /\ session = "open"
  /\ IF received = 0 THEN ~Complete ELSE Due # <<>>
  /\ End("READ_ERROR")
  /\ UNCHANGED <<stage, filterVars, raw, incoming, received, deviceVars>>

(* A response is complete: the buffer is cleared and the next line sent. *)
Rejected == stage = 3 /\ (Contains(clean, "incorrect") \/ Contains(clean, "login:"))

Advance ==
  /\ session = "open" /\ received = 0 /\ Complete /\ ~Rejected
  /\ clean' = <<>>
  /\ stage' = stage + 1
  /\ raw' = IF stage <= 3 THEN raw ELSE Append(raw, IntegerRead)
  /\ IF stage = 3 + Keys THEN End("OBSERVED") /\ UNCHANGED <<incoming, deviceVars>>
                         ELSE DeviceSends(stage + 1) /\ UNCHANGED <<session, result>>
  /\ UNCHANGED <<filter, refusals, received>>

LoginRejected ==
  /\ session = "open" /\ received = 0 /\ Rejected
  /\ End("AUTH_FAILED") /\ clean' = <<>>
  /\ UNCHANGED <<stage, filter, refusals, raw, incoming, received, deviceVars>>

TelnetNext == Open \/ Recv \/ Consume \/ ReadFails \/ Advance \/ LoginRejected

TelnetSpec == TelnetInit /\ [][TelnetNext]_telnetVars

-----------------------------------------------------------------------------
(* A value that is read is the whole integer the device printed for that key,
   however its bytes were cut and whatever negotiation lay between them:
   never part of a number, and never the number of the key before
   (read_until_integer). *)
OwnInteger == \A k \in DOMAIN raw : raw[k] = Value(k)

(* Every option the device offers or asks for is refused once, in order, also
   when the bytes of the request arrive apart (_consume). *)
OptionsRefused ==
  /\ IsPrefix(refusals, demands)
  /\ session = "open" /\ incoming = <<>> => refusals = demands
=============================================================================
