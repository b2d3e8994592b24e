---------------------------- MODULE ChatMessage ----------------------------
(***************************************************************************)
(* The text format of the chat programs, examples/chat_message.hpp: a      *)
(* message is "message:length:nickname:payload", and messages travel as    *)
(* "inv:count:" followed by that many of them.                             *)
(*                                                                         *)
(* A text is a sequence of symbols.  Every fixed word of the protocol is   *)
(* one symbol (so the code's prefix_length is 1 here), and so is every     *)
(* other byte; "blank", "plus" and "minus" are what their names say.       *)
(* Positions count from 0, as the code's do.                               *)
(***************************************************************************)
EXTENDS Naturals, Sequences, Functions

CONSTANTS
  Symbols, \* what the texts are made of
  Modulus  \* the numbers a uint32_t can hold, 2^32 in the code

Text == Seq(Symbols)

Digits == <<"0", "1", "2", "3", "4", "5", "6", "7", "8", "9">>

ASSUME SymbolsAssumption == {":", "message", "inv"} \cup Range(Digits) \subseteq Symbols
ASSUME ModulusAssumption == Modulus \in Nat \ {0, 1}

IsDigit(c) == c \in Range(Digits)

Message(payload, nickname) == [payload |-> payload, nickname |-> nickname]

(* How many symbols stand in front of the first one Test holds for; all of *)
(* them if there is none, which is find's npos.                            *)
InFront(text, Test(_)) ==
  CHOOSE n \in 0 .. Len(text) :
    /\ n < Len(text) => Test(text[n + 1])
    /\ \A i \in 1 .. n : ~Test(text[i])

(* substr(pos), and substr(pos, n), which ends where the text does.        *)
From(text, pos) == SubSeq(text, pos + 1, Len(text))

Substr(text, pos, n) ==
  SubSeq(text, pos + 1, IF pos + n < Len(text) THEN pos + n ELSE Len(text))

(* find_first_of(':').                                                     *)
FindColon(text) == InFront(text, LAMBDA c : c = ":")

(* std::to_string, and the digits in front as a number, 0 if there are     *)
(* none.                                                                   *)
Decimal[n \in Nat] ==
  IF n < 10 THEN <<Digits[n + 1]>>
            ELSE Append(Decimal[n \div 10], Digits[(n % 10) + 1])

Value(c) == (CHOOSE i \in DOMAIN Digits : Digits[i] = c) - 1

NumberInFront(text) ==
  LET digits == InFront(text, LAMBDA c : ~IsDigit(c))
      value[n \in 0 .. digits] == IF n = 0 THEN 0 ELSE 10 * value[n - 1] + Value(text[n])
  IN  value[digits]

(* static_cast<uint32_t>(std::atoi(...)): blanks in front are skipped, a   *)
(* sign may follow, and the number wraps around.  (What atoi makes of a    *)
(* number no int holds is left open by the language; this is what the      *)
(* usual libraries do as long as a long holds it.)                         *)
Atoi(text) ==
  LET rest  == From(text, InFront(text, LAMBDA c : c # "blank"))
      sign  == Substr(rest, 0, 1)
      value == NumberInFront(IF sign \in {<<"plus">>, <<"minus">>} THEN From(rest, 1) ELSE rest) % Modulus
  IN  IF sign = <<"minus">> THEN (Modulus - value) % Modulus ELSE value
-----------------------------------------------------------------------------
(* Message::serialize, Inv::serialize and Serializer::advance.             *)

SerializeMessage(m) ==
  <<"message", ":">> \o Decimal[Len(m.payload)] \o <<":">>
    \o m.nickname \o <<":">> \o m.payload

SerializeInv(count) == <<"inv", ":">> \o Decimal[count] \o <<":">>

Serialize(messages) ==
  LET out[n \in 0 .. Len(messages)] ==
        IF n = 0 THEN SerializeInv(Len(messages)) ELSE out[n - 1] \o SerializeMessage(messages[n])
  IN  out[Len(messages)]

-----------------------------------------------------------------------------
(* Message::parse and Inv::parse begin alike, with a prefix and a number,  *)
(* which must not be 0.  "used" is the code's read_bytes.                  *)
NotParsed == [ok |-> FALSE, number |-> 0, used |-> 0]

HeaderOf(prefix, in, body, end) ==
  LET number == Atoi(Substr(body, 0, end))
  IN  IF \/ Len(in) < 2 \/ Substr(in, 0, 2) # <<prefix, ":">>
         \/ end = Len(body) \/ number = 0
      THEN NotParsed
      ELSE [ok |-> TRUE, number |-> number, used |-> 2 + end + 1]

ParseHeader(prefix, in) ==
  LET body == From(in, 2) IN HeaderOf(prefix, in, body, FindColon(body))

(* Mutant: the colon behind the nickname is not counted.                   *)
MessageOfForgetsColon(head, rest, end) ==
  [ok      |-> head.ok /\ end # Len(rest),
   message |-> Message(Substr(rest, end + 1, head.number), Substr(rest, 0, end)),
   used    |-> head.used + end + head.number]

(* The nickname and the payload behind a header.  The payload is cut at    *)
(* the end of the text, but it is read_bytes longer by all of its          *)
(* announced length.                                                       *)
MessageOf(head, rest, end) ==
  [ok      |-> head.ok /\ end # Len(rest),
   message |-> Message(Substr(rest, end + 1, head.number), Substr(rest, 0, end)),
   used    |-> head.used + end + 1 + head.number]

ParseMessage(in) ==
  LET head == ParseHeader("message", in)
      rest == From(in, head.used)
  IN  MessageOf(head, rest, FindColon(rest))

(* Parser::advance.  "throws": in.substr(used_bytes) beyond the end of the *)
(* text is a std::out_of_range.                                            *)
Take(in, p, m) ==
  CASE p.outcome # "ok" -> p
    [] p.used > Len(in) -> [p EXCEPT !.outcome = "throws"]
    [] OTHER -> IF m.ok THEN [p EXCEPT !.messages = Append(@, m.message),
                                       !.used     = @ + m.used]
                        ELSE [p EXCEPT !.outcome = "invalid"]

Advance(in, p) == Take(in, p, ParseMessage(From(in, p.used)))

ParseBehind(in, inv) ==
  LET none == [outcome |-> "ok", messages |-> <<>>, used |-> inv.used]
      parsed[count \in 0 .. inv.number] ==
        IF count = 0 THEN none ELSE Advance(in, parsed[count - 1])
  IN  IF inv.ok THEN parsed[inv.number] ELSE [none EXCEPT !.outcome = "invalid"]

Parse(in) == ParseBehind(in, ParseHeader("inv", in))
=============================================================================
