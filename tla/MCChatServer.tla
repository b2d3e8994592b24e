---------------------------- MODULE MCChatServer ----------------------------
(***************************************************************************)
(* The clients ChatServer is checked with.                                 *)
(***************************************************************************)
EXTENDS ChatServer

CONSTANTS ann, bob

TwoClients == {ann, bob}

PlainNames == [c \in TwoClients |-> IF c = ann THEN <<"a">> ELSE <<"b", "o">>]

(* A name with what separates the fields of a message in it, and the empty *)
(* one of who just presses Enter.                                          *)
OddNames == [c \in TwoClients |-> IF c = ann THEN <<"a", ":">> ELSE <<>>]

(* A message with what separates the fields in it, one with nothing in it, *)
(* and two, the second with a negative length, which stands for a very     *)
(* large one.                                                              *)
Hi       == Message(<<"h", ":", "i">>, <<"a">>)
OneSaid  == Serialize(<<Hi>>)
Empty    == Serialize(<<Message(<<>>, <<"a">>)>>)
TwoSaid  == SerializeInv(2) \o SerializeMessage(Hi)
              \o <<"message", ":", "minus", "1", ":", "b", ":", "i">>

(* Two messages that end within the first one's payload.                   *)
CutShort == Substr(TwoSaid, 0, Len(SerializeInv(2) \o SerializeMessage(Hi)) - 1)

PlainInputs == {Empty, OneSaid}
OddInputs   == {Empty, TwoSaid, CutShort}

SomeSymbols ==
  Range(Digits) \cup {":", "message", "inv", "minus", "a", "b", "o", "h", "i"}
    \cup {"What is your name?", "Hello ", "Input to chat room!", "is leaving"}
=============================================================================
