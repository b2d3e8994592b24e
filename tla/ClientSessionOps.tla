-------------------------- MODULE ClientSessionOps --------------------------
(***************************************************************************)
(* The operations of session<false> (include/session.hpp), each a function *)
(* from the session before the call to the session after it.  Unlike the   *)
(* server's session it has no timer, and each handler tells, in next_read, *)
(* whether on_write reads on once its message is written.                  *)
(***************************************************************************)
EXTENDS WsConnection, Sequences

FrameModes  == {"keep", "auto", "text", "binary"}
Calls       == {"none", "ping", "pong", "close"}

(* What a user handler may do: choose the frame type, append one chunk to  *)
(* the output buffer, call do_read, send a control frame, set next_read.   *)
Script  == [frame : FrameModes, out : BOOLEAN, read : BOOLEAN,
            call : Calls, next_read : BOOLEAN]
Nothing == [frame |-> "keep", out |-> FALSE, read |-> FALSE,
            call |-> "none", next_read |-> TRUE]

(* next_reads holds the value bound to each outstanding write's on_write.  *)
Session ==
  [handshaked : BOOLEAN, readable : BOOLEAN, auto_frame : BOOLEAN,
   output : Nat, next_reads : Seq(BOOLEAN),
   ops : [Kinds -> Nat], status : Statuses, frame : Frames,
   got : Frames \cup {"none"}, sending : [size : Nat, frame : Frames]]

NewSession ==
  [handshaked |-> FALSE, readable |-> TRUE, auto_frame |-> TRUE,
   output |-> 0, next_reads |-> <<>>,
   ops |-> NoOps, status |-> "http", frame |-> "text",
   got |-> "none", sending |-> NoSending]

-----------------------------------------------------------------------------

DoHandshake(s) == IF s.handshaked THEN s ELSE AsyncHandshake(s)

DoPing(s) == IF s.handshaked THEN AsyncPing(s) ELSE s

DoPong(s) == IF s.handshaked THEN AsyncPong(s) ELSE s

DoClose(s) == IF s.handshaked THEN AsyncClose(s) ELSE s

(* Mutant: do_read does not remember that a read is outstanding.           *)
DoReadKeepsReadable(s) ==
  IF s.handshaked /\ s.readable THEN AsyncRead(s) ELSE s

DoRead(s) ==
  IF s.handshaked /\ s.readable THEN AsyncRead([s EXCEPT !.readable = FALSE])
                                ELSE s

DoWrite(s, next_read) ==
  IF ~s.handshaked THEN s
  ELSE [AsyncWrite(s, s.output) EXCEPT !.next_reads = Append(@, next_read)]

SetFrame(s, mode) ==
  CASE mode = "keep" -> s
    [] mode = "auto" -> [s EXCEPT !.auto_frame = TRUE]
    [] OTHER         -> [s EXCEPT !.auto_frame = FALSE, !.frame = mode]

-----------------------------------------------------------------------------
(* A user handler running script c; an unset one does nothing.             *)

Append1(s, out) == [s EXCEPT !.output = IF out THEN @ + 1 ELSE @]

ReadIf(s, read) == IF read THEN DoRead(s) ELSE s

SendControl(s, call) ==
  CASE call = "ping"  -> DoPing(s)
    [] call = "pong"  -> DoPong(s)
    [] call = "close" -> DoClose(s)
    [] OTHER          -> s

UserHandler(s, c) ==
  SendControl(ReadIf(Append1(SetFrame(s, c.frame), c.out), c.read), c.call)

Handlers(scripts) == IF scripts = {} THEN {Nothing} ELSE scripts

-----------------------------------------------------------------------------
(* The completion handlers, for the answer "ok"; for any other answer they *)
(* return and change nothing.  on_handshake comes in two parts, the user's *)
(* handler and what follows it.                                            *)

WriteIfAny(s, next_read) == IF s.output > 0 THEN DoWrite(s, next_read) ELSE s

AutoFrame(s) == [s EXCEPT !.frame = IF s.auto_frame THEN s.got ELSE @]

(* Mutant: the frame is taken from a message that was never read.          *)
HandshakedAutoFrame(s, c) == AutoFrame(UserHandler([s EXCEPT !.handshaked = TRUE], c))

Handshaked(s, c) == UserHandler([s EXCEPT !.handshaked = TRUE], c)

(* Mutant: the frame is set after the answer was handed to the stream.     *)
ReceivedLateFrame(s, got, c) ==
  AutoFrame(WriteIfAny(
    UserHandler([s EXCEPT !.readable = TRUE, !.got = got], c), c.next_read))

Received(s, got, c) ==
  WriteIfAny(AutoFrame(
    UserHandler([s EXCEPT !.readable = TRUE, !.got = got], c)), c.next_read)

(* Mutant: on_write forgets next_read.                                     *)
WrittenReadsOn(s, next_read) == DoRead([s EXCEPT !.output = 0])

Written(s, next_read) ==
  LET consumed == [s EXCEPT !.output = 0]
  IN  IF next_read /\ s.readable THEN DoRead(consumed) ELSE consumed

(* The write that is answered first is the one started first.              *)
AnswerWrite(s, ec) == [Answer(s, "write", ec) EXCEPT !.next_reads = Tail(@)]
=============================================================================
