-------------------------- MODULE MCClientSession --------------------------
(***************************************************************************)
(* The applications ClientSession is checked with.                         *)
(***************************************************************************)
EXTENDS ClientSession

Reply  == [Nothing EXCEPT !.out = TRUE]
ReadOn == [Nothing EXCEPT !.read = TRUE]

(* The echo client of examples/ex2_echo_client: both handlers send a line, *)
(* which may be empty; no control frame handlers.  One that wants no       *)
(* answer sets next_read to false.                                         *)
EchoApp ==
  [handshake |-> {Nothing, Reply, [Reply EXCEPT !.next_read = FALSE]},
   message   |-> {Nothing} \cup
                 {[Reply EXCEPT !.next_read = b, !.frame = m] :
                    b \in BOOLEAN, m \in FrameModes},
   ping |-> {}, pong |-> {}, close |-> {}]

(* The chat client of examples/ex4_chat_client without its console thread: *)
(* on_handshake reads, on_message answers the question or reads on.        *)
ChatApp ==
  [handshake |-> {ReadOn}, message |-> {Reply, ReadOn},
   ping |-> {}, pong |-> {}, close |-> {}]

(* The echo client with handlers that also read on by themselves and send  *)
(* control frames.                                                         *)
ControlApp ==
  [EchoApp EXCEPT
     !.message = @ \cup {ReadOn, [Reply EXCEPT !.call = "ping"], [ReadOn EXCEPT !.call = "close"]},
     !.ping    = {[Nothing EXCEPT !.call = "pong"]},
     !.pong    = {ReadOn},
     !.close   = {[Nothing EXCEPT !.call = "close"]}]
=============================================================================
