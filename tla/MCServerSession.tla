-------------------------- MODULE MCServerSession --------------------------
(***************************************************************************)
(* The applications ServerSession is checked with.                         *)
(***************************************************************************)
EXTENDS ServerSession

Reply   == [Nothing EXCEPT !.out = TRUE]
ReadOn  == [Nothing EXCEPT !.read = TRUE]
Ping1   == [Nothing EXCEPT !.launch = "ping"]

(* The chat server of examples/ex3_chat_server: on_accept asks a question, *)
(* on_message answers or, for an invalid message, reads on, and launches   *)
(* the timer; so does on_pong.                                             *)
ChatApp ==
  [upgrade |-> {"no"},
   accept  |-> {Reply},
   message |-> {[Reply EXCEPT !.launch = "ping"], [ReadOn EXCEPT !.launch = "ping"]},
   ping    |-> {Nothing},
   pong    |-> {Ping1},
   close   |-> {Nothing}]

(* A server that launches the default timer when it upgrades, and whose    *)
(* handlers send control frames themselves.                                *)
WatchdogApp ==
  [upgrade |-> {"default"},
   accept  |-> {Nothing, Reply},
   message |-> {Nothing, Reply} \cup {[Nothing EXCEPT !.call = k] : k \in {"ping", "close"}},
   ping    |-> {[Nothing EXCEPT !.call = "pong"]},
   pong    |-> {Nothing},
   close   |-> {Nothing}]

(* The same, which like the echo server of examples/ex1_echo_server also   *)
(* reads on without an answer and, beyond it, chooses the frame it answers *)
(* with.                                                                   *)
EchoApp ==
  [WatchdogApp EXCEPT
     !.message = @ \cup {ReadOn} \cup {[Reply EXCEPT !.frame = m] : m \in FrameModes}]
=============================================================================
