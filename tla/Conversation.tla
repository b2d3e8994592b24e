---------------------------- MODULE Conversation ----------------------------
(***************************************************************************)
(* What a session promises of one connection: after the handshake it takes *)
(* turns with its peer, receiving one message or sending one, and goes on  *)
(* for as long as the connection is up.  Only a connection that is not up  *)
(* any more may end the conversation, and then for good.                   *)
(***************************************************************************)
CONSTANT
  MayLeave \* its handlers may take a message and leave: the connection is
           \* not up for them from then on
VARIABLES
  turn, \* "connecting", "sending", "receiving" or "over"
  up    \* the websocket is open, and this side has not left

vars == <<turn, up>>

TypeOK == turn \in {"connecting", "sending", "receiving", "over"} /\ up \in BOOLEAN

Init == turn = "connecting" /\ up = FALSE

(* It speaks, listens or leaves.                                           *)
GoOn ==
  \/ turn' \in {"sending", "receiving"}
  \/ MayLeave /\ turn' = "over" /\ ~up'

(* The handshake succeeds.                                                 *)
Open ==
  /\ turn = "connecting"
  /\ GoOn
  /\ up' \in BOOLEAN

(* A message was received: answer it or wait for the next one.             *)
Take ==
  /\ turn = "receiving"
  /\ GoOn
  /\ up' \in {up, FALSE}

(* A message was sent: it is the peer's turn.                              *)
Sent ==
  /\ turn = "sending"
  /\ turn' = "receiving"
  /\ UNCHANGED up

(* The websocket starts to close, or breaks.                               *)
GoDown == up' = FALSE /\ UNCHANGED turn

End ==
  /\ turn \in {"sending", "receiving"}
  /\ ~up
  /\ turn' = "over"
  /\ UNCHANGED up

Next == Open \/ Take \/ Sent \/ GoDown \/ End

Spec == Init /\ [][Next]_vars
=============================================================================
