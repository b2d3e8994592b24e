--------------------------- MODULE ClientSession ---------------------------
(***************************************************************************)
(* One websocket client, client_impl of include/client.hpp, and its        *)
(* session<false> (include/session.hpp), from invoke to the moment nothing *)
(* keeps the session alive.  Its completion handlers run on the connection's strand, except  *)
(* one: async_handshake (include/base.hpp) does not bind its handler, so   *)
(* on_handshake runs beside the strand.  It is two actions, the user's     *)
(* handler and the look at the output buffer that follows it.              *)
(***************************************************************************)
EXTENDS ClientSessionOps

CONSTANTS
  App,     \* what the application's handlers may do, see AppType
  Threads, \* threads running the io_context, processor::start(Threads)
  MaxOps   \* bound: outstanding operations of one kind

AppType == [handshake : SUBSET Script, message : SUBSET Script,
            ping : SUBSET Script, pong : SUBSET Script, close : SUBSET Script]

(* How the library is meant to be called: a handler does not both fill the *)
(* output buffer and call do_read, and the control frame handlers leave    *)
(* the output buffer alone.                                                *)
Disciplined ==
  /\ \A c \in App.handshake \cup App.message : ~(c.out /\ c.read)
  /\ \A c \in App.ping \cup App.pong \cup App.close : ~c.out

ASSUME AppAssumption == App \in AppType /\ Disciplined
ASSUME BoundsAssumption == Threads \in Nat \ {0} /\ MaxOps \in Nat \ {0}

VARIABLES
  connection,   \* connection_p_: "none", "connecting", "made", or "refused"
  session,      \* the session
  handshake_pc, \* on_handshake: "idle", or "called" after the user's handler
  next_read,    \* on_handshake's local variable of that name
  wanted        \* history: the last handler that ran wants a next message

vars == <<connection, session, handshake_pc, next_read, wanted>>

TypeOK ==
  /\ connection \in {"none", "connecting", "made", "refused"}
  /\ session \in Session
  /\ handshake_pc \in {"idle", "called"}
  /\ next_read \in BOOLEAN
  /\ wanted \in BOOLEAN

Init ==
  /\ connection = "none"
  /\ session = NewSession
  /\ handshake_pc = "idle"
  /\ next_read = TRUE
  /\ wanted = TRUE

(* A handler on the strand needs a thread that on_handshake does not hold. *)
StrandRuns == handshake_pc = "idle" \/ Threads > 1

Reads  == session.ops["read"]
Writes == session.ops["write"]

(* A handler that neither reads on nor answers, or answers without reading *)
(* on afterwards, ends the session.                                        *)
Wants(c) == c.read \/ (c.out /\ c.next_read)
-----------------------------------------------------------------------------
(* client_impl::process: the host may not resolve.                         *)
Invoke ==
  /\ connection = "none"
  /\ connection' \in {"connecting", "refused"}
  /\ UNCHANGED <<session, handshake_pc, next_read, wanted>>

(* The connection is made, and session<false>::on_connect calls the user's *)
(* on_connect, which calls do_handshake; without one the new session is    *)
(* dropped at once.  Or it is refused, and on_error is called.             *)
OnConnect ==
  /\ connection = "connecting"
  /\ \/ connection' = "made" /\ session' \in {session, DoHandshake(session)}
     \/ connection' = "refused" /\ UNCHANGED session
  /\ UNCHANGED <<handshake_pc, next_read, wanted>>

OnHandshake ==
  /\ UNCHANGED connection
  /\ handshake_pc = "idle"
  /\ Outstanding(session, "handshake")
  /\ \/ /\ "ok" \in Answers(session, "handshake")
        /\ \E c \in Handlers(App.handshake) :
             /\ session' = Handshaked(Answer(session, "handshake", "ok"), c)
             /\ next_read' = c.next_read
             /\ wanted' = Wants(c)
        /\ handshake_pc' = "called"
     \/ /\ session' = Answer(session, "handshake", "fail")
        /\ UNCHANGED <<handshake_pc, next_read, wanted>>

HandshakeEnd ==
  /\ handshake_pc = "called"
  /\ session' = WriteIfAny(session, next_read)
  /\ handshake_pc' = "idle"
  /\ UNCHANGED <<connection, next_read, wanted>>

(* The handler of operation k runs on the strand with answer ec.           *)
Completes(k, ec) ==
  /\ StrandRuns
  /\ Outstanding(session, k)
  /\ ec \in Answers(session, k)
  /\ UNCHANGED <<connection, handshake_pc, next_read>>

WithinBounds == \A k \in Kinds : session.ops[k] < MaxOps

(* Mutant: on_read takes every answer for a message.                       *)
OnReadIgnoresError ==
  \E ec \in {"ok", "closed", "fail"}, got \in Frames, c \in Handlers(App.message) :
    /\ Completes("read", ec)
    /\ WithinBounds
    /\ session' = Received(Answer(session, "read", ec), got, c)
    /\ wanted' = Wants(c)

OnRead ==
  \/ /\ Completes("read", "ok")
     /\ WithinBounds
     /\ \E got \in Frames, c \in Handlers(App.message) :
          /\ session' = Received(Answer(session, "read", "ok"), got, c)
          /\ wanted' = Wants(c)
  \/ \E ec \in {"closed", "fail"} :
       /\ Completes("read", ec)
       /\ session' = Answer(session, "read", ec)
       /\ UNCHANGED wanted

OnWrite ==
  /\ UNCHANGED wanted
  /\ \/ /\ Completes("write", "ok")
        /\ session' = Written(AnswerWrite(session, "ok"), Head(session.next_reads))
     \/ /\ Completes("write", "fail")
        /\ session' = AnswerWrite(session, "fail")

(* Mutant: on_ping, on_pong and on_close read on, as on_write does.        *)
OnSentReadsOn(k) == \E ec \in {"ok", "fail"} :
  Completes(k, ec) /\ session' = DoRead(Answer(session, k, ec)) /\ UNCHANGED wanted

(* on_ping, on_pong and on_close only look at the error.                   *)
OnSent(k) == \E ec \in {"ok", "fail"} :
  Completes(k, ec) /\ session' = Answer(session, k, ec) /\ UNCHANGED wanted

OnPing  == OnSent("ping")
OnPong  == OnSent("pong")
OnClose == OnSent("close")

(* The scripts of the user handler on_control_callback picks for a frame   *)
(* of this kind: the last branch does not ask for the kind.                *)
ControlHandler(kind) ==
  IF kind = "ping" /\ App.ping # {} THEN App.ping
  ELSE IF kind = "pong" /\ App.pong # {} THEN App.pong
  ELSE Handlers(App.close)

(* The peer's close frame ends the stream; the read is answered "closed".  *)
Heard(kind) ==
  [session EXCEPT !.status = IF kind = "close" THEN "closed" ELSE @]

OnControl(kind) ==
  /\ StrandRuns
  /\ Outstanding(session, "read")
  /\ session.status \in {"open", "closing"}
  /\ WithinBounds
  /\ \E c \in ControlHandler(kind) : session' = UserHandler(Heard(kind), c)
  /\ UNCHANGED <<connection, handshake_pc, next_read, wanted>>

(* The network or the peer breaks the connection.                          *)
NetworkFails ==
  /\ session.status \in {"handshaking", "open", "closing"}
  /\ session' = [session EXCEPT !.status = "failed"]
  /\ UNCHANGED <<connection, handshake_pc, next_read, wanted>>

(* Only outstanding operations hold a session_ptr: without any, the        *)
(* session is destroyed.                                                   *)
Released ==
  \/ connection = "refused"
  \/ /\ connection = "made"
     /\ NothingOutstanding(session)
     /\ handshake_pc = "idle"

Ended == Released /\ UNCHANGED vars

Next ==
  \/ Invoke \/ OnConnect \/ OnHandshake \/ HandshakeEnd
  \/ OnRead \/ OnWrite \/ OnPing \/ OnPong \/ OnClose
  \/ \E kind \in {"ping", "pong", "close"} : OnControl(kind)
  \/ NetworkFails \/ Ended

Spec == Init /\ [][Next]_vars

(* The pool's threads keep running handlers that are ready.  Nothing is    *)
(* promised for the peer: an answer is certain only once the stream is     *)
(* closed or broken.                                                       *)
Broken == session.status \in {"closed", "failed"}

Fairness ==
  /\ WF_vars(HandshakeEnd)      /\ WF_vars(Broken /\ OnHandshake)
  /\ WF_vars(Broken /\ OnRead)  /\ WF_vars(Broken /\ OnWrite)
  /\ WF_vars(Broken /\ OnPing)  /\ WF_vars(Broken /\ OnPong)
  /\ WF_vars(Broken /\ OnClose)

LiveSpec == Spec /\ Fairness
-----------------------------------------------------------------------------
(* Safety.                                                                 *)

(* The stream never has two transfers outstanding: neither two reads       *)
(* ("Repeated asynchronous reading is impossible!") nor two writes, which  *)
(* would interleave their bytes.                                           *)
OneTransfer == Reads + Writes <= 1

(* on_write empties the whole output buffer: nothing may have been         *)
(* appended behind the write, and nothing is left in it without one.       *)
OutputIntact ==
  /\ Writes > 0 => session.sending.size = session.output /\ session.output > 0
  /\ session.status = "open" /\ Writes = 0 /\ handshake_pc = "idle"
       => session.output = 0

(* An open session goes on exactly as its last handler asked: it has one   *)
(* transfer outstanding if the handler wants a next message, and no read   *)
(* if it does not.                                                         *)
GoesOnAsWanted ==
  session.status = "open" /\ handshake_pc = "idle" =>
    IF wanted THEN Reads + Writes = 1 ELSE Reads = 0

(* With automatic frames an answer has the frame type of its question.     *)
AnswerHasItsFrame ==
  Writes > 0 /\ session.auto_frame /\ session.got # "none"
    => session.sending.frame = session.got

(* The inductive strengthening: how flags, operations and stream go        *)
(* together.                                                               *)
FlagsInv ==
  /\ ~session.handshaked =>
       /\ Reads = 0 /\ Writes = 0 /\ session.output = 0 /\ session.readable
       /\ session.status \in {"http", "handshaking", "failed"}
       /\ handshake_pc = "idle"
  /\ session.handshaked =>
       /\ session.ops["handshake"] = 0
       /\ session.status \in {"open", "closing", "closed", "failed"}
  /\ session.ops["handshake"] <= 1
  /\ session.status = "http" => session.ops["handshake"] = 0
  /\ session.readable => Reads = 0
  /\ Writes > 0 => session.readable
  /\ Reads > 0 => session.output = 0
  /\ Len(session.next_reads) = Writes
  /\ Writes > 0 => (Head(session.next_reads) <=> wanted)
  /\ Reads > 0 => wanted
  /\ handshake_pc = "called" =>
       /\ Writes = 0
       /\ wanted <=> (Reads = 1 \/ (session.output > 0 /\ next_read))
  /\ session.handshaked /\ session.status = "open" => session.readable \/ Reads = 1

TransferInv == OneTransfer /\ OutputIntact /\ GoesOnAsWanted /\ FlagsInv

(* The session takes turns with its peer as Conversation promises, for as  *)
(* long as its handlers want a next message: from the end of on_handshake  *)
(* on it reads, answers and reads again, and once it does neither it never *)
(* starts again, whatever control frames are still to be answered.         *)
Turn ==
  IF ~session.handshaked \/ handshake_pc = "called" THEN "connecting"
  ELSE IF Writes > 0 THEN "sending"
  ELSE IF Reads > 0 THEN "receiving" ELSE "over"

GoingOn == session.status = "open" /\ wanted /\ handshake_pc = "idle"

Talk == INSTANCE Conversation WITH MayLeave <- TRUE, turn <- Turn, up <- GoingOn

TakesTurns == Talk!Spec
-----------------------------------------------------------------------------
(* Liveness.                                                               *)

(* A session whose stream is gone is destroyed in the end.                 *)
BrokenIsReleased == Broken ~> Released
=============================================================================
