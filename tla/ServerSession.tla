---------------------------- MODULE ServerSession ----------------------------
(***************************************************************************)
(* One server side websocket session, session<true> of                     *)
(* include/session.hpp, from upgrade_session (include/server.hpp) to the   *)
(* moment nothing keeps it alive.  Its completion handlers run on the      *)
(* connection's strand, one at a time, and are one action each.  The timer *)
(* is made from the socket's executor and not from that strand, so         *)
(* on_timer runs beside them, and beside other runs of itself: it is a     *)
(* step for the check of the deadline, one for what follows from it, and   *)
(* one for the launch_timer it ends with.                                  *)
(***************************************************************************)
EXTENDS ServerSessionOps

CONSTANTS
  App,       \* what the application's handlers may do, see AppType
  Threads,   \* threads running the io_context, processor::start(Threads)
  MaxTimers, \* bound: timer handlers alive at once
  MaxOps     \* bound: outstanding operations of one kind

AppType == [upgrade : SUBSET Launches, accept : SUBSET Script,
            message : SUBSET Script, ping : SUBSET Script,
            pong : SUBSET Script, close : SUBSET Script]

(* How the library is meant to be called: on_accept and on_message either  *)
(* fill the output buffer they are given or call do_read, not both, and    *)
(* the control frame handlers leave the output buffer alone.               *)
Disciplined ==
  /\ \A c \in App.accept \cup App.message : ~(c.out /\ c.read)
  /\ \A c \in App.ping \cup App.pong \cup App.close : ~c.out

ASSUME AppAssumption == App \in AppType /\ App.upgrade # {} /\ Disciplined
ASSUME BoundsAssumption ==
  Threads \in Nat \ {0} /\ MaxTimers \in Nat \ {0} /\ MaxOps \in Nat \ {0}

VARIABLES
  session,        \* the session
  timer_pc        \* how many runs of on_timer there are at each of TimerStages

vars == <<session, timer_pc>>

(* "expired": the check said so; "pinged": the callback has called do_ping *)
(* and will launch the next callback; "again": on_timer is about to wait   *)
(* again, because the deadline has moved or because it has closed.         *)
TimerStages == {"expired", "pinged", "again"}

TypeOK ==
  /\ session \in Session
  /\ timer_pc \in [TimerStages -> Nat]

Init ==
  /\ session = NewSession
  /\ timer_pc = [stage \in TimerStages |-> 0]

Running == timer_pc["expired"] + timer_pc["pinged"] + timer_pc["again"]

(* Another handler needs a thread that no run of on_timer holds.           *)
ThreadFree == Running < Threads

TimerHandlers == session.waits + session.due + Running

WithinBounds ==
  /\ TimerHandlers < MaxTimers
  /\ \A k \in Kinds : session.ops[k] < MaxOps
-----------------------------------------------------------------------------
(* server_impl::upgrade_session and session::make: on_done calls do_accept *)
(* with the upgrade request, and may launch the timer.                     *)
Upgrade ==
  /\ session.status = "http"
  /\ \E launch \in App.upgrade : session' = LaunchIf(DoAccept(session), launch)
  /\ UNCHANGED timer_pc

(* The handler of operation k runs with answer ec.                         *)
Completes(k, ec) ==
  /\ ThreadFree
  /\ Outstanding(session, k)
  /\ ec \in Answers(session, k)
  /\ UNCHANGED timer_pc

OnAccept ==
  \/ /\ Completes("handshake", "ok")
     /\ \E c \in Handlers(App.accept) :
          session' = Accepted(Answer(session, "handshake", "ok"), c)
  \/ /\ Completes("handshake", "fail")
     /\ session' = Answer(session, "handshake", "fail")

OnRead ==
  \/ /\ Completes("read", "ok")
     /\ WithinBounds
     /\ \E got \in Frames, c \in Handlers(App.message) :
          session' = Received(Answer(session, "read", "ok"), got, c)
  \/ \E ec \in {"closed", "fail"} :
       /\ Completes("read", ec)
       /\ session' = Answer(session, "read", ec)

OnWrite ==
  \/ /\ Completes("write", "ok")
     /\ session' = Written(Answer(session, "write", "ok"))
  \/ /\ Completes("write", "fail")
     /\ session' = Answer(session, "write", "fail")

(* on_ping, on_pong and on_close only look at the error.                   *)
OnPing == \E ec \in {"ok", "fail"} :
  Completes("ping", ec) /\ session' = Answer(session, "ping", ec)

OnPong == \E ec \in {"ok", "fail"} :
  Completes("pong", ec) /\ session' = Answer(session, "pong", ec)

OnClose == \E ec \in {"ok", "fail"} :
  Completes("close", ec) /\ session' = Answer(session, "close", ec)

(* The scripts of the user handler on_control_callback picks for a frame   *)
(* of this kind: the last branch does not ask for the kind.                *)
ControlHandler(kind) ==
  IF kind = "ping" /\ App.ping # {} THEN App.ping
  ELSE IF kind = "pong" /\ App.pong # {} THEN App.pong
  ELSE App.close

(* A control frame arrives while a read is outstanding.  The peer's close  *)
(* frame ends the stream; the read is then answered "closed".              *)
Heard(kind) ==
  [session EXCEPT !.status = IF kind = "close" THEN "closed" ELSE @,
            !.quiet  = @ /\ kind # "pong"]

OnControl(kind) ==
  /\ ThreadFree
  /\ Outstanding(session, "read")
  /\ session.status \in {"open", "closing"}
  /\ WithinBounds
  /\ \E c \in Handlers(ControlHandler(kind)) : session' = UserHandler(Heard(kind), c)
  /\ UNCHANGED timer_pc
-----------------------------------------------------------------------------
(* Mutant: on_timer does not wait again when the deadline has moved.       *)
TimerCheckGivesUp ==
  /\ ThreadFree
  /\ session.due > 0
  /\ session' = [session EXCEPT !.due = @ - 1]
  /\ timer_pc' = IF session.deadline = "expired"
                 THEN [timer_pc EXCEPT !["expired"] = @ + 1] ELSE timer_pc

(* on_timer: one released handler looks at the deadline.  The error it is  *)
(* given does not matter, a cancelled wait is looked at like an expired    *)
(* one; a steady_timer has no other error to give.                         *)
TimerCheck ==
  /\ ThreadFree
  /\ session.due > 0
  /\ session' = [session EXCEPT !.due = @ - 1]
  /\ LET stage == IF session.deadline = "expired" THEN "expired" ELSE "again"
     IN  timer_pc' = [timer_pc EXCEPT ![stage] = @ + 1]

(* Mutants: on_timer or its callback launches nothing after it has acted;  *)
(* or on_timer does not return after the callback that closes.             *)
TimerActReturns ==
  /\ timer_pc["expired"] > 0
  /\ session' = Expired(session)
  /\ timer_pc' = [timer_pc EXCEPT !["expired"] = @ - 1]

TimerActFallsThrough ==
  /\ timer_pc["expired"] > 0
  /\ session' = Expired(session)
  /\ LET stage == IF session.on_timer_cb = "ping" THEN "pinged" ELSE "again"
     IN  timer_pc' = [timer_pc EXCEPT !["expired"] = @ - 1, ![stage] = @ + 1]

(* ... it acts, on the callback that is set now, whatever the deadline is  *)
(* now: strand handlers may have run since the check.                      *)
TimerAct ==
  /\ timer_pc["expired"] > 0
  /\ session' = Expired(session)
  /\ timer_pc' =
       CASE session.on_timer_cb = "ping"  -> [timer_pc EXCEPT !["expired"] = @ - 1, !["pinged"] = @ + 1]
         [] session.on_timer_cb = "close" -> [timer_pc EXCEPT !["expired"] = @ - 1]
         [] OTHER                         -> [timer_pc EXCEPT !["expired"] = @ - 1, !["again"] = @ + 1]

(* Mutant: the callback that pings launches itself again.                  *)
PingedPingsAgain ==
  /\ timer_pc["pinged"] > 0
  /\ session' = LaunchTimerWith(session, "ping")
  /\ timer_pc' = [timer_pc EXCEPT !["pinged"] = @ - 1]

(* ... and launches the timer: the callback that pinged sets the one that  *)
(* closes, whatever was launched meanwhile; without a callback, or with a  *)
(* deadline that had moved, on_timer only waits again.                     *)
PingedLaunches ==
  /\ timer_pc["pinged"] > 0
  /\ session' = LaunchTimerWith(session, "close")
  /\ timer_pc' = [timer_pc EXCEPT !["pinged"] = @ - 1]

WaitsAgain ==
  /\ timer_pc["again"] > 0
  /\ session' = LaunchTimer(session)
  /\ timer_pc' = [timer_pc EXCEPT !["again"] = @ - 1]

(* Time: the deadline passes, which releases every wait.  MaxOps bounds    *)
(* the close operations that pile up while the peer does not answer.       *)
Tick ==
  /\ session.deadline = "armed"
  /\ session.ops["close"] < MaxOps
  /\ session' = [session EXCEPT !.deadline = "expired", !.due = @ + session.waits, !.waits = 0]
  /\ UNCHANGED timer_pc

(* The network or the peer breaks the connection.                          *)
NetworkFails ==
  /\ session.status \in {"handshaking", "open", "closing"}
  /\ session' = [session EXCEPT !.status = "failed"]
  /\ UNCHANGED timer_pc

(* Only outstanding operations and timer handlers hold a session_ptr of    *)
(* the library's: without any, the session is destroyed unless the         *)
(* application keeps one, as the list of clients of ex3 does for ever.     *)
LetGo ==
  /\ session.status # "http"
  /\ NothingOutstanding(session)
  /\ TimerHandlers = 0

Ended == LetGo /\ UNCHANGED vars

Next ==
  \/ Upgrade \/ OnAccept \/ OnRead \/ OnWrite
  \/ OnPing \/ OnPong \/ OnClose
  \/ \E kind \in {"ping", "pong", "close"} : OnControl(kind)
  \/ TimerCheck \/ TimerAct \/ PingedLaunches \/ WaitsAgain \/ Tick
  \/ NetworkFails \/ Ended

Spec == Init /\ [][Next]_vars

(* The threads of the pool keep running handlers that are ready and time   *)
(* passes.  Nothing is promised for the peer: an answer is certain only    *)
(* once the stream is closed or broken.                                    *)
Broken == session.status \in {"closed", "failed"}

Fairness ==
  /\ WF_vars(TimerCheck) /\ WF_vars(TimerAct)
  /\ WF_vars(PingedLaunches) /\ WF_vars(WaitsAgain) /\ WF_vars(Tick)
  /\ WF_vars(Broken /\ OnAccept) /\ WF_vars(Broken /\ OnRead)
  /\ WF_vars(Broken /\ OnWrite)  /\ WF_vars(Broken /\ OnPing)
  /\ WF_vars(Broken /\ OnPong)   /\ WF_vars(Broken /\ OnClose)

LiveSpec == Spec /\ Fairness
-----------------------------------------------------------------------------
(* Safety.                                                                 *)

Reads  == session.ops["read"]
Writes == session.ops["write"]

(* The stream is never asked for a second read or a second write while one *)
(* is outstanding ("Repeated asynchronous reading is impossible!"), and    *)
(* the two alternate.                                                      *)
OneTransfer == Reads + Writes <= 1

(* An open session is never left without anything outstanding: it would be *)
(* destroyed with its connection, or wait for ever.                        *)
NeverStalls == session.status = "open" => Reads + Writes = 1

(* on_write empties the whole output buffer: nothing may have been         *)
(* appended behind the write, and nothing is left in it without a write.   *)
OutputIntact ==
  /\ Writes > 0 => session.sending.size = session.output /\ session.output > 0
  /\ session.status = "open" /\ Writes = 0 => session.output = 0

(* With automatic frames an answer has the frame type of its question.     *)
AnswerHasItsFrame ==
  Writes > 0 /\ session.auto_frame /\ session.got # "none" => session.sending.frame = session.got

(* Once the chat server launched the timer of an open session, some        *)
(* handler of that timer is alive: a silent peer cannot be forgotten.      *)
KeepaliveArmed ==
  session.status = "open" /\ session.on_timer_cb # "none" => TimerHandlers > 0

(* "remote host is not answer. close...": the chat server's timer, which   *)
(* alone calls do_close there, closes a session only if neither a message  *)
(* nor a pong was heard since its last ping.                               *)
CloseOnlyIfQuiet ==
  [][session'.ops["close"] > session.ops["close"] => session.quiet]_vars

(* "Verify that the timer really expired since the deadline may have       *)
(* moved": when on_timer acts the deadline is expired.  This is not so     *)
(* (see the README): in MCServerSession_server.cfg TLC refutes it.         *)
ReallyExpired ==
  [][timer_pc'["expired"] < timer_pc["expired"] => session.deadline = "expired"]_vars

(* A session has one timer handler from the moment it launched its timer:  *)
(* with the default action it never stops and never doubles.               *)
OneTimerHandler ==
  session.status # "http" /\ App.upgrade = {"default"} => TimerHandlers = 1

(* The strengthening of OneTransfer, NeverStalls and OutputIntact that is  *)
(* inductive: how the flags, the operations and the stream go together.    *)
FlagsInv ==
  /\ ~session.accepted => /\ Reads = 0 /\ Writes = 0 /\ session.output = 0 /\ session.readable
                    /\ session.status \in {"http", "handshaking", "failed"}
  /\ session.accepted => /\ session.ops["handshake"] = 0
                   /\ session.status \in {"open", "closing", "closed", "failed"}
  /\ session.ops["handshake"] <= 1
  /\ session.status = "http" => session.ops["handshake"] = 0
  /\ session.readable => Reads = 0
  /\ Writes > 0 => session.readable
  /\ Reads > 0 => session.output = 0

TransferInv == OneTransfer /\ NeverStalls /\ OutputIntact /\ FlagsInv

(* The session takes turns with its peer as Conversation promises.         *)
Turn ==
  IF ~session.accepted THEN "connecting"
  ELSE IF Writes > 0 THEN "sending"
  ELSE IF Reads > 0 THEN "receiving" ELSE "over"

Talk == INSTANCE Conversation WITH
  MayLeave <- FALSE, turn <- Turn, up <- session.status = "open"

TakesTurns == Talk!Spec
-----------------------------------------------------------------------------
(* Liveness.                                                               *)

(* Whatever was under way when the stream of a chat server's session went, *)
(* the library lets go of the session in the end: each operation and each  *)
(* timer handler runs out.                                                 *)
BrokenIsLetGo == Broken ~> LetGo

(* A peer that stays silent after the ping is sent a close: no silence     *)
(* lasts on an open stream.  What becomes of that close is CloseTimesOut.  *)
SilenceStartsClose == session.quiet ~> ~session.quiet \/ session.status # "open"

(* The default timer acts on an expired deadline of an open session.       *)
ExpiryIsHandled ==
  session.status = "open" /\ session.deadline = "expired"
    ~> session.status # "open" \/ session.deadline # "expired"

(* "Happens when close times out": a websocket that was open and is being  *)
(* closed does not wait for its peer's close frame for ever.  This is not  *)
(* so (see the README): in MCServerSession_chat.cfg TLC refutes it.        *)
CloseTimesOut == session.status = "closing" ~> session.status # "closing"
=============================================================================
