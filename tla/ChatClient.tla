----------------------------- MODULE ChatClient -----------------------------
(***************************************************************************)
(* The chat client of examples/ex4_chat_client: one client session         *)
(* (ClientSessionOps), the session pointer its on_message sets, and the    *)
(* console thread that waits for that pointer on a condition variable and  *)
(* then writes the lines typed into the session's output buffer.           *)
(*                                                                         *)
(* Three threads meet: the strand, on_handshake beside it (see             *)
(* ClientSession), and the console thread, which is no thread of the pool. *)
(* The console thread never releases main_mutex but in the wait, and       *)
(* on_message never takes it, so the mutex itself excludes nothing.        *)
(***************************************************************************)
EXTENDS ClientSessionOps

CONSTANTS
  Threads,   \* threads running the io_context, processor::start(Threads)
  MaxWrites, \* bound: writes of the session outstanding
  MaxOutput  \* bound: lines in the output buffer of a stream that is gone

ASSUME ClientBoundsAssumption ==
  Threads \in Nat \ {0} /\ MaxWrites \in Nat \ {0} /\ MaxOutput \in Nat \ {0}

VARIABLES
  session,      \* the session
  my_session_p, \* the pointer to it is set
  handshake_pc, \* on_handshake: "idle", or "called" after the user's handler
  strand_pc,    \* on_message: "idle", or "greeted" before notify_one
  console,      \* the console thread, see Console
  asked,        \* the server has asked for the name
  named         \* the answer to that is written

vars == <<session, my_session_p, handshake_pc, strand_pc, console, asked, named>>

(* "tested": the pointer was null and the wait comes next; "typing": a     *)
(* line is being read; "typed": it is in the output buffer.                *)
Console == {"start", "tested", "waiting", "typing", "typed"}

TypeOK ==
  /\ session \in Session
  /\ my_session_p \in BOOLEAN
  /\ handshake_pc \in {"idle", "called"}
  /\ strand_pc \in {"idle", "greeted"}
  /\ console \in Console
  /\ asked \in BOOLEAN /\ named \in BOOLEAN

Init ==
  /\ session = NewSession
  /\ my_session_p = FALSE
  /\ handshake_pc = "idle"
  /\ strand_pc = "idle"
  /\ console = "start"
  /\ asked = FALSE /\ named = FALSE

Reads  == session.ops["read"]
Writes == session.ops["write"]

ReadOn == [Nothing EXCEPT !.read = TRUE]
Reply  == [Nothing EXCEPT !.out = TRUE]

(* A pool thread for one more handler; the strand runs one at a time.      *)
Busy == (IF handshake_pc = "idle" THEN 0 ELSE 1) + (IF strand_pc = "idle" THEN 0 ELSE 1)

ThreadFree == Busy < Threads

StrandRuns == strand_pc = "idle" /\ ThreadFree
-----------------------------------------------------------------------------
(* The session.  on_connect calls do_handshake.                            *)
OnConnect ==
  /\ session.status = "http"
  /\ session' = DoHandshake(session)
  /\ UNCHANGED <<my_session_p, handshake_pc, strand_pc, console, asked, named>>

(* on_handshake of the program reads.                                      *)
OnHandshake ==
  /\ handshake_pc = "idle" /\ ThreadFree
  /\ Outstanding(session, "handshake")
  /\ \/ /\ "ok" \in Answers(session, "handshake")
        /\ session' = Handshaked(Answer(session, "handshake", "ok"), ReadOn)
        /\ handshake_pc' = "called"
     \/ /\ session' = Answer(session, "handshake", "fail")
        /\ UNCHANGED handshake_pc
  /\ UNCHANGED <<my_session_p, strand_pc, console, asked, named>>

HandshakeEnd ==
  /\ handshake_pc = "called"
  /\ session' = WriteIfAny(session, TRUE)
  /\ handshake_pc' = "idle"
  /\ UNCHANGED <<my_session_p, strand_pc, console, asked, named>>

Completes(k, ec) ==
  /\ StrandRuns
  /\ Outstanding(session, k)
  /\ ec \in Answers(session, k)

(* The server's question: the name is read from the console and answered.  *)
OnQuestion ==
  /\ Completes("read", "ok")
  /\ Writes < MaxWrites
  /\ ~asked
  /\ asked' = TRUE
  /\ session' = Received(Answer(session, "read", "ok"), "text", Reply)
  /\ UNCHANGED <<my_session_p, handshake_pc, strand_pc, console, named>>

(* The server's greeting: the pointer is set, without the mutex ...        *)
OnHello ==
  /\ Completes("read", "ok")
  /\ named /\ ~my_session_p
  /\ session' = [Answer(session, "read", "ok") EXCEPT !.readable = TRUE, !.got = "text"]
  /\ my_session_p' = TRUE
  /\ strand_pc' = "greeted"
  /\ UNCHANGED <<handshake_pc, console, asked, named>>

(* Mutant: nobody is notified.                                             *)
HelloEndSilent ==
  /\ strand_pc = "greeted"
  /\ strand_pc' = "idle"
  /\ session' = Received(session, "text", ReadOn)
  /\ UNCHANGED <<my_session_p, handshake_pc, console, asked, named>>

(* Mutant: on_message returns without do_read, as it does for the question. *)
HelloEndReturns ==
  /\ strand_pc = "greeted"
  /\ strand_pc' = "idle"
  /\ console' = IF console = "waiting" THEN "typing" ELSE console
  /\ session' = Received(session, "text", Nothing)
  /\ UNCHANGED <<my_session_p, handshake_pc, asked, named>>

(* ... then notify_one wakes the console thread if it waits, the history   *)
(* is displayed, and the rest of on_message and on_read follows.           *)
HelloEnd ==
  /\ strand_pc = "greeted"
  /\ strand_pc' = "idle"
  /\ console' = IF console = "waiting" THEN "typing" ELSE console
  /\ session' = Received(session, "text", ReadOn)
  /\ UNCHANGED <<my_session_p, handshake_pc, asked, named>>

(* Any other message is displayed or ignored.                              *)
OnChat ==
  /\ Completes("read", "ok")
  /\ Writes < MaxWrites
  /\ named /\ my_session_p
  /\ session' = Received(Answer(session, "read", "ok"), "text", ReadOn)
  /\ UNCHANGED <<my_session_p, handshake_pc, strand_pc, console, asked, named>>

OnReadFails ==
  /\ \E ec \in {"closed", "fail"} :
       Completes("read", ec) /\ session' = Answer(session, "read", ec)
  /\ UNCHANGED <<my_session_p, handshake_pc, strand_pc, console, asked, named>>

OnWrite ==
  /\ \/ /\ Completes("write", "ok")
        /\ session' = Written(AnswerWrite(session, "ok"), Head(session.next_reads))
        /\ named' = asked
     \/ /\ Completes("write", "fail")
        /\ session' = AnswerWrite(session, "fail")
        /\ UNCHANGED named
  /\ UNCHANGED <<my_session_p, handshake_pc, strand_pc, console, asked>>

(* The peer's close frame, or a connection that breaks.                    *)
StreamEnds ==
  /\ session.status \in {"handshaking", "open"}
  /\ \E status \in {"failed"} \cup (IF Reads > 0 THEN {"closed"} ELSE {}) :
       session' = [session EXCEPT !.status = status]
  /\ UNCHANGED <<my_session_p, handshake_pc, strand_pc, console, asked, named>>
-----------------------------------------------------------------------------
(* The console thread.                                                     *)
ConsoleTests ==
  /\ console = "start"
  /\ console' = IF my_session_p THEN "typing" ELSE "tested"
  /\ UNCHANGED <<session, my_session_p, handshake_pc, strand_pc, asked, named>>

ConsoleWaits ==
  /\ console = "tested"
  /\ console' = "waiting"
  /\ UNCHANGED <<session, my_session_p, handshake_pc, strand_pc, asked, named>>

(* A line is typed and put into the output buffer, then do_write.          *)
ConsoleTypes ==
  /\ console = "typing"
  /\ Writes < MaxWrites /\ session.output < MaxOutput
  /\ console' = "typed"
  /\ session' = Append1(session, TRUE)
  /\ UNCHANGED <<my_session_p, handshake_pc, strand_pc, asked, named>>

(* Mutant: the console thread leaves its line to a session that reads.     *)
ConsoleWritesInTurn ==
  /\ console = "typed"
  /\ console' = "typing"
  /\ session' = IF Reads > 0 THEN session ELSE DoWrite(session, TRUE)
  /\ UNCHANGED <<my_session_p, handshake_pc, strand_pc, asked, named>>

ConsoleWrites ==
  /\ console = "typed"
  /\ console' = "typing"
  /\ session' = DoWrite(session, TRUE)
  /\ UNCHANGED <<my_session_p, handshake_pc, strand_pc, asked, named>>

(* What the program comes to when the stream is gone and the console       *)
(* thread waits, for a line or for ever.                                   *)
Ended ==
  /\ session.status \in {"closed", "failed"}
  /\ NothingOutstanding(session)
  /\ UNCHANGED vars

Next ==
  \/ OnConnect \/ OnHandshake \/ HandshakeEnd
  \/ OnQuestion \/ OnHello \/ HelloEnd \/ OnChat \/ OnReadFails \/ OnWrite
  \/ StreamEnds
  \/ ConsoleTests \/ ConsoleWaits \/ ConsoleTypes \/ ConsoleWrites
  \/ Ended

Spec == Init /\ [][Next]_vars

(* Every thread goes on with what it has begun.  Nobody has to type, and   *)
(* the server need not answer.                                             *)
Fairness ==
  /\ WF_vars(HandshakeEnd) /\ WF_vars(HelloEnd)
  /\ WF_vars(ConsoleTests) /\ WF_vars(ConsoleWaits) /\ WF_vars(ConsoleWrites)

LiveSpec == Spec /\ Fairness
-----------------------------------------------------------------------------
(* Safety.                                                                 *)

(* "Repeated asynchronous reading is impossible!": the writes the console  *)
(* thread starts end in on_write on the strand, but never in a second read. *)
ReadsAreSingle == Reads <= 1

(* An open session always waits for something: whatever the console thread *)
(* and on_handshake do beside the strand, it does not fall silent.         *)
OpenGoesOn ==
  session.status = "open" /\ strand_pc = "idle" /\ handshake_pc = "idle"
    => Reads + Writes > 0

(* What is in the output buffer of an open session is in the hands of a    *)
(* write, or will be with the console thread's next step.                  *)
NothingLeft ==
  /\ session.status = "open" /\ session.output > 0
  /\ strand_pc = "idle" /\ handshake_pc = "idle" /\ console # "typed"
  => Writes > 0
-----------------------------------------------------------------------------
(* Liveness.                                                               *)

(* The console thread is at work once the pointer is set ("Launch thread   *)
(* for input console").                                                    *)
ConsoleStarts == my_session_p ~> console \in {"typing", "typed"}

(* The wakeup can be lost in one place only: between the console thread's  *)
(* look at the pointer and its wait.                                       *)
ConsoleStartsUnlessTested ==
  strand_pc = "greeted" /\ console # "tested" ~> console \in {"typing", "typed"}
=============================================================================
