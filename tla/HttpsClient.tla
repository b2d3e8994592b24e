---------------------------- MODULE HttpsClient ----------------------------
(***************************************************************************)
(* One HTTPS client, client_impl and session<false, Body> of               *)
(* include/ssl.hpp: invoke connects, the handshake follows, and from then  *)
(* on the application's handlers decide: a request that was written is     *)
(* followed by a read, whose response is given to on_message.  All         *)
(* completion handlers run on the connection's strand and are one action   *)
(* each.  invoke is called before the pool is started, as the examples do. *)
(***************************************************************************)
EXTENDS Naturals, Sequences

(* What a handler may do with the session, and how it is meant to be used: *)
(* it writes one request or reads, not both, and do_close comes last.      *)
Script == [then : {"none", "write", "read"}, close : BOOLEAN]

CONSTANTS
  OnHandshakeDoes, \* the scripts of on_handshake
  OnMessageDoes,   \* the scripts of on_message
  MaxRequests      \* bound: requests made on one connection

ASSUME ScriptsAssumption ==
  /\ OnHandshakeDoes \subseteq Script /\ OnMessageDoes \subseteq Script
  /\ OnHandshakeDoes # {} /\ OnMessageDoes # {}
ASSUME RequestsBoundAssumption == MaxRequests \in Nat

VARIABLES
  phase,    \* of client_impl: "new", "connecting", "connected", "stopped"
  session,  \* the session, see Session
  tls,      \* the stream: "up" after the handshake, "failed" for good
  sent,     \* requests the server has received
  answered, \* responses on_message has seen
  wanted    \* history: the last handler that ran wrote or read

vars == <<phase, session, tls, sent, answered, wanted>>

(* A request is its number.  msg_p_ is the one the session keeps alive,    *)
(* writing those of the writes outstanding, which borrow their message.    *)
Session ==
  [handshake : BOOLEAN, msg_p : Nat, made : Nat, writing : Seq(Nat),
   handshakes : Nat, reads : Nat, shutdowns : Nat]

TypeOK ==
  /\ phase \in {"new", "connecting", "connected", "stopped"}
  /\ session \in Session
  /\ tls \in {"new", "handshaking", "up", "failed"}
  /\ sent \in Nat /\ answered \in Nat
  /\ wanted \in BOOLEAN

Init ==
  /\ phase = "new"
  /\ session = [handshake |-> FALSE, msg_p |-> 0, made |-> 0, writing |-> <<>>,
                handshakes |-> 0, reads |-> 0, shutdowns |-> 0]
  /\ tls = "new"
  /\ sent = 0 /\ answered = 0
  /\ wanted = FALSE
-----------------------------------------------------------------------------
DoHandshake(s) == IF s.handshake THEN s ELSE [s EXCEPT !.handshakes = @ + 1]

DoRead(s) == IF s.handshake THEN [s EXCEPT !.reads = @ + 1] ELSE s

DoWrite(s) ==
  IF ~s.handshake THEN s
  ELSE [s EXCEPT !.made    = @ + 1,
                 !.msg_p   = s.made + 1,
                 !.writing = Append(@, s.made + 1)]

DoClose(s) == [s EXCEPT !.shutdowns = @ + 1]

(* A user handler running a script.                                        *)
UserHandler(s, script) ==
  LET t == CASE script.then = "write" -> DoWrite(s)
             [] script.then = "read"  -> DoRead(s)
             [] OTHER                 -> s
  IN  IF script.close THEN DoClose(t) ELSE t

Calling(s, script) ==
  /\ session' = UserHandler(s, script)
  /\ wanted' = (script.then # "none")
-----------------------------------------------------------------------------
(* client_impl::process: the host may not resolve, which stops the pool.   *)
Invoke ==
  /\ phase = "new"
  /\ phase' \in {"connecting", "stopped"}
  /\ UNCHANGED <<session, tls, sent, answered, wanted>>

(* The connection is made, and on_connect calls do_handshake; or it is     *)
(* not, which stops the pool too.                                          *)
OnConnect ==
  /\ phase = "connecting"
  /\ \/ /\ phase' = "connected"
        /\ session' = DoHandshake(session)
        /\ tls' = "handshaking"
     \/ /\ phase' = "connected"  \* no on_connect is set: the session is dropped
        /\ UNCHANGED <<session, tls>>
     \/ /\ phase' = "stopped"
        /\ UNCHANGED <<session, tls>>
  /\ UNCHANGED <<sent, answered, wanted>>

OnHandshake ==
  /\ session.handshakes > 0
  /\ LET s == [session EXCEPT !.handshakes = @ - 1]
     IN  \/ /\ tls = "handshaking"
            /\ tls' = "up"
            /\ \E script \in OnHandshakeDoes : Calling([s EXCEPT !.handshake = TRUE], script)
         \/ /\ tls' = "failed"
            /\ session' = s
            /\ UNCHANGED wanted
  /\ UNCHANGED <<phase, sent, answered>>

(* An operation may fail once the stream failed or is being shut down.     *)
MayFail == tls = "failed" \/ session.shutdowns > 0

(* The write that ends is the one that was started first.                  *)
WriteEnded == [session EXCEPT !.writing = Tail(@)]

(* Mutant: on_write does not read.                                          *)
OnWriteNoRead ==
  /\ session.writing # <<>>
  /\ session' = WriteEnded
  /\ sent' = IF tls = "up" THEN sent + 1 ELSE sent
  /\ UNCHANGED <<phase, tls, answered, wanted>>

OnWrite ==
  /\ session.writing # <<>>
  /\ \/ /\ tls = "up"
        /\ session' = DoRead(WriteEnded)
        /\ sent' = sent + 1
     \/ /\ MayFail
        /\ session' = WriteEnded
        /\ UNCHANGED sent
  /\ UNCHANGED <<phase, tls, answered, wanted>>

(* Mutant: a read that failed is tried again.                               *)
OnReadRetries ==
  /\ session.reads > 0
  /\ \/ /\ tls = "up"
        /\ answered < sent /\ session.made < MaxRequests
        /\ answered' = answered + 1
        /\ \E script \in OnMessageDoes : Calling([session EXCEPT !.reads = @ - 1], script)
        /\ UNCHANGED tls
     \/ /\ tls' = "failed"
        /\ UNCHANGED <<session, answered, wanted>>
  /\ UNCHANGED <<phase, sent>>

(* The server answers the requests it has received, one by one, or ends    *)
(* the stream, or sends nothing for ever; a stream that failed, or whose   *)
(* end was read, is of no more use.                                        *)
OnRead ==
  /\ session.reads > 0
  /\ LET s == [session EXCEPT !.reads = @ - 1]
     IN  \/ /\ tls = "up"
            /\ answered < sent /\ session.made < MaxRequests
            /\ answered' = answered + 1
            /\ \E script \in OnMessageDoes : Calling(s, script)
            /\ UNCHANGED tls
         \/ /\ tls' = "failed"
            /\ session' = s
            /\ UNCHANGED <<answered, wanted>>
  /\ UNCHANGED <<phase, sent>>

(* on_shutdown; eof counts as success, and the stream is of no more use.   *)
OnShutdown ==
  /\ session.shutdowns > 0
  /\ session' = [session EXCEPT !.shutdowns = @ - 1]
  /\ tls' = "failed"
  /\ UNCHANGED <<phase, sent, answered, wanted>>

NetworkFails ==
  /\ tls \in {"handshaking", "up"}
  /\ tls' = "failed"
  /\ UNCHANGED <<phase, session, sent, answered, wanted>>

Reads  == session.reads
Writes == Len(session.writing)

(* Only outstanding operations hold the session.                           *)
Released ==
  phase = "connected" /\ session.handshakes + Reads + Writes + session.shutdowns = 0

Ended == (Released \/ phase = "stopped") /\ UNCHANGED vars

Next ==
  \/ Invoke \/ OnConnect \/ OnHandshake \/ OnWrite \/ OnRead \/ OnShutdown
  \/ NetworkFails \/ Ended

Spec == Init /\ [][Next]_vars

(* On a failed stream every operation is answered.                         *)
Fairness ==
  /\ WF_vars(tls = "failed" /\ OnHandshake) /\ WF_vars(tls = "failed" /\ OnRead)
  /\ WF_vars(tls = "failed" /\ OnWrite)     /\ WF_vars(tls = "failed" /\ OnShutdown)

LiveSpec == Spec /\ Fairness
-----------------------------------------------------------------------------
(* A write borrows the request it sends, async_write takes *sp; msg_p_,    *)
(* which do_write sets, has to keep that very request alive.               *)
MessageAlive ==
  \A i \in DOMAIN session.writing : session.writing[i] = session.msg_p

(* One exchange at a time: res_ and buffer_ belong to one read, and the    *)
(* response a handler gets is the answer to the last request made.         *)
OneExchange ==
  /\ Reads + Writes <= 1
  /\ sent <= answered + 1
  /\ Writes > 0 => sent = answered

(* A session whose last handler wrote or read goes on, until the stream    *)
(* ends or it closes itself; one whose handler did neither is done.        *)
GoesOnAsWanted ==
  tls = "up" /\ session.handshake =>
    IF wanted THEN session.shutdowns = 0 => Reads + Writes = 1
              ELSE Reads + Writes = 0

(* Flags and operations go together; with it the invariant is inductive.   *)
StagesInv ==
  /\ ~session.handshake => /\ Reads = 0 /\ Writes = 0 /\ session.shutdowns = 0
                           /\ sent = 0 /\ answered = 0
                           /\ tls # "up"
  /\ session.handshake => session.handshakes = 0 /\ tls \in {"up", "failed"}
  /\ session.handshakes <= 1
  /\ phase # "connected" => session.handshakes = 0 /\ tls = "new"
  /\ Reads > 0 \/ Writes > 0 => wanted

ExchangeInv == TypeOK /\ MessageAlive /\ OneExchange /\ GoesOnAsWanted /\ StagesInv

(* A broken session is destroyed in the end.                               *)
BrokenIsReleased == tls = "failed" ~> Released
=============================================================================
