------------------------- MODULE HttpsClientProofs -------------------------
(***************************************************************************)
(* The HTTPS client makes its exchanges one at a time, whatever scripts    *)
(* its handlers run: ExchangeInv is inductive.                             *)
(***************************************************************************)
EXTENDS HttpsClient, SequenceTheorems, TLAPS

(* What a write adds to a session that writes nothing.                     *)
LEMMA OneWriting ==
  ASSUME NEW m \in Nat
  PROVE  /\ Append(<<>>, m) \in Seq(Nat)
         /\ Len(Append(<<>>, m)) = 1
         /\ \A i \in DOMAIN Append(<<>>, m) : Append(<<>>, m)[i] = m
<1>1. Append(<<>>, m) = <<m>>
  OBVIOUS
<1>. QED
  BY <1>1

(* A handler run on a session that has nothing under way leaves it with    *)
(* one transfer if its script reads or writes, and with none if not.       *)
LEMMA HandlerRuns ==
  ASSUME NEW s \in Session, s.handshake, s.reads = 0, s.writing = <<>>,
         NEW script \in Script, NEW t, t = UserHandler(s, script)
  PROVE  /\ t \in Session
         /\ t.handshake /\ t.handshakes = s.handshakes
         /\ \A i \in DOMAIN t.writing : t.writing[i] = t.msg_p
         /\ t.reads + Len(t.writing) = IF script.then = "none" THEN 0 ELSE 1
<1>1. CASE script.then = "write"
  <2>. DEFINE m == s.made + 1
              w == Append(<<>>, m)
  <2>1. m \in Nat
    BY DEF Session
  <2>2. w \in Seq(Nat) /\ Len(w) = 1 /\ \A i \in DOMAIN w : w[i] = m
    BY <2>1, OneWriting
  <2>3. /\ t.writing = w /\ t.msg_p = m
        /\ t.handshake /\ t.handshakes = s.handshakes /\ t.reads = 0
    BY <1>1 DEF UserHandler, DoWrite, DoClose, Session
  <2>4. PICK n \in {s.shutdowns, s.shutdowns + 1} :
          t = [s EXCEPT !.made = m, !.msg_p = m, !.writing = w, !.shutdowns = n]
    BY <1>1 DEF UserHandler, DoWrite, DoClose, Session
  <2>. HIDE DEF m, w
  <2>5. n \in Nat
    BY <2>4 DEF Session
  <2>6. t \in Session
    BY <2>1, <2>2, <2>4, <2>5 DEF Session
  <2>. QED
    BY <1>1, <2>2, <2>3, <2>6
<1>2. CASE script.then # "write"
  <2>1. t.writing = <<>> /\ t \in Session /\ t.handshake /\ t.handshakes = s.handshakes
    BY <1>2 DEF UserHandler, DoRead, DoClose, Session, Script
  <2>2. t.reads = IF script.then = "none" THEN 0 ELSE 1
    BY <1>2 DEF UserHandler, DoRead, DoClose, Session, Script
  <2>. QED
    BY <1>2, <2>1, <2>2
<1>. QED
  BY <1>1, <1>2

(* A session in a transfer is in one transfer.                             *)
LEMMA WritesNothingElse ==
  ASSUME ExchangeInv, session.reads > 0
  PROVE  session.reads = 1 /\ session.writing = <<>>
<1>1. session.reads \in Nat /\ session.writing \in Seq(Nat)
  BY DEF ExchangeInv, TypeOK, Session
<1>2. Len(session.writing) \in Nat
  BY <1>1
<1>3. session.reads + Len(session.writing) <= 1
  BY DEF ExchangeInv, OneExchange, Reads, Writes
<1>4. session.reads = 1 /\ Len(session.writing) = 0
  BY <1>1, <1>2, <1>3
<1>. QED
  BY <1>1, <1>4, EmptySeq

LEMMA WritesOneOnly ==
  ASSUME ExchangeInv, session.writing # <<>>
  PROVE  session.reads = 0 /\ Len(session.writing) = 1 /\ Tail(session.writing) = <<>>
<1>1. session.reads \in Nat /\ session.writing \in Seq(Nat)
  BY DEF ExchangeInv, TypeOK, Session
<1>2. Len(session.writing) \in Nat /\ Len(session.writing) # 0
  BY <1>1, EmptySeq
<1>3. session.reads + Len(session.writing) <= 1
  BY DEF ExchangeInv, OneExchange, Reads, Writes
<1>4. session.reads = 0 /\ Len(session.writing) = 1
  <2>. DEFINE n == Len(session.writing)
  <2>1. n \in Nat /\ n # 0 /\ session.reads \in Nat /\ session.reads + n <= 1
    BY <1>1, <1>2, <1>3
  <2>. HIDE DEF n
  <2>2. session.reads = 0 /\ n = 1
    BY <2>1
  <2>. QED
    BY <2>2 DEF n
<1>5. Tail(session.writing) \in Seq(Nat) /\ Len(Tail(session.writing)) = 0
  BY <1>1, <1>2, <1>4, HeadTailProperties
<1>. QED
  BY <1>4, <1>5, EmptySeq

LEMMA ExchangeInit == Init => ExchangeInv
<1>. SUFFICES ASSUME Init PROVE ExchangeInv
  OBVIOUS
<1>1. <<>> \in Seq(Nat) /\ Len(<<>>) = 0 /\ DOMAIN <<>> = {}
  OBVIOUS
<1>2. /\ session.handshake = FALSE /\ session.writing = <<>> /\ session.reads = 0
      /\ session.handshakes = 0 /\ session.shutdowns = 0
  BY DEF Init
<1>3. TypeOK
  BY <1>1 DEF Init, TypeOK, Session
<1>. QED
  BY <1>1, <1>2, <1>3 DEF Init, ExchangeInv, MessageAlive, OneExchange,
     GoesOnAsWanted, StagesInv, Reads, Writes

(* A handler that ran last on an open stream leaves the invariant true.    *)
LEMMA HandlerTurn ==
  ASSUME NEW script \in Script, tls' = "up", phase' = "connected",
         session' \in Session, session'.handshake, session'.handshakes = 0,
         \A i \in DOMAIN session'.writing : session'.writing[i] = session'.msg_p,
         session'.reads + Len(session'.writing) = IF script.then = "none" THEN 0 ELSE 1,
         sent' \in Nat, answered' = sent', wanted' \in BOOLEAN, wanted' <=> script.then # "none"
  PROVE  ExchangeInv'
<1>. DEFINE n == Len(session'.writing)
            r == session'.reads
<1>1. n \in Nat /\ r \in Nat /\ r + n = IF script.then = "none" THEN 0 ELSE 1
  BY DEF Session
<1>. HIDE DEF n, r
<1>2. r + n <= 1 /\ (script.then # "none" => r + n = 1) /\ (script.then = "none" => r = 0 /\ n = 0)
  BY <1>1
<1>3. TypeOK'
  BY DEF TypeOK
<1>4. MessageAlive'
  BY DEF MessageAlive
<1>r. Reads' = r /\ Writes' = n
  BY DEF Reads, Writes, r, n
<1>5. OneExchange'
  <2>1. Reads' + Writes' <= 1
    BY <1>2, <1>r
  <2>2. \A a \in Nat : a <= a + 1
    OBVIOUS
  <2>3. sent' <= answered' + 1 /\ sent' = answered'
    BY <2>2, Zenon
  <2>. QED
    BY <2>1, <2>3, Zenon DEF OneExchange
<1>6. GoesOnAsWanted'
  BY <1>2, <1>r DEF GoesOnAsWanted
<1>7. StagesInv'
  BY <1>1, <1>2, <1>r DEF StagesInv
<1>. QED
  BY <1>3, <1>4, <1>5, <1>6, <1>7 DEF ExchangeInv

LEMMA ExchangeStep ==
  ASSUME ExchangeInv, [Next]_vars
  PROVE  ExchangeInv'
<1>. USE DEF ExchangeInv, Reads, Writes
<1>1. CASE UNCHANGED vars
  BY <1>1 DEF vars, TypeOK, MessageAlive, OneExchange, GoesOnAsWanted, StagesInv
<1>2. CASE Invoke
  BY <1>2 DEF Invoke, TypeOK, MessageAlive, OneExchange, GoesOnAsWanted, StagesInv
<1>3. CASE OnConnect
  <2>1. session.handshake = FALSE
    BY <1>3 DEF OnConnect, StagesInv, TypeOK, Session
  <2>2. CASE UNCHANGED session
    BY <1>3, <2>1, <2>2 DEF OnConnect, TypeOK, MessageAlive, OneExchange, GoesOnAsWanted, StagesInv
  <2>3. CASE /\ session' = [session EXCEPT !.handshakes = @ + 1]
             /\ phase' = "connected" /\ tls' = "handshaking"
    <3>1. /\ session' \in Session /\ session'.handshake = FALSE
          /\ session'.handshakes = 1 /\ session'.reads = session.reads
          /\ session'.writing = session.writing /\ session'.shutdowns = session.shutdowns
          /\ session'.msg_p = session.msg_p
      BY <1>3, <2>1, <2>3 DEF OnConnect, TypeOK, Session, StagesInv
    <3>. QED
      BY <1>3, <2>1, <2>3, <3>1 DEF OnConnect, TypeOK, MessageAlive, OneExchange,
         GoesOnAsWanted, StagesInv
  <2>. QED
    BY <1>3, <2>1, <2>2, <2>3 DEF OnConnect, DoHandshake
<1>4. CASE OnHandshake
  <2>1. /\ session \in Session /\ session.handshake = FALSE
        /\ session.reads = 0 /\ session.writing = <<>>
        /\ phase = "connected" /\ session.handshakes = 1
        /\ sent = 0 /\ answered = 0 /\ session.shutdowns = 0
    <3>1. session.handshakes \in Nat /\ session \in Session /\ session.handshakes > 0
      BY <1>4 DEF OnHandshake, TypeOK, Session
    <3>2. session.handshake = FALSE
      BY <3>1 DEF StagesInv, Session
    <3>3. session.writing \in Seq(Nat) /\ Len(session.writing) = 0
      BY <3>1, <3>2 DEF StagesInv, Session
    <3>. QED
      BY <3>1, <3>2, <3>3, EmptySeq DEF StagesInv
  <2>. DEFINE s == [session EXCEPT !.handshakes = @ - 1]
              h == [s EXCEPT !.handshake = TRUE]
  <2>2. /\ s \in Session /\ s.handshake = FALSE /\ s.handshakes = 0
        /\ s.reads = 0 /\ s.writing = <<>> /\ s.shutdowns = 0 /\ s.msg_p = session.msg_p
    BY <2>1 DEF Session
  <2>3. h \in Session /\ h.handshake /\ h.handshakes = 0 /\ h.reads = 0 /\ h.writing = <<>>
    <3>. HIDE DEF s
    <3>. QED
      BY <2>2 DEF Session
  <2>4. CASE session' = s /\ tls' = "failed" /\ UNCHANGED wanted
    <3>. HIDE DEF s
    <3>. QED
      BY <1>4, <2>1, <2>2, <2>4 DEF OnHandshake, TypeOK, MessageAlive, OneExchange,
         GoesOnAsWanted, StagesInv
  <2>5. ASSUME NEW script \in OnHandshakeDoes, Calling(h, script), tls' = "up"
        PROVE  ExchangeInv'
    <3>. HIDE DEF h
    <3>1. script \in Script
      BY ScriptsAssumption
    <3>2. /\ session' \in Session
          /\ session'.handshake /\ session'.handshakes = 0
          /\ \A i \in DOMAIN session'.writing : session'.writing[i] = session'.msg_p
          /\ session'.reads + Len(session'.writing) = IF script.then = "none" THEN 0 ELSE 1
      BY <2>3, <2>5, <3>1, HandlerRuns DEF Calling
    <3>3. phase' = "connected" /\ sent' \in Nat /\ answered' = sent'
      BY <1>4, <2>1 DEF OnHandshake
    <3>4. wanted' \in BOOLEAN /\ (wanted' <=> script.then # "none")
      BY <2>5 DEF Calling
    <3>. QED
      BY <2>5, <3>1, <3>2, <3>3, <3>4, HandlerTurn
  <2>. QED
    BY <1>4, <2>4, <2>5 DEF OnHandshake
<1>5. CASE OnWrite
  <2>1. /\ session \in Session /\ session.handshake /\ session.handshakes = 0
        /\ session.reads = 0 /\ Len(session.writing) = 1 /\ Tail(session.writing) = <<>>
        /\ wanted /\ phase = "connected" /\ sent = answered
    <3>1. session.reads = 0 /\ Len(session.writing) = 1 /\ Tail(session.writing) = <<>>
      BY <1>5, WritesOneOnly DEF OnWrite
    <3>2. Writes > 0
      BY <3>1
    <3>. QED
      BY <3>1, <3>2 DEF TypeOK, Session, OneExchange, StagesInv
  <2>. DEFINE s == WriteEnded
  <2>2. /\ s \in Session /\ s.handshake /\ s.handshakes = 0
        /\ s.reads = 0 /\ s.writing = <<>> /\ s.shutdowns = session.shutdowns
    BY <2>1, EmptySeq DEF WriteEnded, Session
  <2>3. CASE tls = "up" /\ session' = DoRead(s) /\ sent' = sent + 1
    <3>1. /\ session' \in Session /\ session'.handshake /\ session'.handshakes = 0
          /\ session'.reads = 1 /\ session'.writing = <<>>
      BY <2>2, <2>3 DEF DoRead, Session
    <3>. HIDE DEF s
    <3>. QED
      BY <1>5, <2>1, <2>3, <3>1 DEF OnWrite, TypeOK, MessageAlive, OneExchange,
         GoesOnAsWanted, StagesInv
  <2>4. CASE MayFail /\ session' = s /\ UNCHANGED sent
    <3>. HIDE DEF s
    <3>1. tls = "failed" \/ session'.shutdowns # 0
      BY <2>2, <2>4 DEF MayFail, TypeOK, Session
    <3>. QED
      BY <1>5, <2>1, <2>2, <2>4, <3>1 DEF OnWrite, TypeOK, MessageAlive, OneExchange,
         GoesOnAsWanted, StagesInv
  <2>. QED
    BY <1>5, <2>3, <2>4 DEF OnWrite
<1>6. CASE OnRead
  <2>1. /\ session \in Session /\ session.handshake /\ session.handshakes = 0
        /\ session.reads = 1 /\ session.writing = <<>>
        /\ wanted /\ phase = "connected"
    <3>1. session.reads = 1 /\ session.writing = <<>>
      BY <1>6, WritesNothingElse DEF OnRead
    <3>. QED
      BY <3>1 DEF TypeOK, Session, StagesInv
  <2>. DEFINE s == [session EXCEPT !.reads = @ - 1]
  <2>2. /\ s \in Session /\ s.handshake /\ s.handshakes = 0 /\ s.reads = 0
        /\ s.writing = <<>>
    BY <2>1 DEF Session
  <2>3. CASE tls' = "failed" /\ session' = s /\ UNCHANGED <<answered, wanted>>
    <3>. HIDE DEF s
    <3>. QED
      BY <1>6, <2>1, <2>2, <2>3 DEF OnRead, TypeOK, MessageAlive, OneExchange,
         GoesOnAsWanted, StagesInv
  <2>4. ASSUME NEW script \in OnMessageDoes, Calling(s, script), tls = "up", UNCHANGED tls,
               answered < sent, answered' = answered + 1
        PROVE  ExchangeInv'
    <3>. HIDE DEF s
    <3>1. script \in Script
      BY ScriptsAssumption
    <3>2. /\ session' \in Session
          /\ session'.handshake /\ session'.handshakes = 0
          /\ \A i \in DOMAIN session'.writing : session'.writing[i] = session'.msg_p
          /\ session'.reads + Len(session'.writing) = IF script.then = "none" THEN 0 ELSE 1
      BY <2>2, <2>4, <3>1, HandlerRuns DEF Calling
    <3>3. sent' \in Nat /\ answered' = sent' /\ tls' = "up" /\ phase' = "connected"
      BY <1>6, <2>1, <2>4 DEF OnRead, TypeOK, OneExchange
    <3>4. wanted' \in BOOLEAN /\ (wanted' <=> script.then # "none")
      BY <2>4 DEF Calling
    <3>. QED
      BY <3>1, <3>2, <3>3, <3>4, HandlerTurn
  <2>. QED
    BY <1>6, <2>3, <2>4 DEF OnRead
<1>7. CASE OnShutdown
  <2>1. /\ session' \in Session /\ session'.handshake = session.handshake
        /\ session'.handshakes = session.handshakes /\ session'.reads = session.reads
        /\ session'.writing = session.writing /\ session'.msg_p = session.msg_p
    BY <1>7 DEF OnShutdown, TypeOK, Session
  <2>2. session.handshake
    BY <1>7 DEF OnShutdown, StagesInv, TypeOK, Session
  <2>. QED
    BY <1>7, <2>1, <2>2 DEF OnShutdown, TypeOK, MessageAlive, OneExchange,
       GoesOnAsWanted, StagesInv
<1>8. CASE NetworkFails
  BY <1>8 DEF NetworkFails, TypeOK, MessageAlive, OneExchange, GoesOnAsWanted, StagesInv
<1>9. CASE Ended
  BY <1>1, <1>9 DEF Ended
<1>. QED
  BY <1>1, <1>2, <1>3, <1>4, <1>5, <1>6, <1>7, <1>8, <1>9 DEF Next

(* The client makes its exchanges one at a time, keeps alive the request   *)
(* it is sending, and goes on exactly as its last handler asked: the       *)
(* guards and completions of session<false, Body> (include/ssl.hpp).       *)
THEOREM ExchangesCorrect == Spec => []ExchangeInv
<1>. QED
  BY ExchangeInit, ExchangeStep, PTL DEF Spec

=============================================================================
