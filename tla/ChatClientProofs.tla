-------------------------- MODULE ChatClientProofs --------------------------
(***************************************************************************)
(* What the chat client never does, for any number of threads and any      *)
(* bounds: its console thread writes beside the strand, and still there is *)
(* one read, the session goes on, and no line is left behind.              *)
(***************************************************************************)
EXTENDS ChatClient, SequenceTheorems, TLAPS

(* A session without a websocket yet.                                      *)
Connecting(s) ==
  /\ ~s.handshaked /\ s.readable /\ s.output = 0 /\ s.next_reads = <<>>
  /\ s.ops["read"] = 0 /\ s.ops["write"] = 0
  /\ s.status \in {"http", "handshaking", "failed"}
  /\ s.ops["handshake"] <= 1 /\ (s.status = "http" => s.ops["handshake"] = 0)

(* One with a websocket, by the parts of it that the operations below      *)
(* change: every outstanding write is going to read on.                    *)
Looks(s, status, readable, reads, writes, output) ==
  /\ s \in Session /\ s.handshaked /\ s.ops["handshake"] = 0
  /\ s.status = status /\ s.readable = readable
  /\ s.ops["read"] = reads /\ s.ops["write"] = writes /\ s.output = output
  /\ s.next_reads \in Seq({TRUE}) /\ Len(s.next_reads) = writes

Talking(s) ==
  Looks(s, s.status, s.readable, s.ops["read"], s.ops["write"], s.output)

(* While no message is between its two steps an open session reads or is   *)
(* going to; what is in its buffer is being written, or the console thread *)
(* has just typed it.                                                      *)
GoesOn ==
  /\ ~session.readable => Reads = 1
  /\ Reads + Writes > 0
  /\ session.output > 0 /\ console # "typed" => Writes > 0

IInv ==
  /\ TypeOK
  /\ ~session.handshaked =>
       Connecting(session) /\ handshake_pc = "idle" /\ ~my_session_p
  /\ session.handshaked =>
       /\ Talking(session) /\ session.status \in {"open", "closed", "failed"}
       /\ Reads <= 1 /\ (session.readable => Reads = 0)
       /\ session.status = "open" /\ strand_pc = "idle" => GoesOn
  /\ strand_pc = "greeted" => my_session_p /\ session.readable
  /\ console \in {"typing", "typed"} => my_session_p

LEMMA InitIInv == Init => IInv
<1>. SUFFICES ASSUME Init PROVE IInv
  OBVIOUS
<1>1. <<>> \in Seq(BOOLEAN)
  OBVIOUS
<1>2. NewSession \in Session
  BY <1>1 DEF NewSession, Session, NoOps, NoSending, Kinds, Frames, Statuses
<1>3. Connecting(NewSession)
  BY DEF NewSession, NoOps, Kinds, Connecting
<1>. QED
  BY <1>2, <1>3 DEF Init, IInv, TypeOK, NewSession, Console
-----------------------------------------------------------------------------
(* Starting and answering an operation changes its count.                  *)
LEMMA StartEffect ==
  ASSUME NEW s \in Session, NEW k \in Kinds
  PROVE  LET u == Start(s, k)
         IN  /\ u \in Session /\ u.ops = [s.ops EXCEPT ![k] = @ + 1]
             /\ u.handshaked = s.handshaked /\ u.status = s.status
             /\ u.readable = s.readable /\ u.output = s.output
             /\ u.next_reads = s.next_reads /\ u.frame = s.frame
<1>1. s.ops \in [Kinds -> Nat] /\ s.ops[k] \in Nat
  BY DEF Session
<1>2. [s.ops EXCEPT ![k] = @ + 1] \in [Kinds -> Nat]
  BY <1>1
<1>3. Start(s, k) = [s EXCEPT !.ops = [s.ops EXCEPT ![k] = @ + 1]]
  BY DEF Start
<1>. QED
  BY <1>2, <1>3 DEF Session

LEMMA AnswerEffect ==
  ASSUME NEW s \in Session, NEW k \in Kinds, Outstanding(s, k), NEW ec
  PROVE  LET u == Answer(s, k, ec)
         IN  /\ u \in Session /\ u.ops = [s.ops EXCEPT ![k] = @ - 1]
             /\ u.handshaked = s.handshaked /\ u.status = StatusAfter(s, k, ec)
             /\ u.readable = s.readable /\ u.output = s.output
             /\ u.next_reads = s.next_reads
<1>1. s.ops[k] \in Nat /\ s.ops[k] > 0 /\ s.ops \in [Kinds -> Nat]
  BY DEF Session, Outstanding
<1>2. [s.ops EXCEPT ![k] = @ - 1] \in [Kinds -> Nat]
  BY <1>1
<1>3. StatusAfter(s, k, ec) \in Statuses
  BY DEF StatusAfter, Session, Statuses
<1>4. (IF k = "write" THEN NoSending ELSE s.sending) \in [size : Nat, frame : Frames]
  BY DEF NoSending, Frames, Session
<1>5. Answer(s, k, ec) =
        [s EXCEPT !.ops = [s.ops EXCEPT ![k] = @ - 1],
                  !.status = StatusAfter(s, k, ec),
                  !.sending = IF k = "write" THEN NoSending ELSE s.sending]
  BY DEF Answer, Session
<1>. QED
  BY <1>2, <1>3, <1>4, <1>5 DEF Session

(* The operations of a session with a websocket, by what they change.      *)
LEMMA DoReadLooks ==
  ASSUME NEW s, NEW status, NEW r, NEW w, NEW o, Looks(s, status, TRUE, r, w, o)
  PROVE  Looks(DoRead(s), status, FALSE, r + 1, w, o)
<1>. DEFINE b == [s EXCEPT !.readable = FALSE]
            u == Start(b, "read")
<1>1. s \in Session
  BY DEF Looks
<1>2. b \in Session /\ b.ops = s.ops /\ b.handshaked = s.handshaked /\ b.status = s.status
      /\ b.readable = FALSE /\ b.output = s.output /\ b.next_reads = s.next_reads
  BY <1>1 DEF Session
<1>. HIDE DEF b
<1>3. u \in Session /\ u.ops = [b.ops EXCEPT !["read"] = @ + 1]
      /\ u.handshaked = b.handshaked /\ u.status = b.status /\ u.readable = b.readable
      /\ u.output = b.output /\ u.next_reads = b.next_reads
  BY <1>2, StartEffect DEF Kinds
<1>4. DoRead(s) = u
  BY DEF DoRead, AsyncRead, Looks, b
<1>. HIDE DEF u
<1>5. u.ops["read"] = r + 1 /\ u.ops["write"] = w /\ u.ops["handshake"] = 0
  BY <1>1, <1>2, <1>3 DEF Looks, Session, Kinds
<1>. QED
  BY <1>2, <1>3, <1>4, <1>5 DEF Looks

LEMMA DoWriteLooks ==
  ASSUME NEW s, NEW status, NEW readable, NEW r, NEW w, NEW o,
         Looks(s, status, readable, r, w, o)
  PROVE  Looks(DoWrite(s, TRUE), status, readable, r, w + 1, o)
<1>. DEFINE b == Start(s, "write")
            taken == [size |-> s.output, frame |-> s.frame]
            nexts == Append(s.next_reads, TRUE)
            u == [b EXCEPT !.sending = taken, !.next_reads = nexts]
<1>1. s \in Session
  BY DEF Looks
<1>2. b \in Session /\ b.ops = [s.ops EXCEPT !["write"] = @ + 1]
      /\ b.handshaked = s.handshaked /\ b.status = s.status /\ b.readable = s.readable
      /\ b.output = s.output /\ b.next_reads = s.next_reads
  BY <1>1, StartEffect DEF Kinds
<1>3. taken \in [size : Nat, frame : Frames]
  BY <1>1 DEF Session
<1>4. nexts \in Seq({TRUE}) /\ nexts \in Seq(BOOLEAN) /\ Len(nexts) = w + 1
  <2>1. s.next_reads \in Seq({TRUE}) /\ Len(s.next_reads) = w
    BY DEF Looks
  <2>2. s.next_reads \in Seq(BOOLEAN)
    BY <1>1 DEF Session
  <2>3. TRUE \in {TRUE} /\ TRUE \in BOOLEAN
    OBVIOUS
  <2>. QED
    BY <2>1, <2>2, <2>3
<1>5. DoWrite(s, TRUE) = u
  <2>1. DoWrite(s, TRUE) =
          [[b EXCEPT !.sending = taken] EXCEPT !.next_reads = Append(@, TRUE)]
    BY DEF DoWrite, AsyncWrite, Looks
  <2>2. nexts = Append(b.next_reads, TRUE)
    BY <1>2
  <2>. HIDE DEF b, taken, nexts
  <2>. QED
    BY <1>2, <2>1, <2>2 DEF Session
<1>. HIDE DEF b, taken, nexts
<1>6. u \in Session /\ u.ops = b.ops /\ u.handshaked = b.handshaked /\ u.status = b.status
      /\ u.readable = b.readable /\ u.output = b.output /\ u.next_reads = nexts
  BY <1>2, <1>3, <1>4 DEF Session
<1>. HIDE DEF u
<1>7. u.ops["read"] = r /\ u.ops["write"] = w + 1 /\ u.ops["handshake"] = 0
  BY <1>1, <1>2, <1>6 DEF Looks, Session, Kinds
<1>. QED
  BY <1>2, <1>4, <1>5, <1>6, <1>7 DEF Looks

LEMMA WriteIfAnyLooks ==
  ASSUME NEW s, NEW status, NEW readable, NEW r, NEW w, NEW o,
         Looks(s, status, readable, r, w, o)
  PROVE  Looks(WriteIfAny(s, TRUE), status, readable, r, IF o > 0 THEN w + 1 ELSE w, o)
<1>1. s.output = o
  BY DEF Looks
<1>. QED
  BY <1>1, DoWriteLooks DEF WriteIfAny

(* A message, and what is in the buffer then.                              *)
LEMMA AutoFrameLooks ==
  ASSUME NEW s, NEW status, NEW readable, NEW r, NEW w, NEW o,
         Looks(s, status, readable, r, w, o), s.got = "text"
  PROVE  Looks(AutoFrame(s), status, readable, r, w, o)
<1>. DEFINE frame == IF s.auto_frame THEN s.got ELSE s.frame
            u == AutoFrame(s)
<1>1. s \in Session
  BY DEF Looks
<1>2. frame \in Frames /\ u = [s EXCEPT !.frame = frame]
  BY <1>1 DEF AutoFrame, Session, Frames
<1>. HIDE DEF frame, u
<1>3. u \in Session /\ u.ops = s.ops /\ u.handshaked = s.handshaked /\ u.status = s.status
      /\ u.readable = s.readable /\ u.output = s.output /\ u.next_reads = s.next_reads
  BY <1>1, <1>2 DEF Session
<1>. QED
  BY <1>3 DEF Looks, u

LEMMA GotLooks ==
  ASSUME NEW s, NEW status, NEW readable, NEW r, NEW w, NEW o,
         Looks(s, status, readable, r, w, o)
  PROVE  LET u == [s EXCEPT !.readable = TRUE, !.got = "text"]
         IN  Looks(u, status, TRUE, r, w, o) /\ u.got = "text"
<1>. DEFINE u == [s EXCEPT !.readable = TRUE, !.got = "text"]
<1>1. s \in Session
  BY DEF Looks
<1>2. u \in Session /\ u.ops = s.ops /\ u.handshaked = s.handshaked /\ u.status = s.status
      /\ u.readable = TRUE /\ u.output = s.output /\ u.next_reads = s.next_reads
      /\ u.got = "text"
  BY <1>1 DEF Session, Frames
<1>. HIDE DEF u
<1>. QED
  BY <1>2 DEF Looks, u

LEMMA OutputLooks ==
  ASSUME NEW s, NEW status, NEW readable, NEW r, NEW w, NEW o, NEW n \in Nat,
         Looks(s, status, readable, r, w, o)
  PROVE  LET u == [s EXCEPT !.output = n]
         IN  Looks(u, status, readable, r, w, n) /\ u.got = s.got
<1>. DEFINE u == [s EXCEPT !.output = n]
<1>1. s \in Session
  BY DEF Looks
<1>2. u \in Session /\ u.ops = s.ops /\ u.handshaked = s.handshaked /\ u.status = s.status
      /\ u.readable = s.readable /\ u.output = n /\ u.next_reads = s.next_reads
      /\ u.got = s.got
  BY <1>1 DEF Session
<1>. HIDE DEF u
<1>. QED
  BY <1>2 DEF Looks, u

LEMMA AnswerReadLooks ==
  ASSUME NEW s, NEW status, NEW readable, NEW r, NEW w, NEW o, NEW ec,
         Looks(s, status, readable, r, w, o), Outstanding(s, "read")
  PROVE  Looks(Answer(s, "read", ec), StatusAfter(s, "read", ec), readable, r - 1, w, o)
<1>. DEFINE u == Answer(s, "read", ec)
<1>1. s \in Session /\ s.ops \in [Kinds -> Nat]
  BY DEF Looks, Session
<1>k. "read" \in Kinds
  BY DEF Kinds
<1>2. u \in Session /\ u.ops = [s.ops EXCEPT !["read"] = @ - 1]
      /\ u.handshaked = s.handshaked /\ u.status = StatusAfter(s, "read", ec)
      /\ u.readable = s.readable /\ u.output = s.output /\ u.next_reads = s.next_reads
  BY <1>1, <1>k, AnswerEffect
<1>. HIDE DEF u
<1>3. u.ops["read"] = r - 1 /\ u.ops["write"] = w /\ u.ops["handshake"] = 0
  BY <1>1, <1>2 DEF Looks, Kinds
<1>. QED
  BY <1>2, <1>3 DEF Looks, u

LEMMA AnswerWriteLooks ==
  ASSUME NEW s, NEW status, NEW readable, NEW r, NEW w, NEW o, NEW ec,
         Looks(s, status, readable, r, w, o), Outstanding(s, "write")
  PROVE  /\ Looks(AnswerWrite(s, ec), status, readable, r, w - 1, o)
         /\ Head(s.next_reads) = TRUE
<1>. DEFINE b == Answer(s, "write", ec)
            nexts == Tail(s.next_reads)
            u == [b EXCEPT !.next_reads = nexts]
<1>1. s \in Session /\ s.ops \in [Kinds -> Nat] /\ w \in Nat /\ w > 0
  BY DEF Looks, Session, Outstanding, Kinds
<1>k. "write" \in Kinds
  BY DEF Kinds
<1>2. b \in Session /\ b.ops = [s.ops EXCEPT !["write"] = @ - 1]
      /\ b.handshaked = s.handshaked /\ b.status = StatusAfter(s, "write", ec)
      /\ b.readable = s.readable /\ b.output = s.output /\ b.next_reads = s.next_reads
  BY <1>1, <1>k, AnswerEffect
<1>3. StatusAfter(s, "write", ec) = status
  BY DEF StatusAfter, Looks
<1>4. nexts \in Seq({TRUE}) /\ nexts \in Seq(BOOLEAN) /\ Len(nexts) = w - 1
      /\ Head(s.next_reads) = TRUE
  <2>1. s.next_reads \in Seq({TRUE}) /\ Len(s.next_reads) = w
    BY DEF Looks
  <2>2. s.next_reads \in Seq(BOOLEAN) /\ s.next_reads # <<>>
    BY <1>1, <2>1 DEF Session
  <2>3. Head(s.next_reads) \in {TRUE} /\ nexts \in Seq({TRUE})
    BY <2>1, <2>2, HeadTailProperties
  <2>4. nexts \in Seq(BOOLEAN) /\ Len(nexts) = Len(s.next_reads) - 1
    BY <2>2, HeadTailProperties
  <2>. QED
    BY <2>1, <2>3, <2>4
<1>. HIDE DEF b
<1>5. AnswerWrite(s, ec) = u
  BY <1>2 DEF AnswerWrite, b
<1>. HIDE DEF nexts
<1>6. u \in Session /\ u.ops = b.ops /\ u.handshaked = b.handshaked /\ u.status = b.status
      /\ u.readable = b.readable /\ u.output = b.output /\ u.next_reads = nexts
  BY <1>2, <1>4 DEF Session
<1>. HIDE DEF u
<1>7. u.ops["read"] = r /\ u.ops["write"] = w - 1 /\ u.ops["handshake"] = 0
  BY <1>1, <1>2, <1>6 DEF Looks, Kinds
<1>. QED
  BY <1>2, <1>3, <1>4, <1>5, <1>6, <1>7 DEF Looks

LEMMA WrittenLooks ==
  ASSUME NEW s, NEW status, NEW readable \in BOOLEAN, NEW r \in Nat, NEW w, NEW o,
         Looks(s, status, readable, r, w, o)
  PROVE  Looks(Written(s, TRUE), status, FALSE, IF readable THEN r + 1 ELSE r, w, 0)
<1>. DEFINE u == [s EXCEPT !.output = 0]
<1>1. Looks(u, status, readable, r, w, 0)
  BY OutputLooks
<1>2. s.readable = readable
  BY DEF Looks
<1>3. Written(s, TRUE) = IF readable THEN DoRead(u) ELSE u
  BY <1>2 DEF Written
<1>. HIDE DEF u
<1>4. CASE readable
  BY <1>1, <1>3, <1>4, DoReadLooks
<1>5. CASE ~readable
  BY <1>1, <1>3, <1>5
<1>. QED
  BY <1>4, <1>5

(* on_message reads on ...                                                 *)
LEMMA ReadOnLooks ==
  ASSUME NEW s, NEW status, NEW readable, NEW r, NEW w, NEW o,
         Looks(s, status, readable, r, w, o)
  PROVE  Looks(Received(s, "text", ReadOn), status, FALSE, r + 1,
               IF o > 0 THEN w + 1 ELSE w, o)
<1>. DEFINE a == [s EXCEPT !.readable = TRUE, !.got = "text"]
            b == UserHandler(a, ReadOn)
<1>1. Looks(a, status, TRUE, r, w, o) /\ a.got = "text"
  BY GotLooks
<1>2. Received(s, "text", ReadOn) = WriteIfAny(AutoFrame(b), TRUE)
  BY DEF Received, ReadOn, Nothing
<1>. HIDE DEF a
<1>3. b = DoRead(a)
  <2>1. ReadOn.frame = "keep" /\ ReadOn.out = FALSE /\ ReadOn.read = TRUE
        /\ ReadOn.call = "none"
    BY DEF ReadOn, Nothing
  <2>2. Append1(a, FALSE) = a
    BY <1>1 DEF Append1, Looks, Session
  <2>. QED
    BY <2>1, <2>2 DEF UserHandler, SetFrame, ReadIf, SendControl
<1>. HIDE DEF b
<1>4. b.got = "text" /\ a \in Session
  BY <1>1, <1>3 DEF DoRead, AsyncRead, Start, Looks, Session
<1>5. Looks(b, status, FALSE, r + 1, w, o)
  BY <1>1, <1>3, DoReadLooks
<1>6. Looks(AutoFrame(b), status, FALSE, r + 1, w, o)
  BY <1>4, <1>5, AutoFrameLooks
<1>. QED
  BY <1>2, <1>6, WriteIfAnyLooks

(* ... or answers, and on_write will.                                      *)
LEMMA ReplyLooks ==
  ASSUME NEW s, NEW status, NEW readable, NEW r, NEW w, NEW o \in Nat,
         Looks(s, status, readable, r, w, o)
  PROVE  Looks(Received(s, "text", Reply), status, TRUE, r, w + 1, o + 1)
<1>. DEFINE a == [s EXCEPT !.readable = TRUE, !.got = "text"]
            b == [a EXCEPT !.output = o + 1]
<1>1. Looks(a, status, TRUE, r, w, o) /\ a.got = "text"
  BY GotLooks
<1>. HIDE DEF a
<1>2. Looks(b, status, TRUE, r, w, o + 1) /\ b.got = "text"
  <2>1. o + 1 \in Nat
    OBVIOUS
  <2>. QED
    BY <1>1, <2>1, OutputLooks
<1>3. UserHandler(a, Reply) = b
  <2>1. Reply.frame = "keep" /\ Reply.out = TRUE /\ Reply.read = FALSE
        /\ Reply.call = "none"
    BY DEF Reply, Nothing
  <2>2. Append1(a, TRUE) = b
    BY <1>1 DEF Append1, Looks, Session
  <2>. QED
    BY <2>1, <2>2 DEF UserHandler, SetFrame, ReadIf, SendControl
<1>4. Received(s, "text", Reply) = WriteIfAny(AutoFrame(b), TRUE)
  BY <1>3 DEF Received, Reply, Nothing, a
<1>. HIDE DEF b
<1>5. Looks(AutoFrame(b), status, TRUE, r, w, o + 1)
  BY <1>2, AutoFrameLooks
<1>6. o + 1 > 0
  OBVIOUS
<1>. QED
  BY <1>4, <1>5, <1>6, WriteIfAnyLooks

(* The stream's end.                                                       *)
LEMMA StatusLooks ==
  ASSUME NEW s, NEW status, NEW readable, NEW r, NEW w, NEW o, NEW new \in Statuses,
         Looks(s, status, readable, r, w, o)
  PROVE  Looks([s EXCEPT !.status = new], new, readable, r, w, o)
<1>. DEFINE u == [s EXCEPT !.status = new]
<1>1. s \in Session
  BY DEF Looks
<1>2. u \in Session /\ u.ops = s.ops /\ u.handshaked = s.handshaked /\ u.status = new
      /\ u.readable = s.readable /\ u.output = s.output /\ u.next_reads = s.next_reads
  BY <1>1 DEF Session
<1>. HIDE DEF u
<1>. QED
  BY <1>2 DEF Looks, u
-----------------------------------------------------------------------------
(* The handshake.                                                          *)
LEMMA HandshakeStarts ==
  ASSUME NEW s \in Session, Connecting(s), s.status = "http"
  PROVE  DoHandshake(s) \in Session /\ Connecting(DoHandshake(s))
                                    /\ ~DoHandshake(s).handshaked
<1>. DEFINE b == Start(s, "handshake")
            u == [b EXCEPT !.status = "handshaking"]
<1>k. "handshake" \in Kinds
  BY DEF Kinds
<1>1. b \in Session /\ b.ops = [s.ops EXCEPT !["handshake"] = @ + 1]
      /\ b.handshaked = s.handshaked /\ b.readable = s.readable
      /\ b.output = s.output /\ b.next_reads = s.next_reads
  BY <1>k, StartEffect
<1>2. DoHandshake(s) = u
  BY DEF DoHandshake, AsyncHandshake, Connecting
<1>. HIDE DEF b
<1>3. u \in Session /\ u.ops = b.ops /\ u.handshaked = b.handshaked
      /\ u.readable = b.readable /\ u.output = b.output
      /\ u.next_reads = b.next_reads /\ u.status = "handshaking"
  BY <1>1 DEF Session, Statuses
<1>. HIDE DEF u
<1>4. /\ s.ops \in [Kinds -> Nat] /\ s.ops["handshake"] = 0
      /\ s.ops["read"] = 0 /\ s.ops["write"] = 0
  BY DEF Connecting, Session, Kinds
<1>5. u.ops["read"] = 0 /\ u.ops["write"] = 0 /\ u.ops["handshake"] = 1
  BY <1>1, <1>3, <1>4 DEF Kinds
<1>. QED
  BY <1>1, <1>2, <1>3, <1>5 DEF Connecting

LEMMA HandshakeFails ==
  ASSUME NEW s \in Session, Connecting(s), Outstanding(s, "handshake")
  PROVE  LET u == Answer(s, "handshake", "fail")
         IN  u \in Session /\ Connecting(u) /\ ~u.handshaked
<1>. DEFINE u == Answer(s, "handshake", "fail")
<1>1. u \in Session /\ u.ops = [s.ops EXCEPT !["handshake"] = @ - 1]
      /\ u.handshaked = s.handshaked /\ u.status = "failed"
      /\ u.readable = s.readable /\ u.output = s.output /\ u.next_reads = s.next_reads
  <2>1. StatusAfter(s, "handshake", "fail") = "failed" /\ "handshake" \in Kinds
    BY DEF StatusAfter, Kinds
  <2>. QED
    BY <2>1, AnswerEffect
<1>. HIDE DEF u
<1>2. u.ops["read"] = 0 /\ u.ops["write"] = 0 /\ u.ops["handshake"] <= 1
  BY <1>1 DEF Connecting, Session, Kinds
<1>. QED
  BY <1>1, <1>2 DEF Connecting, u

(* on_handshake: the flag is set and the program reads.                    *)
LEMMA HandshakeSucceeds ==
  ASSUME NEW s \in Session, Connecting(s), Outstanding(s, "handshake")
  PROVE  Looks(Handshaked(Answer(s, "handshake", "ok"), ReadOn), "open", FALSE, 1, 0, 0)
<1>. DEFINE a == Answer(s, "handshake", "ok")
            b == [a EXCEPT !.handshaked = TRUE]
<1>1. a \in Session /\ a.ops = [s.ops EXCEPT !["handshake"] = @ - 1]
      /\ a.status = "open" /\ a.readable = TRUE /\ a.output = 0 /\ a.next_reads = <<>>
  <2>1. s.readable = TRUE /\ s.output = 0 /\ s.next_reads = <<>>
    BY DEF Connecting, Session
  <2>2. StatusAfter(s, "handshake", "ok") = "open" /\ "handshake" \in Kinds
    BY DEF StatusAfter, Kinds
  <2>. QED
    BY <2>1, <2>2, AnswerEffect
<1>2. s.ops["handshake"] = 1 /\ s.ops \in [Kinds -> Nat] /\ s.ops["read"] = 0
      /\ s.ops["write"] = 0
  BY DEF Connecting, Outstanding, Session, Kinds
<1>3. a.ops["handshake"] = 0 /\ a.ops["read"] = 0 /\ a.ops["write"] = 0
  BY <1>1, <1>2 DEF Kinds
<1>4. Handshaked(a, ReadOn) = UserHandler(b, ReadOn)
  BY DEF Handshaked
<1>. HIDE DEF a
<1>5. b \in Session /\ b.ops = a.ops /\ b.handshaked = TRUE /\ b.status = a.status
      /\ b.readable = a.readable /\ b.output = a.output /\ b.next_reads = a.next_reads
  BY <1>1 DEF Session
<1>. HIDE DEF b
<1>6. <<>> \in Seq({TRUE}) /\ Len(<<>>) = 0
  OBVIOUS
<1>7. Looks(b, "open", TRUE, 0, 0, 0)
  BY <1>1, <1>3, <1>5, <1>6 DEF Looks
<1>8. UserHandler(b, ReadOn) = DoRead(b)
  <2>1. ReadOn.frame = "keep" /\ ReadOn.out = FALSE /\ ReadOn.read = TRUE
        /\ ReadOn.call = "none"
    BY DEF ReadOn, Nothing
  <2>2. Append1(b, FALSE) = b
    BY <1>5 DEF Append1, Session
  <2>. QED
    BY <2>1, <2>2 DEF UserHandler, SetFrame, ReadIf, SendControl
<1>9. Looks(DoRead(b), "open", FALSE, 1, 0, 0)
  <2>1. Looks(DoRead(b), "open", FALSE, 0 + 1, 0, 0)
    BY <1>7, DoReadLooks
  <2>2. 0 + 1 = 1
    OBVIOUS
  <2>. QED
    BY <2>1, <2>2
<1>. QED
  BY <1>4, <1>8, <1>9 DEF a
-----------------------------------------------------------------------------
LEMMA NextIInv == IInv /\ [Next]_vars => IInv'
<1>. SUFFICES ASSUME IInv, [Next]_vars PROVE IInv'
  OBVIOUS
<1>1. TypeOK /\ session \in Session
  BY DEF IInv, TypeOK
<1>. DEFINE st == session.status
            rd == session.readable
            r == Reads
            w == Writes
            o == session.output
<1>2. session.handshaked => Looks(session, st, rd, r, w, o)
  BY DEF IInv, Talking, Reads, Writes
<1>3. r \in Nat /\ w \in Nat /\ o \in Nat /\ rd \in BOOLEAN /\ st \in Statuses
  BY <1>1 DEF Session, Kinds, Reads, Writes
<1>4. my_session_p => session.handshaked
  BY DEF IInv
<1>5. session.handshaked \in BOOLEAN
  BY <1>1 DEF Session
<1>6. ~session.handshaked => r = 0 /\ w = 0 /\ st \in {"http", "handshaking", "failed"}
  BY DEF IInv, Connecting, Reads, Writes
(* What the step leaves of a talking session is enough for the invariant.  *)
<1>7. ASSUME session' \in Session, session'.handshaked, Talking(session'),
             session'.status \in {"open", "closed", "failed"},
             Reads' <= 1, session'.readable => Reads' = 0,
             strand_pc' = "greeted" => session'.readable /\ my_session_p',
             console' \in {"typing", "typed"} => my_session_p',
             handshake_pc' \in {"idle", "called"}, strand_pc' \in {"idle", "greeted"},
             my_session_p' \in BOOLEAN, console' \in Console,
             asked' \in BOOLEAN, named' \in BOOLEAN,
             session'.status = "open" /\ strand_pc' = "idle" => GoesOn'
      PROVE  IInv'
  <2>1. TypeOK'
    BY <1>7 DEF TypeOK
  <2>2. Talking(session)'
    BY <1>7 DEF Talking, Looks
  <2>. QED
    BY <1>7, <2>1, <2>2 DEF IInv
(* Stuttering.                                                             *)
<1>8. CASE UNCHANGED vars
  BY <1>8 DEF vars, IInv, TypeOK, GoesOn, Reads, Writes
(* Before the websocket only the handshake and the console move.           *)
<1>9. ASSUME session' \in Session, Connecting(session)', ~session'.handshaked,
             handshake_pc' = "idle", my_session_p' = FALSE, strand_pc' = "idle",
             console' \in {"start", "tested", "waiting"},
             asked' \in BOOLEAN, named' \in BOOLEAN
      PROVE  IInv'
  BY <1>9 DEF IInv, TypeOK, Console
<1>10. CASE OnConnect
  <2>1. ~session.handshaked /\ Connecting(session)
    BY <1>1, <1>10 DEF OnConnect, IInv
  <2>2. session' \in Session /\ Connecting(session)' /\ ~session'.handshaked
    <3>1. session' = DoHandshake(session) /\ session.status = "http"
      BY <1>10 DEF OnConnect
    <3>2. session' \in Session /\ Connecting(session') /\ ~session'.handshaked
      BY <1>1, <2>1, <3>1, HandshakeStarts
    <3>. QED
      BY <3>2 DEF Connecting
  <2>. QED
    BY <1>9, <1>10, <2>1, <2>2 DEF OnConnect, IInv, TypeOK, Console
<1>11. CASE OnHandshake
  <2>1. ~session.handshaked /\ Connecting(session) /\ Outstanding(session, "handshake")
    BY <1>1, <1>11 DEF OnHandshake, IInv, Talking, Looks, Outstanding
  <2>2. CASE session' = Handshaked(Answer(session, "handshake", "ok"), ReadOn)
             /\ handshake_pc' = "called"
    <3>1. Looks(session', "open", FALSE, 1, 0, 0)
      BY <1>1, <2>1, <2>2, HandshakeSucceeds
    <3>2. /\ session' \in Session /\ session'.handshaked /\ Talking(session')
          /\ session'.status = "open" /\ session'.readable = FALSE /\ session'.output = 0
          /\ Reads' = 1 /\ Writes' = 0
      BY <3>1 DEF Looks, Talking, Reads, Writes
    <3>. QED
      BY <1>7, <1>11, <2>1, <2>2, <3>2 DEF OnHandshake, IInv, TypeOK, Console, GoesOn
  <2>3. CASE session' = Answer(session, "handshake", "fail") /\ UNCHANGED handshake_pc
    <3>1. session' \in Session /\ Connecting(session') /\ ~session'.handshaked
      BY <1>1, <2>1, <2>3, HandshakeFails
    <3>2. Connecting(session)'
      BY <3>1 DEF Connecting
    <3>. QED
      BY <1>9, <1>11, <2>1, <2>3, <3>1, <3>2 DEF OnHandshake, IInv, TypeOK, Console
  <2>. QED
    BY <1>11, <2>2, <2>3 DEF OnHandshake
<1>12. CASE HandshakeEnd
  <2>1. session.handshaked
    BY <1>12 DEF HandshakeEnd, IInv
  <2>2. Looks(session', st, rd, r, IF o > 0 THEN w + 1 ELSE w, o)
    BY <1>2, <1>12, <2>1, WriteIfAnyLooks DEF HandshakeEnd
  <2>3. /\ session' \in Session /\ session'.handshaked /\ Talking(session')
        /\ session'.status = st /\ session'.readable = rd /\ session'.output = o
        /\ Reads' = r /\ Writes' = (IF o > 0 THEN w + 1 ELSE w)
    BY <2>2 DEF Looks, Talking, Reads, Writes
  <2>4. Writes' \in Nat /\ Writes' >= w /\ (o > 0 => Writes' > 0)
    BY <1>3, <2>3
  <2>5. st = "open" /\ strand_pc = "idle" => (~rd => r = 1) /\ Reads' + Writes' > 0
    <3>1. st = "open" /\ strand_pc = "idle" => (~rd => r = 1) /\ r + w > 0
      BY <2>1 DEF IInv, GoesOn
    <3>. QED
      BY <1>3, <2>3, <2>4, <3>1
  <2>6. session'.status = "open" /\ strand_pc' = "idle" => GoesOn'
    BY <1>12, <2>3, <2>4, <2>5 DEF HandshakeEnd, GoesOn
  <2>. QED
    BY <1>3, <1>7, <1>12, <2>1, <2>3, <2>6 DEF HandshakeEnd, IInv, TypeOK
(* A read is answered: the session reads, and so it has a websocket.       *)
<1>13. ASSUME NEW ec, Completes("read", ec)
       PROVE  /\ session.handshaked /\ strand_pc = "idle" /\ r = 1 /\ rd = FALSE
              /\ Looks(Answer(session, "read", ec), StatusAfter(session, "read", ec),
                       rd, 0, w, o)
              /\ ec = "ok" => st = "open" /\ StatusAfter(session, "read", ec) = st
              /\ ec # "ok" => StatusAfter(session, "read", ec) \in {"closed", "failed"}
  <2>1. r > 0 /\ strand_pc = "idle" /\ ec \in Answers(session, "read")
        /\ Outstanding(session, "read")
    BY <1>13 DEF Completes, StrandRuns, Outstanding, Reads
  <2>2. session.handshaked
    BY <1>3, <1>6, <2>1
  <2>3. r = 1 /\ rd = FALSE /\ st \in {"open", "closed", "failed"}
    BY <1>3, <2>1, <2>2 DEF IInv
  <2>4. Looks(Answer(session, "read", ec), StatusAfter(session, "read", ec), rd, r - 1, w, o)
    BY <1>2, <2>1, <2>2, AnswerReadLooks
  <2>. QED
    BY <2>1, <2>2, <2>3, <2>4 DEF Answers, StatusAfter
<1>14. CASE OnQuestion
  <2>. DEFINE a == Answer(session, "read", "ok")
  <2>1. Looks(a, st, rd, 0, w, o) /\ st = "open" /\ session.handshaked /\ strand_pc = "idle"
    BY <1>13, <1>14 DEF OnQuestion
  <2>. HIDE DEF a
  <2>2. Looks(session', st, TRUE, 0, w + 1, o + 1)
    <3>1. Looks(Received(a, "text", Reply), st, TRUE, 0, w + 1, o + 1)
      BY <1>3, <2>1, ReplyLooks
    <3>. QED
      BY <1>14, <3>1 DEF OnQuestion, a
  <2>3. /\ session' \in Session /\ session'.handshaked /\ Talking(session')
        /\ session'.status = st /\ session'.readable = TRUE /\ session'.output = o + 1
        /\ Reads' = 0 /\ Writes' = w + 1
    BY <2>2 DEF Looks, Talking, Reads, Writes
  <2>. QED
    BY <1>3, <1>7, <1>14, <2>1, <2>3 DEF OnQuestion, IInv, TypeOK, GoesOn
<1>15. CASE OnHello
  <2>. DEFINE a == Answer(session, "read", "ok")
  <2>1. Looks(a, st, rd, 0, w, o) /\ st = "open" /\ session.handshaked
    BY <1>13, <1>15 DEF OnHello
  <2>. HIDE DEF a
  <2>2. Looks(session', st, TRUE, 0, w, o)
    <3>1. Looks([a EXCEPT !.readable = TRUE, !.got = "text"], st, TRUE, 0, w, o)
      BY <2>1, GotLooks
    <3>. QED
      BY <1>15, <3>1 DEF OnHello, a
  <2>3. /\ session' \in Session /\ session'.handshaked /\ Talking(session')
        /\ session'.status = st /\ session'.readable = TRUE /\ session'.output = o
        /\ Reads' = 0 /\ Writes' = w
    BY <2>2 DEF Looks, Talking, Reads, Writes
  <2>. QED
    BY <1>3, <1>7, <1>15, <2>1, <2>3 DEF OnHello, IInv, TypeOK
<1>16. CASE HelloEnd
  <2>1. my_session_p /\ session.handshaked /\ rd = TRUE /\ r = 0
    BY <1>1, <1>4, <1>16 DEF HelloEnd, IInv, Session
  <2>2. Looks(session', st, FALSE, 1, IF o > 0 THEN w + 1 ELSE w, o)
    <3>1. Looks(Received(session, "text", ReadOn), st, FALSE, r + 1,
                IF o > 0 THEN w + 1 ELSE w, o)
      BY <1>2, <2>1, ReadOnLooks
    <3>2. r + 1 = 1
      BY <2>1
    <3>. QED
      BY <1>16, <3>1, <3>2 DEF HelloEnd
  <2>3. /\ session' \in Session /\ session'.handshaked /\ Talking(session')
        /\ session'.status = st /\ session'.readable = FALSE /\ session'.output = o
        /\ Reads' = 1 /\ Writes' = (IF o > 0 THEN w + 1 ELSE w)
    BY <2>2 DEF Looks, Talking, Reads, Writes
  <2>. QED
    BY <1>3, <1>7, <1>16, <2>1, <2>3 DEF HelloEnd, IInv, TypeOK, Console, GoesOn
<1>17. CASE OnChat
  <2>. DEFINE a == Answer(session, "read", "ok")
  <2>1. Looks(a, st, rd, 0, w, o) /\ st = "open" /\ session.handshaked /\ strand_pc = "idle"
    BY <1>13, <1>17 DEF OnChat
  <2>. HIDE DEF a
  <2>2. Looks(session', st, FALSE, 0 + 1, IF o > 0 THEN w + 1 ELSE w, o)
    <3>1. Looks(Received(a, "text", ReadOn), st, FALSE, 0 + 1,
                IF o > 0 THEN w + 1 ELSE w, o)
      BY <2>1, ReadOnLooks
    <3>. QED
      BY <1>17, <3>1 DEF OnChat, a
  <2>3. /\ session' \in Session /\ session'.handshaked /\ Talking(session')
        /\ session'.status = st /\ session'.readable = FALSE /\ session'.output = o
        /\ Reads' = 0 + 1 /\ Writes' = (IF o > 0 THEN w + 1 ELSE w)
    BY <2>2 DEF Looks, Talking, Reads, Writes
  <2>. QED
    BY <1>3, <1>7, <1>17, <2>1, <2>3 DEF OnChat, IInv, TypeOK, GoesOn
<1>18. CASE OnReadFails
  <2>1. PICK ec \in {"closed", "fail"} :
          Completes("read", ec) /\ session' = Answer(session, "read", ec)
    BY <1>18 DEF OnReadFails
  <2>. DEFINE status == StatusAfter(session, "read", ec)
  <2>2. Looks(session', status, FALSE, 0, w, o) /\ status \in {"closed", "failed"}
        /\ session.handshaked /\ strand_pc = "idle"
    BY <1>13, <2>1
  <2>. HIDE DEF status
  <2>3. /\ session' \in Session /\ session'.handshaked /\ Talking(session')
        /\ session'.status = status /\ session'.readable = FALSE /\ session'.output = o
        /\ Reads' = 0 /\ Writes' = w
    BY <2>2 DEF Looks, Talking, Reads, Writes
  <2>. QED
    BY <1>3, <1>7, <1>18, <2>2, <2>3 DEF OnReadFails, IInv, TypeOK
<1>19. CASE OnWrite
  <2>1. PICK ec : Completes("write", ec)
          /\ session' = IF ec = "ok"
                        THEN Written(AnswerWrite(session, "ok"), Head(session.next_reads))
                        ELSE AnswerWrite(session, ec)
    BY <1>19 DEF OnWrite
  <2>2. w > 0 /\ strand_pc = "idle" /\ ec \in Answers(session, "write")
        /\ Outstanding(session, "write")
    BY <2>1 DEF Completes, StrandRuns, Outstanding, Writes
  <2>3. session.handshaked
    BY <1>3, <1>6, <2>2
  <2>4. Looks(AnswerWrite(session, ec), st, rd, r, w - 1, o) /\ Head(session.next_reads) = TRUE
    BY <1>2, <2>2, <2>3, AnswerWriteLooks
  <2>5. /\ handshake_pc' \in {"idle", "called"} /\ strand_pc' = "idle"
        /\ my_session_p' = my_session_p /\ my_session_p \in BOOLEAN
        /\ console' = console /\ console \in Console
        /\ asked' \in BOOLEAN /\ named' \in BOOLEAN
    BY <1>1, <1>19, <2>2 DEF OnWrite, TypeOK
  <2>6. CASE ec = "ok"
    <3>1. Looks(session', st, FALSE, IF rd THEN r + 1 ELSE r, w - 1, 0)
      BY <1>3, <2>1, <2>4, <2>6, WrittenLooks
    <3>2. (IF rd THEN r + 1 ELSE r) <= 1
          /\ (st = "open" => (IF rd THEN r + 1 ELSE r) = 1)
      BY <1>3, <2>2, <2>3 DEF IInv, GoesOn
    <3>3. st \in {"open", "closed", "failed"}
          /\ (console \in {"typing", "typed"} => my_session_p)
      BY <2>3 DEF IInv
    <3>. DEFINE reads == IF rd THEN r + 1 ELSE r
    <3>. HIDE DEF reads
    <3>4. reads \in Nat /\ w - 1 \in Nat /\ reads <= 1 /\ (st = "open" => reads = 1)
      BY <1>3, <2>2, <3>2 DEF reads
    <3>5. /\ session' \in Session /\ session'.handshaked /\ Talking(session')
          /\ session'.status = st /\ session'.readable = FALSE /\ session'.output = 0
          /\ Reads' = reads /\ Writes' = w - 1
      BY <3>1 DEF Looks, Talking, Reads, Writes, reads
    <3>. QED
      BY <1>7, <2>5, <3>3, <3>4, <3>5 DEF GoesOn
  <2>7. CASE ec # "ok"
    <3>1. Looks(session', st, rd, r, w - 1, o)
      BY <2>1, <2>4, <2>7
    <3>2. st # "open"
      BY <2>2, <2>7 DEF Answers
    <3>3. /\ session' \in Session /\ session'.handshaked /\ Talking(session')
          /\ session'.status = st /\ session'.readable = rd
          /\ Reads' = r
      BY <3>1 DEF Looks, Talking, Reads
    <3>. QED
      BY <1>3, <1>7, <2>3, <2>5, <3>2, <3>3 DEF IInv
  <2>. QED
    BY <2>6, <2>7
<1>20. CASE StreamEnds
  <2>1. PICK new \in {"failed"} \cup (IF Reads > 0 THEN {"closed"} ELSE {}) :
          session' = [session EXCEPT !.status = new]
    BY <1>20 DEF StreamEnds
  <2>2. new \in {"failed", "closed"} /\ new \in Statuses /\ (new = "closed" => r > 0)
    BY <2>1 DEF Statuses
  <2>3. CASE session.handshaked
    <3>1. Looks(session', new, rd, r, w, o)
      BY <1>2, <2>1, <2>2, <2>3, StatusLooks
    <3>2. /\ session' \in Session /\ session'.handshaked /\ Talking(session')
          /\ session'.status = new /\ session'.readable = rd
          /\ Reads' = r
      BY <3>1 DEF Looks, Talking, Reads
    <3>. QED
      BY <1>3, <1>7, <1>20, <2>2, <2>3, <3>2 DEF StreamEnds, IInv, TypeOK
  <2>4. CASE ~session.handshaked
    <3>1. new = "failed"
      BY <1>3, <1>6, <2>2, <2>4
    <3>2. session' \in Session /\ session'.ops = session.ops /\ session'.status = "failed"
          /\ session'.handshaked = session.handshaked /\ session'.readable = session.readable
          /\ session'.output = session.output /\ session'.next_reads = session.next_reads
      BY <1>1, <2>1, <2>2, <3>1 DEF Session
    <3>3. Connecting(session)' /\ ~session'.handshaked
      BY <2>4, <3>2 DEF IInv, Connecting
    <3>. QED
      BY <1>9, <1>20, <2>4, <3>2, <3>3 DEF StreamEnds, IInv, TypeOK, Console
  <2>. QED
    BY <2>3, <2>4
(* The console thread.                                                     *)
<1>21. CASE ConsoleTests \/ ConsoleWaits
  <2>1. /\ UNCHANGED <<session, my_session_p, handshake_pc, strand_pc, asked, named>>
        /\ console \in {"start", "tested"} /\ console' \in {"typing", "tested", "waiting"}
        /\ console' \in {"typing", "typed"} => my_session_p
    BY <1>21 DEF ConsoleTests, ConsoleWaits
  <2>2. TypeOK'
    BY <2>1 DEF IInv, TypeOK, Console
  <2>. QED
    BY <2>1, <2>2 DEF IInv, GoesOn, Reads, Writes
<1>22. CASE ConsoleTypes
  <2>1. my_session_p /\ session.handshaked /\ console' = "typed"
    BY <1>4, <1>22 DEF ConsoleTypes, IInv
  <2>2. o + 1 \in Nat /\ session' = [session EXCEPT !.output = o + 1]
    BY <1>1, <1>3, <1>22 DEF ConsoleTypes, Append1, Session
  <2>3. Looks(session', st, rd, r, w, o + 1)
    BY <1>2, <2>1, <2>2, OutputLooks
  <2>4. /\ session' \in Session /\ session'.handshaked /\ Talking(session')
        /\ session'.status = st /\ session'.readable = rd /\ session'.output = o + 1
        /\ Reads' = r /\ Writes' = w
    BY <2>3 DEF Looks, Talking, Reads, Writes
  <2>. QED
    BY <1>3, <1>7, <1>22, <2>1, <2>4 DEF ConsoleTypes, IInv, TypeOK, GoesOn, Console
<1>23. CASE ConsoleWrites
  <2>1. my_session_p /\ session.handshaked
    BY <1>4, <1>23 DEF ConsoleWrites, IInv
  <2>2. Looks(session', st, rd, r, w + 1, o)
    BY <1>2, <1>23, <2>1, DoWriteLooks DEF ConsoleWrites
  <2>3. /\ session' \in Session /\ session'.handshaked /\ Talking(session')
        /\ session'.status = st /\ session'.readable = rd /\ session'.output = o
        /\ Reads' = r /\ Writes' = w + 1
    BY <2>2 DEF Looks, Talking, Reads, Writes
  <2>4. session'.status = "open" /\ strand_pc' = "idle" => GoesOn'
    <3>1. st = "open" /\ strand_pc = "idle" => (~rd => r = 1)
      BY <2>1 DEF IInv, GoesOn
    <3>2. Reads' + Writes' > 0 /\ Writes' > 0
      BY <1>3, <2>3
    <3>. QED
      BY <1>23, <2>3, <3>1, <3>2 DEF ConsoleWrites, GoesOn
  <2>. QED
    BY <1>3, <1>7, <1>23, <2>1, <2>3, <2>4 DEF ConsoleWrites, IInv, TypeOK, Console
<1>. QED
  BY <1>8, <1>10, <1>11, <1>12, <1>14, <1>15, <1>16, <1>17, <1>18, <1>19, <1>20, <1>21,
     <1>22, <1>23 DEF Next, Ended

LEMMA Invariant == Spec => []IInv
<1>. QED
  BY InitIInv, NextIInv, PTL DEF Spec
-----------------------------------------------------------------------------
(* The console thread's writes leave the session with the typed state of a *)
(* session, and the bound of next_reads (session.hpp) is one per write.    *)
THEOREM TypeCorrect == Spec => []TypeOK
<1>1. IInv => TypeOK
  BY DEF IInv
<1>. QED
  BY <1>1, Invariant, PTL

(* "Repeated asynchronous reading is impossible!", and does not happen     *)
(* although on_write reads on after every line of the console thread.      *)
THEOREM OneRead == Spec => []ReadsAreSingle
<1>1. IInv => ReadsAreSingle
  BY DEF IInv, Connecting, ReadsAreSingle, Reads
<1>. QED
  BY <1>1, Invariant, PTL

(* An open session reads, or writes and will read.                         *)
THEOREM GoesOnWhileOpen == Spec => []OpenGoesOn
<1>1. IInv => OpenGoesOn
  BY DEF IInv, Connecting, GoesOn, OpenGoesOn
<1>. QED
  BY <1>1, Invariant, PTL

(* No line in the buffer of an open session is without a write.            *)
THEOREM NoLineIsLeft == Spec => []NothingLeft
<1>1. IInv => NothingLeft
  BY DEF IInv, Connecting, GoesOn, NothingLeft
<1>. QED
  BY <1>1, Invariant, PTL
=============================================================================
