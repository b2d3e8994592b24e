------------------------ MODULE ClientSessionProofs ------------------------
(***************************************************************************)
(* What the client's session never does, for every application that is     *)
(* Disciplined and whose on_handshake does not race with the strand.       *)
(***************************************************************************)
EXTENDS ClientSession, TLAPS

(* on_handshake runs beside the strand: a read it starts may be answered   *)
(* while it still runs, unless one thread runs everything.                 *)
NoHandshakeRace == Threads = 1 \/ \A c \in App.handshake : ~c.read
-----------------------------------------------------------------------------
(* The stages of a session: before its websocket is open; then while a     *)
(* handler may decide what comes next; then reading, writing, or neither.  *)
Established == {"open", "closing", "closed", "failed"}

NoTransfer(t) ==
  t.ops["read"] = 0 /\ t.ops["write"] = 0 /\ t.next_reads = <<>>

HasWebsocket(t) ==
  t.handshaked /\ t.ops["handshake"] = 0 /\ t.status \in Established

Connecting(t) ==
  /\ ~t.handshaked /\ NoTransfer(t) /\ t.readable /\ t.output = 0
  /\ t.status \in {"http", "handshaking", "failed"}
  /\ t.ops["handshake"] <= 1 /\ (t.status = "http" => t.ops["handshake"] = 0)

Undecided(t) == HasWebsocket(t) /\ NoTransfer(t) /\ t.readable

Reading(t) ==
  /\ HasWebsocket(t) /\ ~t.readable /\ t.output = 0
  /\ t.ops["read"] = 1 /\ t.ops["write"] = 0 /\ t.next_reads = <<>>

FrameIfAuto(t, frame) == t.auto_frame /\ t.got # "none" => frame = t.got

Writing(t, on) ==
  /\ HasWebsocket(t) /\ t.readable
  /\ t.ops["read"] = 0 /\ t.ops["write"] = 1 /\ t.next_reads = <<on>>
  /\ t.output > 0 /\ t.sending.size = t.output
  /\ FrameIfAuto(t, t.sending.frame)

Over(t, on) ==
  /\ HasWebsocket(t) /\ NoTransfer(t)
  /\ t.status = "open" => ~on /\ t.readable /\ t.output = 0

(* The inductive invariant: in which stage the session is, and what        *)
(* on_handshake, if it still runs, is going to find.                       *)
StageInv ==
  \/ handshake_pc = "idle" /\ Connecting(session)
  \/ /\ handshake_pc = "called" /\ Undecided(session)
     /\ wanted <=> session.output > 0 /\ next_read
  \/ Reading(session) /\ wanted /\ (handshake_pc = "called" => Threads = 1)
  \/ handshake_pc = "idle" /\ Writing(session, wanted)
  \/ handshake_pc = "idle" /\ Over(session, wanted)

IInv ==
  /\ TypeOK
  /\ connection # "made" => session.status = "http"
  /\ ~session.handshaked \/ handshake_pc = "called" => session.got = "none"
  /\ StageInv
-----------------------------------------------------------------------------
(* What leaves a session in its stage: it touches no transfer and, while a *)
(* message is being written, not the frame mode; and it opens no stream.   *)
SameStage(t, u) ==
  /\ u \in Session
  /\ u.handshaked = t.handshaked /\ u.readable = t.readable
  /\ u.output = t.output /\ u.next_reads = t.next_reads
  /\ u.sending = t.sending /\ u.got = t.got
  /\ u.ops["read"] = t.ops["read"] /\ u.ops["write"] = t.ops["write"]
  /\ u.ops["handshake"] = t.ops["handshake"]
  /\ t.ops["write"] > 0 => u.auto_frame = t.auto_frame
  /\ \/ u.status = t.status
     \/ t.status # "http" /\ u.status = "failed"
     \/ t.handshaked /\ t.status # "http" /\ u.status \in {"closing", "closed"}

(* No step but that of on_handshake opens a stream.                        *)
Later(t, u) == u.status = "open" => t.status = "open"

LEMMA SameKeepsStage ==
  ASSUME NEW t \in Session, NEW u, SameStage(t, u), NEW on
  PROVE  /\ Connecting(t) => Connecting(u)
         /\ Undecided(t) => Undecided(u)
         /\ Reading(t) => Reading(u)
         /\ Writing(t, on) => Writing(u, on)
         /\ Over(t, on) => Over(u, on)
<1>1. HasWebsocket(t) => HasWebsocket(u)
  BY DEF SameStage, HasWebsocket, Established
<1>2. NoTransfer(t) => NoTransfer(u)
  BY DEF SameStage, NoTransfer
<1>3. Connecting(t) => Connecting(u)
  BY <1>2 DEF SameStage, Connecting
<1>4. Undecided(t) => Undecided(u)
  BY <1>1, <1>2 DEF SameStage, Undecided
<1>5. Reading(t) => Reading(u)
  BY <1>1 DEF SameStage, Reading
<1>6. Writing(t, on) => Writing(u, on)
  BY <1>1 DEF SameStage, Writing, FrameIfAuto
<1>7. Over(t, on) => Over(u, on)
  BY <1>1, <1>2 DEF SameStage, Over
<1>. QED
  BY <1>3, <1>4, <1>5, <1>6, <1>7

LEMMA SameReflexive ==
  ASSUME NEW t \in Session
  PROVE  SameStage(t, t)
BY DEF SameStage

LEMMA SameTransitive ==
  ASSUME NEW t, NEW u, NEW v, SameStage(t, u), SameStage(u, v)
  PROVE  SameStage(t, v)
BY DEF SameStage

(* Starting an operation keeps a session a session.                        *)
LEMMA StartType ==
  ASSUME NEW t \in Session, NEW k \in Kinds
  PROVE  /\ Start(t, k) \in Session
         /\ Start(t, k) = [t EXCEPT !.ops = [t.ops EXCEPT ![k] = @ + 1]]
         /\ t.ops[k] \in Nat
<1>1. t.ops \in [Kinds -> Nat] /\ t.ops[k] \in Nat
  BY DEF Session
<1>2. [t.ops EXCEPT ![k] = @ + 1] \in [Kinds -> Nat]
  BY <1>1
<1>3. Start(t, k) = [t EXCEPT !.ops = [t.ops EXCEPT ![k] = @ + 1]]
  BY DEF Start
<1>. QED
  BY <1>1, <1>2, <1>3 DEF Session

LEMMA StartSame ==
  ASSUME NEW t \in Session, NEW k \in {"ping", "pong", "close"}
  PROVE  SameStage(t, Start(t, k))
<1>. DEFINE w == Start(t, k)
<1>1. k \in Kinds
  BY DEF Kinds
<1>2. w \in Session /\ w = [t EXCEPT !.ops = [t.ops EXCEPT ![k] = @ + 1]]
  BY <1>1, StartType
<1>. HIDE DEF w
<1>3. w.ops = [t.ops EXCEPT ![k] = @ + 1] /\ t.ops \in [Kinds -> Nat]
      /\ w.handshaked = t.handshaked /\ w.readable = t.readable /\ w.status = t.status
      /\ w.output = t.output /\ w.next_reads = t.next_reads /\ w.got = t.got
      /\ w.auto_frame = t.auto_frame /\ w.sending = t.sending
  BY <1>2 DEF Session
<1>4. w.ops["read"] = t.ops["read"] /\ w.ops["write"] = t.ops["write"]
      /\ w.ops["handshake"] = t.ops["handshake"]
  BY <1>3 DEF Kinds
<1>. QED
  BY <1>2, <1>3, <1>4 DEF SameStage, w

LEMMA AsyncCloseSame ==
  ASSUME NEW t \in Session, t.handshaked
  PROVE  SameStage(t, AsyncClose(t))
<1>. DEFINE w == Start(t, "close")
            u == [w EXCEPT !.status = IF w.status = "open" THEN "closing" ELSE w.status]
<1>1. w \in Session /\ SameStage(t, w)
  BY StartType, StartSame DEF Kinds
<1>2. AsyncClose(t) = u
  BY DEF AsyncClose
<1>. HIDE DEF w
<1>3. u \in Session /\ w.handshaked
  BY <1>1 DEF Session, Statuses, SameStage
<1>4. SameStage(w, u)
  BY <1>1, <1>3 DEF SameStage, Session
<1>. QED
  BY <1>1, <1>2, <1>4, SameTransitive

(* do_ping, do_pong and do_close.                                          *)
LEMMA SendControlSame ==
  ASSUME NEW t \in Session, NEW call \in Calls
  PROVE  SameStage(t, SendControl(t, call))
BY SameReflexive, StartSame, AsyncCloseSame
DEF SendControl, Calls, DoPing, DoPong, DoClose, AsyncPing, AsyncPong

LEMMA SetFrameSame ==
  ASSUME NEW t \in Session, t.ops["write"] = 0, NEW mode \in FrameModes
  PROVE  SameStage(t, SetFrame(t, mode))
<1>. DEFINE auto == [t EXCEPT !.auto_frame = TRUE]
            fixed == [t EXCEPT !.auto_frame = FALSE, !.frame = mode]
<1>1. SetFrame(t, mode) \in {t, auto} \/ (SetFrame(t, mode) = fixed /\ mode \in Frames)
  BY DEF SetFrame, FrameModes, Frames
<1>2. SameStage(t, auto)
  <2>1. auto \in Session
    BY DEF Session
  <2>2. auto.handshaked = t.handshaked /\ auto.readable = t.readable
        /\ auto.output = t.output /\ auto.next_reads = t.next_reads /\ auto.ops = t.ops
        /\ auto.sending = t.sending /\ auto.got = t.got /\ auto.status = t.status
    BY DEF Session
  <2>. HIDE DEF auto
  <2>. QED
    BY <2>1, <2>2 DEF SameStage
<1>3. mode \in Frames => SameStage(t, fixed)
  <2>1. mode \in Frames => fixed \in Session
    BY DEF Session
  <2>2. fixed.handshaked = t.handshaked /\ fixed.readable = t.readable
        /\ fixed.output = t.output /\ fixed.next_reads = t.next_reads /\ fixed.ops = t.ops
        /\ fixed.sending = t.sending /\ fixed.got = t.got /\ fixed.status = t.status
    BY DEF Session
  <2>. HIDE DEF fixed
  <2>. QED
    BY <2>1, <2>2 DEF SameStage
<1>. HIDE DEF auto, fixed
<1>. QED
  BY <1>1, <1>2, <1>3, SameReflexive
-----------------------------------------------------------------------------
LEMMA DoReadReads ==
  ASSUME NEW t \in Session, Undecided(t), t.output = 0
  PROVE  LET u == DoRead(t)
         IN  u \in Session /\ Reading(u) /\ u.got = t.got /\ Later(t, u)
<1>. DEFINE r == [t EXCEPT !.readable = FALSE]
            u == AsyncRead(r)
<1>1. DoRead(t) = u
  BY DEF DoRead, Undecided, HasWebsocket
<1>2. r \in Session /\ ~r.readable /\ r.handshaked /\ r.status = t.status
      /\ r.ops = t.ops /\ r.output = 0 /\ r.next_reads = t.next_reads /\ r.got = t.got
  BY DEF Session, Undecided, HasWebsocket
<1>. HIDE DEF r
<1>3. u \in Session /\ u = [r EXCEPT !.ops = [r.ops EXCEPT !["read"] = @ + 1]]
  BY <1>2, StartType DEF AsyncRead, Kinds
<1>4. u.ops = [r.ops EXCEPT !["read"] = @ + 1] /\ r.ops \in [Kinds -> Nat]
      /\ ~u.readable /\ u.handshaked /\ u.status = t.status /\ u.output = 0
      /\ u.next_reads = t.next_reads /\ u.got = t.got
  BY <1>2, <1>3 DEF Session
<1>. HIDE DEF u
<1>5. u.ops["read"] = 1 /\ u.ops["write"] = 0 /\ u.ops["handshake"] = 0
  BY <1>2, <1>4 DEF Kinds, Undecided, HasWebsocket, NoTransfer
<1>6. HasWebsocket(u) /\ u.next_reads = <<>>
  BY <1>4, <1>5 DEF Undecided, HasWebsocket, NoTransfer
<1>. QED
  BY <1>1, <1>3, <1>4, <1>5, <1>6 DEF Reading, Later

LEMMA DoWriteWrites ==
  ASSUME NEW t \in Session, Undecided(t), t.output > 0, FrameIfAuto(t, t.frame),
         NEW on \in BOOLEAN
  PROVE  LET u == DoWrite(t, on)
         IN  u \in Session /\ Writing(u, on) /\ u.got = t.got /\ Later(t, u)
<1>. DEFINE w == Start(t, "write")
            taken == [size |-> t.output, frame |-> t.frame]
            u == [w EXCEPT !.sending = taken, !.next_reads = <<on>>]
<1>1. w \in Session /\ w = [t EXCEPT !.ops = [t.ops EXCEPT !["write"] = @ + 1]]
  BY StartType DEF Kinds
<1>2. w.ops = [t.ops EXCEPT !["write"] = @ + 1] /\ t.ops \in [Kinds -> Nat]
      /\ w.handshaked = t.handshaked /\ w.readable = t.readable /\ w.status = t.status
      /\ w.output = t.output /\ w.next_reads = t.next_reads /\ w.got = t.got
      /\ w.auto_frame = t.auto_frame
  BY <1>1 DEF Session
<1>3. taken \in [size : Nat, frame : Frames] /\ taken.size = t.output /\ taken.frame = t.frame
  BY DEF Session
<1>4. DoWrite(t, on) = u
  <2>1. DoWrite(t, on) = [[w EXCEPT !.sending = taken] EXCEPT !.next_reads = Append(@, on)]
    BY DEF DoWrite, AsyncWrite, Undecided, HasWebsocket
  <2>2. w.next_reads = <<>> /\ Append(<<>>, on) = <<on>>
    BY <1>2 DEF Undecided, NoTransfer
  <2>. HIDE DEF w, taken
  <2>. QED
    BY <1>1, <2>1, <2>2 DEF Session
<1>5. w.ops["write"] = 1 /\ w.ops["read"] = 0 /\ w.ops["handshake"] = 0
  BY <1>2 DEF Kinds, Undecided, HasWebsocket, NoTransfer
<1>. HIDE DEF w, taken
<1>6. <<on>> \in Seq(BOOLEAN)
  OBVIOUS
<1>7. u \in Session /\ u.ops = w.ops /\ u.handshaked = t.handshaked
      /\ u.readable = t.readable /\ u.status = t.status /\ u.output = t.output
      /\ u.next_reads = <<on>> /\ u.sending = taken /\ u.got = t.got
      /\ u.auto_frame = t.auto_frame
  BY <1>1, <1>2, <1>3, <1>6 DEF Session
<1>. HIDE DEF u
<1>8. HasWebsocket(u) /\ FrameIfAuto(u, u.sending.frame)
  BY <1>3, <1>5, <1>7 DEF Undecided, HasWebsocket, FrameIfAuto
<1>. QED
  BY <1>3, <1>4, <1>5, <1>7, <1>8 DEF Writing, Undecided, Later

(* What a session that may decide makes of its output.                     *)
LEMMA WriteIfAnyDecides ==
  ASSUME NEW t \in Session, Undecided(t), FrameIfAuto(t, t.frame), NEW on \in BOOLEAN
  PROVE  LET u == WriteIfAny(t, on)
             wants == t.output > 0 /\ on
         IN  /\ u \in Session /\ u.got = t.got /\ Later(t, u)
             /\ Writing(u, wants) \/ Over(u, wants)
<1>1. CASE t.output > 0
  BY <1>1, DoWriteWrites DEF WriteIfAny
<1>2. CASE t.output = 0
  BY <1>2 DEF WriteIfAny, Undecided, Over, Later
<1>. QED
  BY <1>1, <1>2 DEF Session

(* A user handler reads on, answers, or does neither.                      *)
LEMMA UserHandlerDecides ==
  ASSUME NEW t \in Session, Undecided(t), t.output = 0,
         NEW c \in Script, ~(c.out /\ c.read)
  PROVE  LET u == UserHandler(t, c)
         IN  /\ u \in Session /\ u.got = t.got /\ Later(t, u)
             /\ IF c.read THEN Reading(u)
                ELSE Undecided(u) /\ u.output = IF c.out THEN 1 ELSE 0
<1>. DEFINE f == SetFrame(t, c.frame)
            a == Append1(f, c.out)
            r == ReadIf(a, c.read)
            u == SendControl(r, c.call)
<1>0. c.out \in BOOLEAN /\ c.read \in BOOLEAN /\ c.frame \in FrameModes /\ c.call \in Calls
  BY DEF Script
<1>1. f \in Session /\ Undecided(f) /\ f.output = 0 /\ f.got = t.got /\ Later(t, f)
  <2>1. SameStage(t, f)
    BY <1>0, SetFrameSame DEF Undecided, NoTransfer
  <2>. HIDE DEF f
  <2>2. Undecided(f)
    BY <2>1, SameKeepsStage
  <2>. QED
    BY <2>1, <2>2 DEF SameStage, Later
<1>. HIDE DEF f
<1>2. a \in Session /\ Undecided(a) /\ a.got = t.got /\ Later(t, a)
      /\ a.output = IF c.out THEN 1 ELSE 0
  <2>1. a = [f EXCEPT !.output = IF c.out THEN 1 ELSE 0]
    BY <1>1 DEF Append1, Session
  <2>2. a \in Session /\ a.got = f.got /\ a.output = (IF c.out THEN 1 ELSE 0)
        /\ a.ops = f.ops /\ a.handshaked = f.handshaked /\ a.status = f.status
        /\ a.readable = f.readable /\ a.next_reads = f.next_reads
    <3>. DEFINE n == IF c.out THEN 1 ELSE 0
    <3>1. n \in Nat /\ a = [f EXCEPT !.output = n]
      BY <2>1
    <3>. HIDE DEF n, a
    <3>2. a \in Session /\ a.output = n
      BY <1>1, <3>1 DEF Session
    <3>3. a.got = f.got /\ a.ops = f.ops /\ a.handshaked = f.handshaked
          /\ a.status = f.status /\ a.readable = f.readable /\ a.next_reads = f.next_reads
      BY <1>1, <3>1 DEF Session
    <3>. QED
      BY <3>2, <3>3 DEF n
  <2>. HIDE DEF a
  <2>. QED
    BY <1>1, <2>2 DEF Undecided, HasWebsocket, NoTransfer, Later
<1>. HIDE DEF a
<1>3. r \in Session /\ r.got = t.got /\ Later(t, r)
      /\ IF c.read THEN Reading(r)
         ELSE Undecided(r) /\ r.output = IF c.out THEN 1 ELSE 0
  BY <1>0, <1>2, DoReadReads DEF ReadIf, Later
<1>. HIDE DEF r
<1>4. SameStage(r, u) /\ UserHandler(t, c) = u
  BY <1>0, <1>3, SendControlSame DEF UserHandler, f, a, r
<1>. HIDE DEF u
<1>5. u \in Session /\ u.got = t.got /\ u.output = r.output /\ Later(t, u)
      /\ (Reading(r) => Reading(u)) /\ (Undecided(r) => Undecided(u))
  BY <1>3, <1>4, SameKeepsStage DEF SameStage, Later
<1>. QED
  BY <1>0, <1>3, <1>4, <1>5

(* While a read is outstanding a handler that adds no output changes       *)
(* nothing that matters.                                                   *)
LEMMA UserHandlerReadsOn ==
  ASSUME NEW t \in Session, Reading(t), NEW c \in Script, ~c.out
  PROVE  LET u == UserHandler(t, c)
         IN  u \in Session /\ Reading(u) /\ u.got = t.got /\ Later(t, u)
<1>. DEFINE f == SetFrame(t, c.frame)
            u == SendControl(f, c.call)
<1>0. c.out \in BOOLEAN /\ c.read \in BOOLEAN /\ c.frame \in FrameModes /\ c.call \in Calls
  BY DEF Script
<1>1. SameStage(t, f) /\ f \in Session
  BY <1>0, SetFrameSame DEF Reading, SameStage
<1>. HIDE DEF f
<1>2. Append1(f, c.out) = f
  BY <1>1 DEF Append1, Session
<1>3. ReadIf(f, c.read) = f
  BY <1>1 DEF ReadIf, DoRead, SameStage, Reading
<1>4. UserHandler(t, c) = u
  BY <1>2, <1>3 DEF UserHandler, f
<1>5. SameStage(f, u)
  BY <1>0, <1>1, SendControlSame
<1>6. SameStage(t, u)
  BY <1>1, <1>5, SameTransitive
<1>. HIDE DEF u
<1>7. Reading(u)
  BY <1>6, SameKeepsStage
<1>. QED
  BY <1>4, <1>6, <1>7 DEF SameStage, Later
-----------------------------------------------------------------------------
(* An answered operation is one less; nothing else that matters changes    *)
(* but the status.                                                         *)
Answered(t, k, ec, u) ==
  /\ u \in Session
  /\ u.ops = [t.ops EXCEPT ![k] = @ - 1]
  /\ u.handshaked = t.handshaked /\ u.readable = t.readable
  /\ u.output = t.output /\ u.status = StatusAfter(t, k, ec)
  /\ u.next_reads = t.next_reads
  /\ u.got = t.got /\ u.auto_frame = t.auto_frame
  /\ u.sending = IF k = "write" THEN NoSending ELSE t.sending

LEMMA AnswerGives ==
  ASSUME NEW t \in Session, NEW k \in Kinds, Outstanding(t, k), NEW ec
  PROVE  Answered(t, k, ec, Answer(t, k, ec))
<1>1. t.ops[k] \in Nat /\ t.ops[k] > 0 /\ t.ops \in [Kinds -> Nat]
  BY DEF Session, Outstanding
<1>2. [t.ops EXCEPT ![k] = @ - 1] \in [Kinds -> Nat]
  BY <1>1
<1>3. StatusAfter(t, k, ec) \in Statuses
  BY DEF StatusAfter, Session, Statuses
<1>4. (IF k = "write" THEN NoSending ELSE t.sending) \in [size : Nat, frame : Frames]
  BY DEF NoSending, Frames, Session
<1>5. Answer(t, k, ec) =
        [t EXCEPT !.ops = [t.ops EXCEPT ![k] = @ - 1],
                  !.status = StatusAfter(t, k, ec),
                  !.sending = IF k = "write" THEN NoSending ELSE t.sending]
  BY DEF Answer, Session
<1>. DEFINE ops == [t.ops EXCEPT ![k] = @ - 1]
            status == StatusAfter(t, k, ec)
            sending == IF k = "write" THEN NoSending ELSE t.sending
            u == [t EXCEPT !.ops = ops, !.status = status, !.sending = sending]
<1>6. ops \in [Kinds -> Nat] /\ status \in Statuses
      /\ sending \in [size : Nat, frame : Frames] /\ Answer(t, k, ec) = u
  BY <1>2, <1>3, <1>4, <1>5
<1>. HIDE DEF ops, status, sending
<1>7. u \in Session
  BY <1>6 DEF Session
<1>8. /\ u.ops = ops /\ u.status = status /\ u.sending = sending
      /\ u.handshaked = t.handshaked /\ u.readable = t.readable /\ u.output = t.output
      /\ u.got = t.got /\ u.auto_frame = t.auto_frame /\ u.next_reads = t.next_reads
  BY DEF Session
<1>. HIDE DEF u
<1>. QED
  BY <1>6, <1>7, <1>8 DEF Answered, ops, status, sending

LEMMA AnswerEffect ==
  ASSUME NEW t \in Session, NEW k \in Kinds, Outstanding(t, k), NEW ec
  PROVE  LET u == Answer(t, k, ec)
         IN  /\ u \in Session
             /\ u.ops = [t.ops EXCEPT ![k] = @ - 1]
             /\ u.handshaked = t.handshaked /\ u.readable = t.readable
             /\ u.output = t.output /\ u.status = StatusAfter(t, k, ec)
             /\ u.next_reads = t.next_reads
             /\ u.got = t.got /\ u.auto_frame = t.auto_frame
             /\ u.sending = IF k = "write" THEN NoSending ELSE t.sending
<1>1. Answered(t, k, ec, Answer(t, k, ec))
  BY AnswerGives
<1>. QED
  BY <1>1 DEF Answered

LEMMA AnswerKeepsNextReads ==
  ASSUME NEW t \in Session, NEW k \in Kinds, Outstanding(t, k), NEW ec
  PROVE  Answer(t, k, ec) \in Session /\ Answer(t, k, ec).next_reads = t.next_reads
<1>1. Answered(t, k, ec, Answer(t, k, ec))
  BY AnswerGives
<1>. QED
  BY <1>1 DEF Answered

LEMMA AnswerStatus ==
  ASSUME NEW t \in Session, NEW k \in Kinds, Outstanding(t, k), NEW ec
  PROVE  /\ Answer(t, k, ec).status = StatusAfter(t, k, ec)
         /\ Answer(t, k, ec).handshaked = t.handshaked
<1>1. Answered(t, k, ec, Answer(t, k, ec))
  BY AnswerGives
<1>. QED
  BY <1>1 DEF Answered

(* on_handshake with an error, and on_ping, on_pong and on_close.          *)
LEMMA HandshakeFails ==
  ASSUME NEW t \in Session, Connecting(t), Outstanding(t, "handshake")
  PROVE  LET u == Answer(t, "handshake", "fail")
         IN  u \in Session /\ Connecting(u) /\ u.got = t.got
<1>. DEFINE u == Answer(t, "handshake", "fail")
<1>1. u \in Session /\ u.ops = [t.ops EXCEPT !["handshake"] = @ - 1]
      /\ u.handshaked = t.handshaked /\ u.readable = t.readable /\ u.output = t.output
      /\ u.status = "failed" /\ u.next_reads = t.next_reads /\ u.got = t.got
  <2>1. "handshake" \in Kinds /\ StatusAfter(t, "handshake", "fail") = "failed"
    BY DEF Kinds, StatusAfter
  <2>. QED
    BY <2>1, AnswerEffect
<1>. HIDE DEF u
<1>2. t.ops \in [Kinds -> Nat] /\ t.ops["handshake"] = 1
  BY DEF Session, Kinds, Connecting, Outstanding
<1>3. u.ops["read"] = 0 /\ u.ops["write"] = 0 /\ u.ops["handshake"] = 0
  BY <1>1, <1>2 DEF Kinds, Connecting, NoTransfer
<1>4. NoTransfer(u) /\ Connecting(u)
  BY <1>1, <1>3 DEF Connecting, NoTransfer
<1>. QED
  BY <1>1, <1>4 DEF u

LEMMA SentSame ==
  ASSUME NEW t \in Session, HasWebsocket(t) \/ Connecting(t),
         NEW k \in {"ping", "pong", "close"}, Outstanding(t, k),
         NEW ec \in Answers(t, k)
  PROVE  SameStage(t, Answer(t, k, ec))
<1>. DEFINE u == Answer(t, k, ec)
<1>1. k \in Kinds /\ k # "write"
      /\ \/ StatusAfter(t, k, ec) = t.status
         \/ StatusAfter(t, k, ec) = "closed" /\ HasWebsocket(t)
  BY DEF Kinds, StatusAfter, Answers, Connecting
<1>2. u \in Session /\ u.ops = [t.ops EXCEPT ![k] = @ - 1]
      /\ u.handshaked = t.handshaked /\ u.readable = t.readable /\ u.output = t.output
      /\ (u.status = t.status \/ (u.status = "closed" /\ HasWebsocket(t)))
      /\ u.next_reads = t.next_reads /\ u.got = t.got
      /\ u.auto_frame = t.auto_frame /\ u.sending = t.sending
  BY <1>1, AnswerEffect
<1>. HIDE DEF u
<1>3. u.ops["read"] = t.ops["read"] /\ u.ops["write"] = t.ops["write"]
      /\ u.ops["handshake"] = t.ops["handshake"]
  <2>1. t.ops \in [Kinds -> Nat]
    BY DEF Session
  <2>. QED
    BY <1>2, <2>1 DEF Kinds
<1>. QED
  BY <1>2, <1>3 DEF SameStage, HasWebsocket, Established, u

(* on_read and on_write with an error: the stream is not open any more.    *)
LEMMA TransferFails ==
  ASSUME NEW t \in Session, HasWebsocket(t), NEW k \in {"read", "write"},
         t.ops["read"] + t.ops["write"] = 1, Outstanding(t, k),
         NEW ec \in Answers(t, k), ec # "ok", NEW on
  PROVE  LET u == [Answer(t, k, ec) EXCEPT !.next_reads = <<>>]
         IN  u \in Session /\ Over(u, on) /\ u.got = t.got
<1>. DEFINE a == Answer(t, k, ec)
            u == [a EXCEPT !.next_reads = <<>>]
<1>1. t.status # "open" /\ StatusAfter(t, k, ec) \in {t.status, "closed"}
      /\ k \in Kinds
  BY DEF Answers, StatusAfter, Kinds
<1>2. a \in Session /\ a.ops = [t.ops EXCEPT ![k] = @ - 1]
      /\ a.handshaked = t.handshaked /\ a.status \in {t.status, "closed"} /\ a.got = t.got
  BY <1>1, AnswerEffect
<1>. HIDE DEF a
<1>3. u \in Session /\ u.ops = a.ops /\ u.handshaked = a.handshaked /\ u.status = a.status
      /\ u.got = a.got /\ u.next_reads = <<>>
  <2>1. <<>> \in Seq(BOOLEAN)
    OBVIOUS
  <2>. QED
    BY <1>2, <2>1 DEF Session
<1>. HIDE DEF u
<1>4. t.ops \in [Kinds -> Nat] /\ t.ops["read"] \in Nat /\ t.ops["write"] \in Nat
  BY DEF Session, Kinds
<1>5. u.ops["read"] = 0 /\ u.ops["write"] = 0 /\ u.ops["handshake"] = 0
  BY <1>2, <1>3, <1>4 DEF Kinds, Outstanding, HasWebsocket
<1>6. HasWebsocket(u) /\ NoTransfer(u) /\ u.status # "open"
  BY <1>1, <1>2, <1>3, <1>5 DEF HasWebsocket, NoTransfer, Established
<1>. QED
  BY <1>2, <1>3, <1>6 DEF Over, a, u
-----------------------------------------------------------------------------
(* The completion handlers with an "ok".                                   *)
LEMMA HandshakeDone ==
  ASSUME NEW t \in Session, Connecting(t), Outstanding(t, "handshake"),
         NEW c \in Script, ~(c.out /\ c.read)
  PROVE  LET u == Handshaked(Answer(t, "handshake", "ok"), c)
         IN  /\ u \in Session /\ u.got = t.got
             /\ IF c.read THEN Reading(u)
                ELSE Undecided(u) /\ u.output = IF c.out THEN 1 ELSE 0
<1>. DEFINE a == Answer(t, "handshake", "ok")
            b == [a EXCEPT !.handshaked = TRUE]
<1>1. a \in Session /\ a.ops = [t.ops EXCEPT !["handshake"] = @ - 1]
      /\ a.readable = t.readable /\ a.output = t.output /\ a.status = "open"
      /\ a.next_reads = t.next_reads /\ a.got = t.got
  <2>1. "handshake" \in Kinds /\ StatusAfter(t, "handshake", "ok") = "open"
    BY DEF Kinds, StatusAfter
  <2>. QED
    BY <2>1, AnswerEffect
<1>. HIDE DEF a
<1>2. b \in Session /\ b.ops = a.ops /\ b.readable = a.readable /\ b.output = a.output
      /\ b.status = a.status /\ b.next_reads = a.next_reads /\ b.got = a.got /\ b.handshaked
  BY <1>1 DEF Session
<1>. HIDE DEF b
<1>3. t.ops \in [Kinds -> Nat] /\ t.ops["handshake"] = 1
  BY DEF Session, Kinds, Connecting, Outstanding
<1>4. b.ops["read"] = 0 /\ b.ops["write"] = 0 /\ b.ops["handshake"] = 0
  BY <1>1, <1>2, <1>3 DEF Kinds, Connecting, NoTransfer
<1>5. Undecided(b) /\ b.output = 0
  BY <1>1, <1>2, <1>4 DEF Connecting, NoTransfer, Undecided, HasWebsocket, Established
<1>. QED
  BY <1>1, <1>2, <1>5, UserHandlerDecides DEF Handshaked, a, b

LEMMA ReadDone ==
  ASSUME NEW t \in Session, Reading(t), NEW got \in Frames,
         NEW c \in Script, ~(c.out /\ c.read)
  PROVE  LET u == Received(Answer(t, "read", "ok"), got, c)
         IN  /\ u \in Session /\ Later(t, u)
             /\ \/ Reading(u) /\ Wants(c)
                \/ Writing(u, Wants(c)) \/ Over(u, Wants(c))
<1>. DEFINE a == Answer(t, "read", "ok")
            b == [a EXCEPT !.readable = TRUE, !.got = got]
            h == UserHandler(b, c)
            f == AutoFrame(h)
            u == WriteIfAny(f, c.next_read)
<1>0. c.out \in BOOLEAN /\ c.read \in BOOLEAN /\ c.next_read \in BOOLEAN
  BY DEF Script
<1>1. a \in Session /\ a.ops = [t.ops EXCEPT !["read"] = @ - 1]
      /\ a.handshaked = t.handshaked /\ a.output = t.output /\ a.status = t.status
      /\ a.next_reads = t.next_reads
  <2>1. "read" \in Kinds /\ StatusAfter(t, "read", "ok") = t.status
        /\ Outstanding(t, "read")
    BY DEF Kinds, StatusAfter, Outstanding, Reading
  <2>. QED
    BY <2>1, AnswerEffect
<1>. HIDE DEF a
<1>2. b \in Session /\ b.ops = a.ops /\ b.handshaked = a.handshaked /\ b.output = a.output
      /\ b.status = a.status /\ b.next_reads = a.next_reads /\ b.got = got /\ b.readable
  BY <1>1 DEF Session
<1>. HIDE DEF b
<1>3. b.ops["read"] = 0 /\ b.ops["write"] = 0 /\ b.ops["handshake"] = 0
  <2>1. t.ops \in [Kinds -> Nat]
    BY DEF Session
  <2>. QED
    BY <1>1, <1>2, <2>1 DEF Kinds, Reading, HasWebsocket
<1>4. Undecided(b) /\ b.output = 0
  BY <1>1, <1>2, <1>3 DEF Reading, NoTransfer, Undecided, HasWebsocket
<1>5. /\ h \in Session /\ h.got = got /\ Later(b, h)
      /\ IF c.read THEN Reading(h)
         ELSE Undecided(h) /\ h.output = IF c.out THEN 1 ELSE 0
  BY <1>2, <1>4, UserHandlerDecides
<1>. HIDE DEF h
<1>6. f \in Session /\ f.ops = h.ops /\ f.handshaked = h.handshaked /\ f.output = h.output
      /\ f.status = h.status /\ f.next_reads = h.next_reads /\ f.readable = h.readable
      /\ f.got = got /\ FrameIfAuto(f, f.frame)
  <2>. DEFINE frame == IF h.auto_frame THEN got ELSE h.frame
  <2>1. frame \in Frames /\ f = [h EXCEPT !.frame = frame]
    BY <1>5 DEF AutoFrame, Session
  <2>2. h.auto_frame => frame = got
    OBVIOUS
  <2>. HIDE DEF f, frame
  <2>3. f \in Session /\ f.ops = h.ops /\ f.handshaked = h.handshaked /\ f.output = h.output
        /\ f.status = h.status /\ f.next_reads = h.next_reads /\ f.readable = h.readable
        /\ f.got = got /\ f.frame = frame /\ f.auto_frame = h.auto_frame
    BY <1>5, <2>1 DEF Session
  <2>. QED
    BY <2>2, <2>3 DEF FrameIfAuto
<1>7. Received(Answer(t, "read", "ok"), got, c) = u
  BY DEF Received, a, b, h, f
<1>. HIDE DEF f
<1>8. Later(t, f)
  BY <1>1, <1>2, <1>5, <1>6 DEF Later
<1>9. CASE c.read
  <2>1. Reading(f)
    BY <1>5, <1>6, <1>9 DEF Reading, HasWebsocket
  <2>2. u = f
    BY <2>1 DEF WriteIfAny, Reading
  <2>. QED
    BY <1>6, <1>7, <1>8, <1>9, <2>1, <2>2 DEF Wants
<1>10. CASE ~c.read
  <2>1. Undecided(f) /\ f.output = IF c.out THEN 1 ELSE 0
    BY <1>5, <1>6, <1>10 DEF Undecided, HasWebsocket, NoTransfer
  <2>2. (f.output > 0 /\ c.next_read) = Wants(c)
    BY <1>0, <1>10, <2>1 DEF Wants
  <2>3. u \in Session /\ Later(f, u) /\ (Writing(u, Wants(c)) \/ Over(u, Wants(c)))
    BY <1>0, <1>6, <2>1, <2>2, WriteIfAnyDecides
  <2>4. Later(t, u)
    BY <1>8, <2>3 DEF Later
  <2>. QED
    BY <1>7, <2>3, <2>4
<1>. QED
  BY <1>0, <1>9, <1>10

LEMMA WriteDone ==
  ASSUME NEW t \in Session, NEW on \in BOOLEAN, Writing(t, on)
  PROVE  LET u == Written(AnswerWrite(t, "ok"), Head(t.next_reads))
         IN  /\ u \in Session /\ u.got = t.got /\ u.status = t.status
             /\ (Reading(u) /\ on) \/ Over(u, on)
<1>. DEFINE a == Answer(t, "write", "ok")
            w == AnswerWrite(t, "ok")
            b == [w EXCEPT !.output = 0]
            u == Written(w, Head(t.next_reads))
<1>1. a \in Session /\ a.ops = [t.ops EXCEPT !["write"] = @ - 1]
      /\ a.handshaked = t.handshaked /\ a.readable = t.readable /\ a.status = t.status
      /\ a.next_reads = t.next_reads /\ a.got = t.got
  <2>1. "write" \in Kinds /\ StatusAfter(t, "write", "ok") = t.status
        /\ Outstanding(t, "write")
    BY DEF Kinds, StatusAfter, Outstanding, Writing
  <2>. QED
    BY <2>1, AnswerEffect
<1>. HIDE DEF a
<1>2. Head(t.next_reads) = on /\ Tail(t.next_reads) = <<>> /\ <<>> \in Seq(BOOLEAN)
  BY DEF Writing
<1>3. w = [a EXCEPT !.next_reads = <<>>]
  BY <1>1, <1>2 DEF AnswerWrite, a, Session
<1>. HIDE DEF w
<1>4. b \in Session /\ b.ops = a.ops /\ b.handshaked = a.handshaked /\ b.output = 0
      /\ b.status = a.status /\ b.next_reads = <<>> /\ b.got = a.got
      /\ b.readable = a.readable
  <2>1. w \in Session /\ w.ops = a.ops /\ w.handshaked = a.handshaked
        /\ w.status = a.status /\ w.next_reads = <<>> /\ w.got = a.got
        /\ w.readable = a.readable
    BY <1>1, <1>2, <1>3 DEF Session
  <2>. QED
    BY <2>1 DEF Session
<1>5. w.readable
  BY <1>1, <1>2, <1>3 DEF Session, Writing
<1>6. u = IF on THEN DoRead(b) ELSE b
  BY <1>2, <1>5 DEF Written
<1>. HIDE DEF b, u
<1>7. b.ops["read"] = 0 /\ b.ops["write"] = 0 /\ b.ops["handshake"] = 0
  <2>1. t.ops \in [Kinds -> Nat]
    BY DEF Session
  <2>. QED
    BY <1>1, <1>4, <2>1 DEF Kinds, Writing, HasWebsocket
<1>8. Undecided(b) /\ b.got = t.got
  BY <1>1, <1>4, <1>7 DEF Writing, NoTransfer, Undecided, HasWebsocket
<1>9. u \in Session /\ u.got = t.got /\ ((Reading(u) /\ on) \/ Over(u, on))
  BY <1>4, <1>6, <1>8, DoReadReads DEF Over, Undecided
<1>10. u.status = t.status
  <2>1. DoRead(b).status = b.status
    BY <1>4 DEF DoRead, AsyncRead, Start, Session
  <2>. QED
    BY <1>1, <1>4, <1>6, <2>1
<1>. QED
  BY <1>9, <1>10 DEF u, w
-----------------------------------------------------------------------------
LEMMA InitIInv == Init => IInv
<1>. SUFFICES ASSUME Init PROVE IInv
  OBVIOUS
<1>1. <<>> \in Seq(BOOLEAN)
  OBVIOUS
<1>2. NewSession \in Session
  BY <1>1 DEF NewSession, Session, NoOps, NoSending, Kinds, Frames, Statuses
<1>3. Connecting(NewSession)
  BY DEF NewSession, NoOps, Kinds, Connecting, NoTransfer
<1>. QED
  BY <1>2, <1>3 DEF Init, IInv, TypeOK, StageInv, NewSession

(* Every handler is a script, and keeps to the discipline.                 *)
LEMMA HandlersType ==
  ASSUME NEW scripts \in SUBSET Script, NEW c \in Handlers(scripts)
  PROVE  c \in Script /\ (c \in scripts \/ c = Nothing)
<1>1. Nothing \in Script
  BY DEF Nothing, Script, FrameModes, Calls
<1>2. c \in scripts \/ c = Nothing
  BY DEF Handlers
<1>. QED
  BY <1>1, <1>2

LEMMA DisciplinedHandlers ==
  /\ \A c \in Handlers(App.handshake) \cup Handlers(App.message) :
       c \in Script /\ ~(c.out /\ c.read)
  /\ \A kind : \A c \in ControlHandler(kind) : c \in Script /\ ~c.out
  /\ NoHandshakeRace => Threads = 1 \/ \A c \in Handlers(App.handshake) : ~c.read
<1>1. App.handshake \in SUBSET Script /\ App.message \in SUBSET Script
      /\ App.ping \in SUBSET Script /\ App.pong \in SUBSET Script
      /\ App.close \in SUBSET Script /\ Disciplined
  BY AppAssumption DEF AppType
<1>2. ~Nothing.out /\ ~Nothing.read
  BY DEF Nothing
<1>3. \A c \in Handlers(App.handshake) \cup Handlers(App.message) :
        c \in Script /\ ~(c.out /\ c.read)
  BY <1>1, <1>2, HandlersType DEF Disciplined
<1>4. ASSUME NEW kind, NEW c \in ControlHandler(kind)
      PROVE  c \in Script /\ ~c.out
  <2>1. c \in App.ping \/ c \in App.pong \/ c \in Handlers(App.close)
    BY <1>4 DEF ControlHandler
  <2>. QED
    BY <1>1, <1>2, <2>1, HandlersType DEF Disciplined
<1>5. NoHandshakeRace => Threads = 1 \/ \A c \in Handlers(App.handshake) : ~c.read
  BY <1>1, <1>2, HandlersType DEF NoHandshakeRace
<1>. QED
  BY <1>3, <1>4, <1>5
-----------------------------------------------------------------------------
(* Which operation is answered tells the stage of the session; and a       *)
(* handler on the strand finds on_handshake done, or the session still     *)
(* deciding.                                                               *)
LEMMA WhichStage ==
  ASSUME IInv
  PROVE  /\ session \in Session
         /\ Connecting(session) \/ HasWebsocket(session)
         /\ connection # "made" => Connecting(session) /\ handshake_pc = "idle"
         /\ Outstanding(session, "handshake") =>
              Connecting(session) /\ handshake_pc = "idle" /\ session.status # "http"
         /\ Outstanding(session, "read") =>
              Reading(session) /\ wanted /\ session.status # "http"
              /\ (StrandRuns => handshake_pc = "idle")
         /\ Outstanding(session, "write") =>
              Writing(session, wanted) /\ handshake_pc = "idle" /\ session.status # "http"
<1>1. session \in Session /\ StageInv /\ (connection # "made" => session.status = "http")
  BY DEF IInv, TypeOK
<1>2. HasWebsocket(session) => session.status # "http"
  BY DEF HasWebsocket, Established
<1>3. CASE handshake_pc = "idle" /\ Connecting(session)
  BY <1>1, <1>3 DEF Connecting, NoTransfer, Outstanding
<1>4. CASE handshake_pc = "called" /\ Undecided(session)
  BY <1>1, <1>2, <1>4 DEF Undecided, HasWebsocket, NoTransfer, Outstanding
<1>5. CASE Reading(session) /\ wanted /\ (handshake_pc = "called" => Threads = 1)
  <2>1. StrandRuns => handshake_pc = "idle"
    BY <1>5, BoundsAssumption DEF StrandRuns, IInv, TypeOK
  <2>. QED
    BY <1>1, <1>2, <1>5, <2>1 DEF Reading, HasWebsocket, Outstanding
<1>6. CASE handshake_pc = "idle" /\ Writing(session, wanted)
  BY <1>1, <1>2, <1>6 DEF Writing, HasWebsocket, Outstanding
<1>7. CASE handshake_pc = "idle" /\ Over(session, wanted)
  BY <1>1, <1>2, <1>7 DEF Over, HasWebsocket, NoTransfer, Outstanding
<1>. QED
  BY <1>1, <1>3, <1>4, <1>5, <1>6, <1>7 DEF StageInv

(* A step that leaves the session in its stage, and everybody else alone.  *)
LEMMA SameKeepsIInv ==
  ASSUME IInv, SameStage(session, session'),
         session.status = "http" => session'.status = "http",
         UNCHANGED <<connection, handshake_pc, next_read, wanted>>
  PROVE  IInv'
<1>1. session \in Session
  BY DEF IInv, TypeOK
<1>2. \A on : /\ Connecting(session) => Connecting(session')
              /\ Undecided(session) => Undecided(session')
              /\ Reading(session) => Reading(session')
              /\ Writing(session, on) => Writing(session', on)
              /\ Over(session, on) => Over(session', on)
  BY <1>1, SameKeepsStage
<1>3. session'.output = session.output
  BY DEF SameStage
<1>4. StageInv'
  BY <1>2, <1>3 DEF IInv, StageInv
<1>. QED
  BY <1>4 DEF IInv, TypeOK, SameStage

(* A step on the strand that takes the session from one stage to another.  *)
LEMMA StrandKeepsIInv ==
  ASSUME IInv, session.status # "http", handshake_pc = "idle",
         UNCHANGED <<connection, handshake_pc, next_read>>,
         session' \in Session, wanted' \in BOOLEAN,
         (Reading(session') /\ wanted') \/ Writing(session', wanted') \/ Over(session', wanted')
  PROVE  IInv'
<1>1. StageInv'
  BY DEF StageInv
<1>2. session'.handshaked
  BY DEF Reading, Writing, Over, HasWebsocket
<1>. QED
  BY <1>1, <1>2 DEF IInv, TypeOK

(* on_write with an error.                                                 *)
LEMMA WriteFails ==
  ASSUME IInv, Writing(session, wanted), Outstanding(session, "write"),
         Completes("write", "fail"), session' = AnswerWrite(session, "fail")
  PROVE  session' \in Session /\ Over(session', wanted)
<1>. DEFINE a == Answer(session, "write", "fail")
<1>0. session \in Session /\ "write" \in Kinds /\ wanted \in BOOLEAN
      /\ session.next_reads = <<wanted>>
  BY DEF IInv, TypeOK, Kinds, Writing
<1>1. a.next_reads = session.next_reads /\ a \in Session
  BY <1>0, AnswerKeepsNextReads
<1>. HIDE DEF a
<1>2. Tail(a.next_reads) = <<>>
  BY <1>0, <1>1
<1>3. session' = [a EXCEPT !.next_reads = Tail(a.next_reads)]
  BY DEF AnswerWrite, a
<1>4. session' = [a EXCEPT !.next_reads = <<>>]
  BY <1>2, <1>3
<1>5. HasWebsocket(session) /\ session.ops["read"] + session.ops["write"] = 1
  BY DEF Writing
<1>6. "fail" \in Answers(session, "write")
  BY DEF Completes
<1>. QED
  BY <1>0, <1>4, <1>5, <1>6, TransferFails DEF a

(* A control frame is heard while a read is outstanding.                   *)
LEMMA HeardReads ==
  ASSUME session \in Session, Reading(session), NEW kind
  PROVE  Heard(kind) \in Session /\ Reading(Heard(kind)) /\ Later(session, Heard(kind))
<1>. DEFINE h == Heard(kind)
<1>1. h \in Session
  BY DEF Heard, Session, Statuses
<1>2. h.ops = session.ops /\ h.handshaked = session.handshaked /\ h.output = session.output
      /\ h.readable = session.readable /\ h.next_reads = session.next_reads
      /\ h.status \in {session.status, "closed"}
  BY DEF Heard, Session
<1>. HIDE DEF h
<1>3. Reading(h) /\ Later(session, h)
  BY <1>1, <1>2 DEF Reading, HasWebsocket, Established, Later
<1>. QED
  BY <1>1, <1>3 DEF h

LEMMA NextIInv ==
  ASSUME NoHandshakeRace, IInv, [Next]_vars
  PROVE  IInv'
<1>1. TypeOK /\ session \in Session /\ StageInv
      /\ (connection # "made" => session.status = "http")
      /\ (~session.handshaked \/ handshake_pc = "called" => session.got = "none")
  BY DEF IInv, TypeOK
<1>2. SameStage(session, session)
  BY <1>1, SameReflexive
<1>3. CASE Invoke
  BY <1>1, <1>3 DEF Invoke, IInv, TypeOK, StageInv
<1>4. CASE OnConnect
  <2>1. Connecting(session) /\ handshake_pc = "idle" /\ session.got = "none"
    BY <1>1, <1>4, WhichStage DEF OnConnect, Connecting
  <2>2. session.status = "http"
    BY <1>1, <1>4 DEF OnConnect
  <2>. DEFINE w == Start(session, "handshake")
              u == [w EXCEPT !.status = "handshaking"]
  <2>3. u \in Session /\ Connecting(u) /\ u.got = "none" /\ DoHandshake(session) = u
    <3>1. w \in Session /\ w = [session EXCEPT !.ops = [session.ops EXCEPT !["handshake"] = @ + 1]]
      BY <1>1, StartType DEF Kinds
    <3>2. w.ops = [session.ops EXCEPT !["handshake"] = @ + 1] /\ session.ops \in [Kinds -> Nat]
          /\ w.handshaked = session.handshaked /\ w.readable = session.readable
          /\ w.output = session.output /\ w.next_reads = session.next_reads
          /\ w.got = session.got
      BY <1>1, <3>1 DEF Session
    <3>3. DoHandshake(session) = u
      BY <2>1 DEF DoHandshake, AsyncHandshake, Connecting
    <3>. HIDE DEF w
    <3>4. u \in Session /\ u.ops = w.ops /\ u.handshaked = w.handshaked
          /\ u.readable = w.readable /\ u.output = w.output
          /\ u.next_reads = w.next_reads /\ u.got = w.got /\ u.status = "handshaking"
      BY <3>1 DEF Session, Statuses
    <3>. HIDE DEF u
    <3>5. u.ops["read"] = 0 /\ u.ops["write"] = 0 /\ u.ops["handshake"] = 1
      BY <2>1, <2>2, <3>2, <3>4 DEF Kinds, Connecting, NoTransfer
    <3>6. Connecting(u)
      BY <2>1, <3>2, <3>4, <3>5 DEF Connecting, NoTransfer
    <3>. QED
      BY <2>1, <3>2, <3>3, <3>4, <3>6
  <2>. HIDE DEF u
  <2>4. session' \in Session /\ Connecting(session') /\ session'.got = "none"
    BY <1>1, <1>4, <2>1, <2>3 DEF OnConnect
  <2>5. connection' \in {"made", "refused"} /\ (connection' # "made" => session'.status = "http")
    BY <1>4, <2>2 DEF OnConnect
  <2>. QED
    BY <1>1, <1>4, <2>1, <2>4, <2>5 DEF OnConnect, IInv, TypeOK, StageInv
<1>5. CASE OnHandshake
  <2>1. Connecting(session) /\ session.status # "http" /\ session.got = "none"
        /\ Outstanding(session, "handshake") /\ connection' = connection
        /\ connection = "made"
    BY <1>1, <1>5, WhichStage DEF OnHandshake, Connecting
  <2>2. ASSUME NEW c \in Handlers(App.handshake), handshake_pc' = "called",
               session' = Handshaked(Answer(session, "handshake", "ok"), c),
               next_read' = c.next_read, wanted' = Wants(c)
        PROVE  IInv'
    <3>1. c \in Script /\ ~(c.out /\ c.read) /\ (c.read => Threads = 1)
          /\ c.out \in BOOLEAN /\ c.read \in BOOLEAN /\ c.next_read \in BOOLEAN
      BY DisciplinedHandlers DEF Script
    <3>2. /\ session' \in Session /\ session'.got = "none"
          /\ IF c.read THEN Reading(session')
             ELSE Undecided(session') /\ session'.output = IF c.out THEN 1 ELSE 0
      BY <1>1, <2>1, <2>2, <3>1, HandshakeDone
    <3>3. StageInv'
      BY <2>2, <3>1, <3>2 DEF StageInv, Wants
    <3>4. Wants(c) \in BOOLEAN
      BY DEF Wants
    <3>. QED
      BY <1>1, <2>1, <2>2, <3>1, <3>2, <3>3, <3>4 DEF IInv, TypeOK
  <2>3. ASSUME session' = Answer(session, "handshake", "fail"),
               UNCHANGED <<handshake_pc, next_read, wanted>>
        PROVE  IInv'
    <3>1. session' \in Session /\ Connecting(session') /\ session'.got = "none"
      BY <1>1, <2>1, <2>3, HandshakeFails
    <3>. QED
      BY <1>1, <1>5, <2>1, <2>3, <3>1 DEF IInv, TypeOK, StageInv, OnHandshake
  <2>. QED
    BY <1>5, <2>2, <2>3 DEF OnHandshake
<1>6. CASE HandshakeEnd
  <2>1. /\ session' = WriteIfAny(session, next_read) /\ handshake_pc' = "idle"
        /\ connection' = connection /\ next_read' = next_read /\ wanted' = wanted
        /\ next_read \in BOOLEAN /\ wanted \in BOOLEAN
        /\ session.got = "none" /\ connection = "made"
    BY <1>1, <1>6, WhichStage DEF HandshakeEnd, TypeOK
  <2>2. ASSUME Undecided(session), wanted <=> session.output > 0 /\ next_read
        PROVE  session' \in Session /\ (Writing(session', wanted) \/ Over(session', wanted))
    <3>1. FrameIfAuto(session, session.frame)
      BY <2>1 DEF FrameIfAuto
    <3>2. wanted = (session.output > 0 /\ next_read)
      BY <2>1, <2>2
    <3>. QED
      BY <1>1, <2>1, <2>2, <3>1, <3>2, WriteIfAnyDecides
  <2>3. Reading(session) => session' = session
    BY <2>1 DEF WriteIfAny, Reading
  <2>4. session' \in Session
        /\ ((Reading(session') /\ wanted) \/ Writing(session', wanted) \/ Over(session', wanted))
    BY <1>1, <1>6, <2>2, <2>3 DEF StageInv, HandshakeEnd
  <2>5. session'.handshaked
    BY <2>4 DEF Reading, Writing, Over, HasWebsocket
  <2>. QED
    BY <1>1, <2>1, <2>4, <2>5 DEF IInv, TypeOK, StageInv
<1>7. CASE OnRead
  <2>1. Reading(session) /\ session.status # "http" /\ handshake_pc = "idle"
        /\ UNCHANGED <<connection, handshake_pc, next_read>>
        /\ Outstanding(session, "read") /\ wanted \in BOOLEAN
    BY <1>1, <1>7, WhichStage DEF OnRead, Completes, TypeOK
  <2>2. ASSUME NEW got \in Frames, NEW c \in Handlers(App.message), wanted' = Wants(c),
               session' = Received(Answer(session, "read", "ok"), got, c)
        PROVE  IInv'
    <3>1. c \in Script /\ ~(c.out /\ c.read)
      BY DisciplinedHandlers
    <3>2. session' \in Session
          /\ ((Reading(session') /\ Wants(c)) \/ Writing(session', Wants(c))
              \/ Over(session', Wants(c)))
      BY <1>1, <2>1, <2>2, <3>1, ReadDone
    <3>3. Wants(c) \in BOOLEAN
      BY DEF Wants
    <3>. QED
      BY <2>1, <2>2, <3>2, <3>3, StrandKeepsIInv
  <2>3. ASSUME NEW ec \in {"closed", "fail"}, Completes("read", ec),
               session' = Answer(session, "read", ec), wanted' = wanted
        PROVE  IInv'
    <3>k. "read" \in Kinds /\ Outstanding(session, "read") /\ session.next_reads = <<>>
      BY <2>1 DEF Kinds, Reading, Outstanding
    <3>s. session \in Session
      BY <1>1
    <3>1. Answer(session, "read", ec) \in Session
          /\ Answer(session, "read", ec).next_reads = <<>>
      BY <3>k, <3>s, AnswerKeepsNextReads
    <3>2. session' = [Answer(session, "read", ec) EXCEPT !.next_reads = <<>>]
      BY <2>3, <3>1 DEF Session
    <3>3. session' \in Session /\ Over(session', wanted)
      <4>1. HasWebsocket(session) /\ session.ops["read"] + session.ops["write"] = 1
        BY <2>1 DEF Reading
      <4>2. ec \in Answers(session, "read") /\ ec # "ok"
        BY <2>3 DEF Completes
      <4>. QED
        BY <1>1, <2>1, <3>2, <4>1, <4>2, TransferFails
    <3>. QED
      BY <2>1, <2>3, <3>3, StrandKeepsIInv
  <2>. QED
    BY <1>7, <2>2, <2>3 DEF OnRead
<1>8. CASE OnWrite
  <2>1. Writing(session, wanted) /\ session.status # "http" /\ handshake_pc = "idle"
        /\ UNCHANGED <<connection, handshake_pc, next_read, wanted>>
        /\ Outstanding(session, "write") /\ wanted \in BOOLEAN
    BY <1>1, <1>8, WhichStage DEF OnWrite, Completes, TypeOK
  <2>2. ASSUME session' = Written(AnswerWrite(session, "ok"), Head(session.next_reads))
        PROVE  IInv'
    BY <1>1, <2>1, <2>2, WriteDone, StrandKeepsIInv
  <2>3. ASSUME Completes("write", "fail"), session' = AnswerWrite(session, "fail")
        PROVE  IInv'
    <3>1. session' \in Session /\ Over(session', wanted)
      BY <2>1, <2>3, WriteFails
    <3>. QED
      BY <2>1, <3>1, StrandKeepsIInv
  <2>. QED
    BY <1>8, <2>2, <2>3 DEF OnWrite
<1>9. CASE OnPing \/ OnPong \/ OnClose
  <2>1. PICK k \in {"ping", "pong", "close"}, ec \in {"ok", "fail"} :
          Completes(k, ec) /\ session' = Answer(session, k, ec) /\ wanted' = wanted
    BY <1>9 DEF OnPing, OnPong, OnClose, OnSent
  <2>2. SameStage(session, session')
    BY <1>1, <2>1, WhichStage, SentSame DEF Completes
  <2>3. session.status = "http" => session'.status = "http"
    <3>1. session.status = "http" => ec = "fail"
      BY <2>1 DEF Completes, Answers
    <3>2. session'.status = StatusAfter(session, k, ec)
      <4>1. k \in Kinds /\ Outstanding(session, k)
        BY <2>1 DEF Kinds, Completes
      <4>2. Answered(session, k, ec, Answer(session, k, ec))
        BY <1>1, <4>1, AnswerGives
      <4>3. Answer(session, k, ec).status = StatusAfter(session, k, ec)
        BY <4>2 DEF Answered
      <4>. QED
        BY <2>1, <4>3
    <3>. QED
      BY <3>1, <3>2 DEF StatusAfter
  <2>. QED
    BY <2>1, <2>2, <2>3, SameKeepsIInv DEF Completes
<1>10. ASSUME NEW kind \in {"ping", "pong", "close"}, OnControl(kind)
       PROVE  IInv'
  <2>1. Reading(session) /\ wanted /\ session.status # "http" /\ handshake_pc = "idle"
        /\ UNCHANGED <<connection, handshake_pc, next_read, wanted>>
    BY <1>10, WhichStage DEF OnControl
  <2>2. Heard(kind) \in Session /\ Reading(Heard(kind))
    BY <1>1, <2>1, HeardReads
  <2>3. PICK c \in ControlHandler(kind) : session' = UserHandler(Heard(kind), c)
    BY <1>10 DEF OnControl
  <2>4. session' \in Session /\ Reading(session')
    BY <2>2, <2>3, DisciplinedHandlers, UserHandlerReadsOn
  <2>. QED
    BY <1>1, <2>1, <2>4, StrandKeepsIInv DEF TypeOK
<1>11. CASE NetworkFails
  <2>. DEFINE u == [session EXCEPT !.status = "failed"]
  <2>1. u \in Session /\ u.handshaked = session.handshaked /\ u.readable = session.readable
        /\ u.output = session.output /\ u.next_reads = session.next_reads
        /\ u.sending = session.sending /\ u.got = session.got /\ u.ops = session.ops
        /\ u.auto_frame = session.auto_frame /\ u.status = "failed"
    BY <1>1 DEF Session, Statuses
  <2>2. session' = u /\ session.status # "http"
    BY <1>11 DEF NetworkFails
  <2>. HIDE DEF u
  <2>3. SameStage(session, session')
    BY <2>1, <2>2 DEF SameStage
  <2>. QED
    BY <1>11, <2>2, <2>3, SameKeepsIInv DEF NetworkFails
<1>12. CASE UNCHANGED vars
  BY <1>2, <1>12, SameKeepsIInv DEF vars
<1>. QED
  BY <1>3, <1>4, <1>5, <1>6, <1>7, <1>8, <1>9, <1>10, <1>11, <1>12 DEF Next, Ended
-----------------------------------------------------------------------------
LEMMA IInvCorrect ==
  ASSUME IInv
  PROVE  TransferInv /\ AnswerHasItsFrame
<1>1. session \in Session /\ StageInv /\ wanted \in BOOLEAN
  BY DEF IInv, TypeOK
<1>2. Len(<<>>) = 0 /\ Len(<<wanted>>) = 1 /\ Head(<<wanted>>) = wanted
  OBVIOUS
<1>. DEFINE Head1 == Writes > 0 => (Head(session.next_reads) <=> wanted)
            Called == handshake_pc = "called" =>
                        /\ Writes = 0
                        /\ wanted <=> (Reads = 1 \/ (session.output > 0 /\ next_read))
            Rest == /\ OneTransfer /\ OutputIntact /\ AnswerHasItsFrame
                    /\ ~session.handshaked =>
                         /\ Reads = 0 /\ Writes = 0 /\ session.output = 0 /\ session.readable
                         /\ session.status \in {"http", "handshaking", "failed"}
                         /\ handshake_pc = "idle"
                    /\ session.handshaked =>
                         /\ session.ops["handshake"] = 0
                         /\ session.status \in Established
                    /\ session.ops["handshake"] <= 1
                    /\ session.status = "http" => session.ops["handshake"] = 0
                    /\ session.readable => Reads = 0
                    /\ Writes > 0 => session.readable
                    /\ Reads > 0 => session.output = 0
                    /\ Len(session.next_reads) = Writes
                    /\ session.handshaked /\ session.status = "open"
                         => session.readable \/ Reads = 1
<1>. SUFFICES Rest /\ GoesOnAsWanted /\ Head1 /\ Called /\ (Reads > 0 => wanted)
  BY DEF TransferInv, FlagsInv, Established
<1>3. CASE handshake_pc = "idle" /\ Connecting(session)
  <2>1. Reads = 0 /\ Writes = 0 /\ Len(session.next_reads) = 0 /\ ~session.handshaked
        /\ session.status # "open" /\ handshake_pc # "called"
    BY <1>2, <1>3 DEF Connecting, NoTransfer, Reads, Writes
  <2>2. Rest
    BY <1>3, <2>1 DEF Connecting, OneTransfer, OutputIntact, AnswerHasItsFrame
  <2>3. ~(Reads > 0) /\ ~(Writes > 0)
    BY <2>1
  <2>. HIDE DEF Rest
  <2>. QED
    BY <1>3, <2>1, <2>2, <2>3, Zenon DEF GoesOnAsWanted
<1>4. CASE handshake_pc = "called" /\ Undecided(session)
           /\ (wanted <=> session.output > 0 /\ next_read)
  <2>1. Reads = 0 /\ Writes = 0 /\ Len(session.next_reads) = 0 /\ session.handshaked
        /\ session.readable
    BY <1>2, <1>4 DEF Undecided, HasWebsocket, NoTransfer, Reads, Writes
  <2>2. Rest
    BY <1>4, <2>1 DEF Undecided, HasWebsocket, Established, OneTransfer, OutputIntact,
                      AnswerHasItsFrame
  <2>3. ~(Reads > 0) /\ ~(Writes > 0) /\ Reads # 1
    BY <2>1
  <2>. HIDE DEF Rest
  <2>. QED
    BY <1>4, <2>1, <2>2, <2>3, Zenon DEF GoesOnAsWanted
<1>5. CASE Reading(session) /\ wanted
  <2>1. Reads = 1 /\ Writes = 0 /\ Len(session.next_reads) = 0 /\ session.handshaked
        /\ ~session.readable /\ session.output = 0
    BY <1>2, <1>5 DEF Reading, HasWebsocket, Reads, Writes
  <2>2. Rest
    BY <1>5, <2>1 DEF Reading, HasWebsocket, Established, OneTransfer, OutputIntact,
                      AnswerHasItsFrame
  <2>3. ~(Writes > 0) /\ Reads + Writes = 1
    BY <2>1
  <2>. HIDE DEF Rest
  <2>. QED
    BY <1>5, <2>1, <2>2, <2>3, Zenon DEF GoesOnAsWanted
<1>6. CASE handshake_pc = "idle" /\ Writing(session, wanted)
  <2>1. Reads = 0 /\ Writes = 1 /\ Len(session.next_reads) = 1 /\ session.handshaked
        /\ session.readable /\ Head(session.next_reads) = wanted
    BY <1>2, <1>6 DEF Writing, HasWebsocket, Reads, Writes
  <2>2. Rest
    BY <1>6, <2>1 DEF Writing, HasWebsocket, Established, OneTransfer, OutputIntact,
                      AnswerHasItsFrame, FrameIfAuto
  <2>3. ~(Reads > 0) /\ Reads + Writes = 1
    BY <2>1
  <2>. HIDE DEF Rest
  <2>. QED
    BY <1>6, <2>1, <2>2, <2>3, Zenon DEF GoesOnAsWanted
<1>7. CASE handshake_pc = "idle" /\ Over(session, wanted)
  <2>1. Reads = 0 /\ Writes = 0 /\ Len(session.next_reads) = 0 /\ session.handshaked
        /\ (session.status = "open" => ~wanted /\ session.readable)
    BY <1>2, <1>7 DEF Over, HasWebsocket, NoTransfer, Reads, Writes
  <2>2. Rest
    BY <1>7, <2>1 DEF Over, HasWebsocket, Established, OneTransfer, OutputIntact,
                      AnswerHasItsFrame
  <2>3. ~(Reads > 0) /\ ~(Writes > 0)
    BY <2>1
  <2>. HIDE DEF Rest
  <2>. QED
    BY <1>7, <2>1, <2>2, <2>3, Zenon DEF GoesOnAsWanted
<1>. QED
  BY <1>1, <1>3, <1>4, <1>5, <1>6, <1>7 DEF StageInv

LEMMA IInvHolds ==
  ASSUME NoHandshakeRace
  PROVE  Spec => []IInv
<1>1. IInv /\ [Next]_vars => IInv'
  BY NextIInv
<1>. QED
  BY <1>1, InitIInv, PTL DEF Spec

(* The session keeps its shape: no operation is answered that is not       *)
(* outstanding, and the chunks in the buffer are counted by numbers.       *)
THEOREM TypeCorrect ==
  ASSUME NoHandshakeRace
  PROVE  Spec => []TypeOK
BY IInvHolds, PTL DEF IInv

(* At most one read or write is outstanding, the buffer being written is   *)
(* not appended to, and an open session goes on exactly as its last        *)
(* handler asked: do_read, do_write, on_read, on_write and on_handshake.   *)
THEOREM TransfersCorrect ==
  ASSUME NoHandshakeRace
  PROVE  Spec => []TransferInv
<1>1. IInv => TransferInv
  BY IInvCorrect
<1>. QED
  BY <1>1, IInvHolds, PTL

(* With automatic frames an answer has the frame type of the message       *)
(* on_read answers, whatever frame the application chose before.           *)
THEOREM FramesMatch ==
  ASSUME NoHandshakeRace
  PROVE  Spec => []AnswerHasItsFrame
<1>1. IInv => AnswerHasItsFrame
  BY IInvCorrect
<1>. QED
  BY <1>1, IInvHolds, PTL
-----------------------------------------------------------------------------
(* A client session implements Conversation: whatever its handlers and     *)
(* control frames do, it takes turns with its peer for as long as they     *)
(* want a next message, and what is over stays over.                       *)

(* A step of Conversation, or a stutter, between the turns a and b, while  *)
(* x and y tell whether the connection is up.                              *)
TalkStep(a, x, b, y) ==
  \/ b = a /\ (y <=> x)
  \/ b = a /\ ~y
  \/ a \in {"connecting", "receiving"} /\ b \in {"sending", "receiving"}
     /\ (a = "receiving" /\ y => x)
  \/ a \in {"connecting", "receiving"} /\ b = "over" /\ ~y
  \/ a = "sending" /\ b = "receiving" /\ (y <=> x)
  \/ a = "sending" /\ b = "over" /\ ~x /\ ~y

LEMMA TalkStepIsNext ==
  ASSUME TalkStep(Turn, GoingOn, Turn', GoingOn'),
         GoingOn \in BOOLEAN, GoingOn' \in BOOLEAN
  PROVE  [Talk!Next]_(Talk!vars)
<1>1. Talk!vars = <<Turn, GoingOn>> /\ Talk!vars' = <<Turn', GoingOn'>>
  BY DEF Talk!vars
<1>2. CASE Turn' = Turn /\ (GoingOn' <=> GoingOn)
  BY <1>1, <1>2
<1>3. CASE Turn' = Turn /\ ~GoingOn'
  BY <1>3 DEF Talk!Next, Talk!GoDown
<1>4. CASE Turn = "connecting" /\ Turn' \in {"sending", "receiving", "over"}
           /\ (Turn' = "over" => ~GoingOn')
  BY <1>4 DEF Talk!Next, Talk!Open, Talk!GoOn
<1>5. CASE Turn = "receiving" /\ Turn' \in {"sending", "receiving", "over"}
           /\ (Turn' = "over" => ~GoingOn') /\ (GoingOn' => GoingOn)
  BY <1>5 DEF Talk!Next, Talk!Take, Talk!GoOn
<1>6. CASE Turn = "sending" /\ Turn' = "receiving" /\ (GoingOn' <=> GoingOn)
  BY <1>6 DEF Talk!Next, Talk!Sent
<1>7. CASE Turn = "sending" /\ Turn' = "over" /\ ~GoingOn /\ ~GoingOn'
  BY <1>7 DEF Talk!Next, Talk!End
<1>. QED
  BY <1>2, <1>3, <1>4, <1>5, <1>6, <1>7 DEF TalkStep

(* What the turn of a session is in each stage.                            *)
TurnOf(t, pc) ==
  IF ~t.handshaked \/ pc = "called" THEN "connecting"
  ELSE IF t.ops["write"] > 0 THEN "sending"
  ELSE IF t.ops["read"] > 0 THEN "receiving" ELSE "over"

GoesOn(t, pc, on) == t.status = "open" /\ on /\ pc = "idle"

LEMMA TurnIsTurnOf ==
  /\ Turn = TurnOf(session, handshake_pc)
  /\ Turn' = TurnOf(session', handshake_pc')
  /\ GoingOn = GoesOn(session, handshake_pc, wanted)
  /\ GoingOn' = GoesOn(session', handshake_pc', wanted')
BY DEF Turn, TurnOf, GoingOn, GoesOn, Reads, Writes

LEMMA TurnOfStage ==
  ASSUME NEW t, NEW on
  PROVE  /\ Reading(t) => TurnOf(t, "idle") = "receiving"
         /\ Writing(t, on) => TurnOf(t, "idle") = "sending"
         /\ Over(t, on) => TurnOf(t, "idle") = "over" /\ ~GoesOn(t, "idle", on)
BY DEF Reading, Writing, Over, HasWebsocket, NoTransfer, TurnOf, GoesOn

(* Until on_handshake is done nothing is said, and afterwards only a       *)
(* session that does not go on is over.                                    *)
Staged(t, pc, on, next) ==
  \/ pc = "idle" /\ Connecting(t)
  \/ pc = "called" /\ Undecided(t) /\ (on <=> t.output > 0 /\ next)
  \/ Reading(t) /\ on /\ (pc = "called" => Threads = 1)
  \/ pc = "idle" /\ Writing(t, on)
  \/ pc = "idle" /\ Over(t, on)

LEMMA StagedTurn ==
  ASSUME NEW t, NEW pc \in {"idle", "called"}, NEW on, NEW next, Staged(t, pc, on, next)
  PROVE  /\ TurnOf(t, pc) \in {"connecting", "sending", "receiving", "over"}
         /\ TurnOf(t, pc) \in {"connecting", "over"} => ~GoesOn(t, pc, on)
         /\ TurnOf(t, pc) = "connecting" => ~t.handshaked \/ pc = "called"
<1>1. CASE pc = "called"
  BY <1>1 DEF TurnOf, GoesOn
<1>2. CASE pc = "idle" /\ Connecting(t)
  BY <1>2 DEF Connecting, TurnOf, GoesOn
<1>3. CASE pc = "idle" /\ ~Connecting(t)
  <2>1. Reading(t) \/ Writing(t, on) \/ Over(t, on)
    BY <1>3 DEF Staged
  <2>. QED
    BY <1>3, <2>1, TurnOfStage
<1>. QED
  BY <1>1, <1>2, <1>3

(* What a step does to the turn of a session whose on_handshake is done.   *)
LEMMA SameTalks ==
  ASSUME NEW t, NEW u, SameStage(t, u), NEW on
  PROVE  TalkStep(TurnOf(t, "idle"), GoesOn(t, "idle", on),
                  TurnOf(u, "idle"), GoesOn(u, "idle", on))
BY DEF SameStage, TalkStep, TurnOf, GoesOn

LEMMA ReadTalks ==
  ASSUME NEW t, NEW u, NEW on, Reading(t), Later(t, u),
         (Reading(u) /\ on) \/ Writing(u, on) \/ Over(u, on)
  PROVE  TalkStep(TurnOf(t, "idle"), GoesOn(t, "idle", TRUE),
                  TurnOf(u, "idle"), GoesOn(u, "idle", on))
<1>1. TurnOf(t, "idle") = "receiving"
  BY TurnOfStage
<1>2. GoesOn(u, "idle", on) => GoesOn(t, "idle", TRUE)
  BY DEF GoesOn, Later
<1>3. \/ TurnOf(u, "idle") \in {"sending", "receiving"}
      \/ TurnOf(u, "idle") = "over" /\ ~GoesOn(u, "idle", on)
  BY TurnOfStage
<1>. QED
  BY <1>1, <1>2, <1>3 DEF TalkStep

LEMMA WriteTalks ==
  ASSUME NEW t, NEW u, NEW on, Writing(t, on),
         Over(u, on) \/ (Reading(u) /\ u.status = t.status),
         Over(u, on) => ~on \/ t.status # "open"
  PROVE  TalkStep(TurnOf(t, "idle"), GoesOn(t, "idle", on),
                  TurnOf(u, "idle"), GoesOn(u, "idle", on))
<1>1. TurnOf(t, "idle") = "sending"
  BY TurnOfStage
<1>2. CASE Over(u, on)
  <2>1. TurnOf(u, "idle") = "over" /\ ~GoesOn(u, "idle", on) /\ ~GoesOn(t, "idle", on)
    BY <1>2, TurnOfStage DEF GoesOn
  <2>. QED
    BY <1>1, <2>1 DEF TalkStep
<1>3. CASE Reading(u) /\ u.status = t.status
  <2>1. TurnOf(u, "idle") = "receiving"
        /\ (GoesOn(u, "idle", on) <=> GoesOn(t, "idle", on))
    BY <1>3, TurnOfStage DEF GoesOn
  <2>. QED
    BY <1>1, <2>1 DEF TalkStep
<1>. QED
  BY <1>2, <1>3

LEMMA NextTalks ==
  ASSUME NoHandshakeRace, IInv, IInv', [Next]_vars
  PROVE  [Talk!Next]_(Talk!vars)
<1>. DEFINE a == TurnOf(session, handshake_pc)
            x == GoesOn(session, handshake_pc, wanted)
            b == TurnOf(session', handshake_pc')
            y == GoesOn(session', handshake_pc', wanted')
<1>0. GoingOn \in BOOLEAN /\ GoingOn' \in BOOLEAN
  BY DEF GoingOn, IInv, TypeOK
<1>. SUFFICES TalkStep(a, x, b, y)
  BY <1>0, TalkStepIsNext, TurnIsTurnOf
<1>1. /\ session \in Session /\ session' \in Session
      /\ wanted \in BOOLEAN /\ wanted' \in BOOLEAN
      /\ handshake_pc \in {"idle", "called"} /\ handshake_pc' \in {"idle", "called"}
  BY DEF IInv, TypeOK
<1>2. /\ Staged(session, handshake_pc, wanted, next_read)
      /\ Staged(session', handshake_pc', wanted', next_read')
  BY DEF IInv, StageInv, Staged
<1>3. CASE a = "connecting"
  <2>1. ~x /\ b \in {"connecting", "sending", "receiving", "over"}
        /\ (b \in {"connecting", "over"} => ~y)
    BY <1>1, <1>2, <1>3, StagedTurn
  <2>. HIDE DEF a, b, x, y
  <2>. QED
    BY <1>3, <2>1 DEF TalkStep
<1>4. CASE a # "connecting"
  <2>1. handshake_pc = "idle" /\ session.handshaked
    BY <1>1, <1>4 DEF TurnOf
  <2>2. ~Connecting(session) /\ session.status # "http"
        /\ (Outstanding(session, "handshake") => FALSE) /\ connection = "made"
    BY <2>1, WhichStage DEF Connecting, HasWebsocket, Established
  <2>3. CASE OnRead
    <3>1. /\ Reading(session) /\ wanted /\ handshake_pc' = "idle"
          /\ Outstanding(session, "read")
      BY <2>1, <2>3, WhichStage DEF OnRead, Completes
    <3>2. ASSUME NEW got \in Frames, NEW c \in Handlers(App.message), wanted' = Wants(c),
                 session' = Received(Answer(session, "read", "ok"), got, c)
          PROVE  TalkStep(a, x, b, y)
      <4>1. c \in Script /\ ~(c.out /\ c.read)
        BY DisciplinedHandlers
      <4>2. Later(session, session')
            /\ ((Reading(session') /\ wanted') \/ Writing(session', wanted')
                \/ Over(session', wanted'))
        BY <1>1, <3>1, <3>2, <4>1, ReadDone
      <4>3. TalkStep(TurnOf(session, "idle"), GoesOn(session, "idle", TRUE),
                     TurnOf(session', "idle"), GoesOn(session', "idle", wanted'))
        BY <3>1, <4>2, ReadTalks
      <4>4. wanted = TRUE
        BY <1>1, <3>1
      <4>. QED
        BY <2>1, <3>1, <4>3, <4>4
    <3>3. ASSUME NEW ec \in {"closed", "fail"}, Completes("read", ec),
                 session' = Answer(session, "read", ec), wanted' = wanted
          PROVE  TalkStep(a, x, b, y)
      <4>1. session.status # "open"
        BY <3>3 DEF Completes, Answers
      <4>2. /\ session'.status = StatusAfter(session, "read", ec)
            /\ session'.handshaked = session.handshaked
        <5>1. "read" \in Kinds
          BY DEF Kinds
        <5>2. /\ Answer(session, "read", ec).status = StatusAfter(session, "read", ec)
              /\ Answer(session, "read", ec).handshaked = session.handshaked
          BY <1>1, <3>1, <5>1, AnswerStatus
        <5>. QED
          BY <3>3, <5>2
      <4>3. session'.status # "open"
        BY <4>1, <4>2 DEF StatusAfter
      <4>4. ~x /\ ~y
        BY <4>1, <4>3 DEF GoesOn
      <4>5. a = "receiving"
        BY <2>1, <3>1, TurnOfStage
      <4>6. b \in {"connecting", "sending", "receiving", "over"}
        BY <1>1, <1>2, StagedTurn
      <4>7. b # "connecting"
        BY <2>1, <3>1, <4>2 DEF TurnOf
      <4>. HIDE DEF a, b, x, y
      <4>. QED
        BY <4>4, <4>5, <4>6, <4>7 DEF TalkStep
    <3>. QED
      BY <2>3, <3>2, <3>3 DEF OnRead
  <2>4. CASE OnWrite
    <3>1. /\ Writing(session, wanted) /\ handshake_pc' = "idle" /\ wanted' = wanted
          /\ Outstanding(session, "write")
      BY <2>1, <2>4, WhichStage DEF OnWrite, Completes
    <3>2. ASSUME session' = Written(AnswerWrite(session, "ok"), Head(session.next_reads))
          PROVE  TalkStep(a, x, b, y)
      <4>1. session'.status = session.status
            /\ (Reading(session') \/ Over(session', wanted))
        BY <1>1, <3>1, <3>2, WriteDone
      <4>2. Over(session', wanted) => ~wanted \/ session.status # "open"
        BY <4>1 DEF Over
      <4>3. TalkStep(TurnOf(session, "idle"), GoesOn(session, "idle", wanted),
                     TurnOf(session', "idle"), GoesOn(session', "idle", wanted))
        BY <3>1, <4>1, <4>2, WriteTalks
      <4>. QED
        BY <2>1, <3>1, <4>3
    <3>3. ASSUME Completes("write", "fail"), session' = AnswerWrite(session, "fail")
          PROVE  TalkStep(a, x, b, y)
      <4>1. session.status # "open"
        BY <3>3 DEF Completes, Answers
      <4>2. Over(session', wanted)
        BY <1>1, <2>1, <3>1, <3>3, WriteFails
      <4>3. TalkStep(TurnOf(session, "idle"), GoesOn(session, "idle", wanted),
                     TurnOf(session', "idle"), GoesOn(session', "idle", wanted))
        BY <3>1, <4>1, <4>2, WriteTalks
      <4>. QED
        BY <2>1, <3>1, <4>3
    <3>. QED
      BY <2>4, <3>2, <3>3 DEF OnWrite
  <2>5. CASE OnPing \/ OnPong \/ OnClose
    <3>1. PICK k \in {"ping", "pong", "close"}, ec \in {"ok", "fail"} :
            Completes(k, ec) /\ session' = Answer(session, k, ec) /\ wanted' = wanted
      BY <2>5 DEF OnPing, OnPong, OnClose, OnSent
    <3>2. SameStage(session, session') /\ handshake_pc' = handshake_pc
      BY <1>1, <3>1, WhichStage, SentSame DEF Completes
    <3>. QED
      BY <2>1, <3>1, <3>2, SameTalks
  <2>6. ASSUME NEW kind \in {"ping", "pong", "close"}, OnControl(kind)
        PROVE  TalkStep(a, x, b, y)
    <3>1. Reading(session) /\ wanted /\ handshake_pc' = "idle" /\ wanted' = wanted
      BY <2>1, <2>6, WhichStage DEF OnControl
    <3>2. PICK c \in ControlHandler(kind) : session' = UserHandler(Heard(kind), c)
      BY <2>6 DEF OnControl
    <3>3. Heard(kind) \in Session /\ Reading(Heard(kind)) /\ Later(session, Heard(kind))
      BY <1>1, <3>1, HeardReads
    <3>4. Reading(session') /\ Later(Heard(kind), session')
      BY <3>2, <3>3, DisciplinedHandlers, UserHandlerReadsOn
    <3>5. Later(session, session')
      BY <3>3, <3>4 DEF Later
    <3>6. TalkStep(TurnOf(session, "idle"), GoesOn(session, "idle", TRUE),
                   TurnOf(session', "idle"), GoesOn(session', "idle", wanted'))
      BY <3>1, <3>4, <3>5, ReadTalks
    <3>7. wanted = TRUE
      BY <1>1, <3>1
    <3>. QED
      BY <2>1, <3>1, <3>6, <3>7
  <2>7. CASE NetworkFails
    <3>1. session'.status = "failed" /\ session'.handshaked = session.handshaked
          /\ session'.ops = session.ops /\ handshake_pc' = handshake_pc
      BY <1>1, <2>7 DEF NetworkFails, Session
    <3>2. b = a /\ ~y
      BY <3>1 DEF TurnOf, GoesOn
    <3>. HIDE DEF a, b, x, y
    <3>. QED
      BY <3>2 DEF TalkStep
  <2>8. CASE UNCHANGED vars
    <3>1. b = a /\ y = x
      BY <2>8 DEF vars
    <3>. HIDE DEF a, b, x, y
    <3>. QED
      BY <3>1 DEF TalkStep
  <2>9. ~Invoke /\ ~OnConnect /\ ~OnHandshake /\ ~HandshakeEnd
    BY <2>1, <2>2 DEF Invoke, OnConnect, OnHandshake, HandshakeEnd
  <2>. QED
    BY <2>3, <2>4, <2>5, <2>6, <2>7, <2>8, <2>9 DEF Next, Ended
<1>. QED
  BY <1>3, <1>4

(* session<false> implements Conversation: its handlers may leave, and     *)
(* until they do, and the websocket is open, it takes turns with its peer; *)
(* a session that ended is not revived by what is still answered.          *)
THEOREM ImplementsConversation ==
  ASSUME NoHandshakeRace
  PROVE  Spec => TakesTurns
<1>1. Init => Talk!Init
  BY DEF Init, NewSession, Talk!Init, Turn, GoingOn
<1>2. IInv /\ IInv' /\ [Next]_vars => [Talk!Next]_(Talk!vars)
  BY NextTalks
<1>. QED
  BY <1>1, <1>2, IInvHolds, PTL DEF Spec, TakesTurns, Talk!Spec
=============================================================================
