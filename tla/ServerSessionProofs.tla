------------------------ MODULE ServerSessionProofs ------------------------
(***************************************************************************)
(* What the session never does, and that it implements Conversation, for   *)
(* every application that is Disciplined, any number of threads and any    *)
(* bounds.                                                                 *)
(***************************************************************************)
EXTENDS ServerSession, TLAPS

(* Of what the operations change, these parts decide who reads and writes. *)
(* Everything but do_read, do_write and the user's output leaves them      *)
(* alone, except that an open stream may start to close.                   *)
SameTransfers(t, u) ==
  /\ u \in Session
  /\ u.accepted = t.accepted /\ u.readable = t.readable
  /\ u.output = t.output /\ u.sending = t.sending /\ u.got = t.got
  /\ u.ops["read"] = t.ops["read"] /\ u.ops["write"] = t.ops["write"]
  /\ u.ops["handshake"] = t.ops["handshake"]
  /\ u.status = t.status \/ (t.status = "open" /\ u.status = "closing")

(* Starting an operation keeps a session a session.                        *)
LEMMA StartType ==
  ASSUME NEW t \in Session, NEW k \in Kinds
  PROVE  /\ Start(t, k) \in Session
         /\ Start(t, k) = [t EXCEPT !.ops = [t.ops EXCEPT ![k] = @ + 1]]
BY DEF Start, Session

(* expires_after and async_wait touch nothing but the timer.               *)
LEMMA ExpiresAfterSame ==
  ASSUME NEW t \in Session
  PROVE  SameTransfers(t, ExpiresAfter(t))
<1>1. t.due \in Nat /\ t.waits \in Nat
  BY DEF Session
<1>2. t.due + t.waits \in Nat
  BY <1>1
<1>3. ExpiresAfter(t) \in Session
  BY <1>2 DEF ExpiresAfter, Session, Deadlines
<1>. QED
  BY <1>3 DEF ExpiresAfter, SameTransfers, Session

LEMMA AsyncWaitSame ==
  ASSUME NEW t \in Session
  PROVE  SameTransfers(t, AsyncWait(t))
<1>1. t.due \in Nat /\ t.waits \in Nat /\ t.due + 1 \in Nat /\ t.waits + 1 \in Nat
  BY DEF Session
<1>2. CASE t.deadline = "expired"
  <2>1. AsyncWait(t) = [t EXCEPT !.waits = t.waits, !.due = t.due + 1]
    BY <1>2 DEF AsyncWait, Session
  <2>. QED
    BY <1>1, <2>1 DEF SameTransfers, Session
<1>3. CASE t.deadline # "expired"
  <2>1. AsyncWait(t) = [t EXCEPT !.waits = t.waits + 1, !.due = t.due]
    BY <1>3 DEF AsyncWait, Session
  <2>. QED
    BY <1>1, <2>1 DEF SameTransfers, Session
<1>. QED
  BY <1>2, <1>3

LEMMA SameTransitive ==
  ASSUME NEW t, NEW u, NEW v, SameTransfers(t, u), SameTransfers(u, v)
  PROVE  SameTransfers(t, v)
BY DEF SameTransfers

(* launch_timer, with and without a callback.                              *)
LEMMA LaunchIfSame ==
  ASSUME NEW t \in Session, NEW launch \in Launches
  PROVE  SameTransfers(t, LaunchIf(t, launch))
<1>1. SameTransfers(t, t)
  BY DEF SameTransfers
<1>2. [t EXCEPT !.on_timer_cb = "ping"] \in Session
      /\ SameTransfers(t, [t EXCEPT !.on_timer_cb = "ping"])
  BY DEF SameTransfers, Session, TimerCbs
<1>. QED
  BY <1>1, <1>2, AsyncWaitSame, SameTransitive
  DEF LaunchIf, LaunchTimer, LaunchTimerWith, Launches

(* do_ping, do_pong, do_close and the timer's own async_close.             *)
LEMMA AsyncPingSame ==
  ASSUME NEW t \in Session
  PROVE  SameTransfers(t, AsyncPing(t))
BY DEF AsyncPing, Start, SameTransfers, Session, Kinds

LEMMA AsyncPongSame ==
  ASSUME NEW t \in Session
  PROVE  SameTransfers(t, AsyncPong(t))
BY DEF AsyncPong, Start, SameTransfers, Session, Kinds

LEMMA AsyncCloseSame ==
  ASSUME NEW t \in Session
  PROVE  SameTransfers(t, AsyncClose(t))
<1>1. Start(t, "close") \in Session /\ SameTransfers(t, Start(t, "close"))
  BY DEF Start, SameTransfers, Session, Kinds
<1>2. AsyncClose(t) = [Start(t, "close") EXCEPT !.status =
                        IF t.status = "open" THEN "closing" ELSE t.status]
  BY DEF AsyncClose, Start, Session
<1>3. (IF t.status = "open" THEN "closing" ELSE t.status) \in Statuses
  BY DEF Session, Statuses
<1>4. AsyncClose(t) \in Session
  BY <1>1, <1>2, <1>3 DEF Session
<1>. QED
  BY <1>1, <1>2, <1>4 DEF SameTransfers, Session

LEMMA DoPingSame ==
  ASSUME NEW t \in Session
  PROVE  SameTransfers(t, DoPing(t))
<1>1. [t EXCEPT !.quiet = TRUE] \in Session
      /\ SameTransfers(t, [t EXCEPT !.quiet = TRUE])
  BY DEF SameTransfers, Session
<1>2. SameTransfers(t, t)
  BY DEF SameTransfers
<1>3. SameTransfers(t, ExpiresAfter([t EXCEPT !.quiet = TRUE]))
  BY <1>1, ExpiresAfterSame, SameTransitive
<1>. QED
  BY <1>2, <1>3, AsyncPingSame, SameTransitive DEF DoPing, SameTransfers

LEMMA DoPongSame ==
  ASSUME NEW t \in Session
  PROVE  SameTransfers(t, DoPong(t))
<1>1. SameTransfers(t, t) /\ SameTransfers(t, ExpiresAfter(t))
  BY ExpiresAfterSame DEF SameTransfers
<1>. QED
  BY <1>1, AsyncPongSame, SameTransitive DEF DoPong, SameTransfers

LEMMA DoCloseSame ==
  ASSUME NEW t \in Session
  PROVE  SameTransfers(t, DoClose(t))
<1>1. SameTransfers(t, t) /\ SameTransfers(t, ExpiresAfter(t))
  BY ExpiresAfterSame DEF SameTransfers
<1>. QED
  BY <1>1, AsyncCloseSame, SameTransitive DEF DoClose, SameTransfers

LEMMA SendControlSame ==
  ASSUME NEW t \in Session, NEW call \in Calls
  PROVE  SameTransfers(t, SendControl(t, call))
<1>1. SameTransfers(t, t)
  BY DEF SameTransfers
<1>. QED
  BY <1>1, DoPingSame, DoPongSame, DoCloseSame DEF SendControl, Calls

LEMMA SetFrameSame ==
  ASSUME NEW t \in Session, NEW mode \in FrameModes
  PROVE  SameTransfers(t, SetFrame(t, mode))
BY DEF SetFrame, SameTransfers, Session, FrameModes, Frames

(* What on_timer does when the deadline has expired.                       *)
LEMMA ExpiredSame ==
  ASSUME NEW t \in Session
  PROVE  SameTransfers(t, Expired(t))
<1>1. ExpiresAfter(t) \in Session /\ SameTransfers(t, ExpiresAfter(t))
  BY ExpiresAfterSame DEF SameTransfers
<1>2. SameTransfers(t, AsyncClose(ExpiresAfter(t)))
  BY <1>1, AsyncCloseSame, SameTransitive
<1>. QED
  BY <1>2, DoPingSame, DoCloseSame DEF Expired

(* The launch_timer that on_timer or its callback ends with.               *)
LEMMA LaunchedSame ==
  ASSUME NEW t \in Session
  PROVE  /\ SameTransfers(t, LaunchTimer(t))
         /\ SameTransfers(t, LaunchTimerWith(t, "close"))
<1>1. [t EXCEPT !.on_timer_cb = "close"] \in Session
      /\ SameTransfers(t, [t EXCEPT !.on_timer_cb = "close"])
  BY DEF SameTransfers, Session, TimerCbs
<1>. QED
  BY <1>1, AsyncWaitSame, SameTransitive DEF LaunchTimer, LaunchTimerWith
-----------------------------------------------------------------------------
(* TransferInv of an arbitrary session.                                    *)
Transfers(t) ==
  /\ t.ops["read"] + t.ops["write"] <= 1
  /\ t.status = "open" => t.ops["read"] + t.ops["write"] = 1
  /\ t.ops["write"] > 0 => t.sending.size = t.output /\ t.output > 0
  /\ t.status = "open" /\ t.ops["write"] = 0 => t.output = 0
  /\ ~t.accepted => /\ t.ops["read"] = 0 /\ t.ops["write"] = 0
                    /\ t.output = 0 /\ t.readable
                    /\ t.status \in {"http", "handshaking", "failed"}
  /\ t.accepted => /\ t.ops["handshake"] = 0
                   /\ t.status \in {"open", "closing", "closed", "failed"}
  /\ t.ops["handshake"] <= 1
  /\ t.status = "http" => t.ops["handshake"] = 0
  /\ t.readable => t.ops["read"] = 0
  /\ t.ops["write"] > 0 => t.readable
  /\ t.ops["read"] > 0 => t.output = 0

LEMMA TransfersIsInv == TransferInv <=> Transfers(session)
BY DEF TransferInv, Transfers, OneTransfer, NeverStalls, OutputIntact,
       FlagsInv, Reads, Writes

LEMMA SameKeepsTransfers ==
  ASSUME NEW t \in Session, NEW u, Transfers(t), SameTransfers(t, u)
  PROVE  u \in Session /\ Transfers(u)
<1>1. u \in Session /\ t.ops["read"] \in Nat /\ t.ops["write"] \in Nat
      /\ t.ops["handshake"] \in Nat
  BY DEF SameTransfers, Session, Kinds
<1>. QED
  BY <1>1 DEF SameTransfers, Transfers

(* A session whose handler may decide what comes next, and one whose       *)
(* handler has decided to read.                                            *)
Established == {"open", "closing", "closed", "failed"}

Undecided(t) ==
  /\ t \in Session /\ t.accepted /\ t.readable /\ t.status \in Established
  /\ t.ops["read"] = 0 /\ t.ops["write"] = 0 /\ t.ops["handshake"] = 0

Reading(t) ==
  /\ t \in Session /\ t.accepted /\ ~t.readable /\ t.status \in Established
  /\ t.ops["read"] = 1 /\ t.ops["write"] = 0 /\ t.ops["handshake"] = 0
  /\ t.output = 0

(* One that has decided, to read or to write.                              *)
Engaged(t) == t.accepted /\ t.ops["read"] + t.ops["write"] = 1

(* A step of the session itself can only start to close its stream.        *)
Later(t, u) == u.status = t.status \/ (t.status = "open" /\ u.status = "closing")

LEMMA SameKeepsStage ==
  ASSUME NEW t \in Session, NEW u, SameTransfers(t, u)
  PROVE  (Undecided(t) => Undecided(u)) /\ (Reading(t) => Reading(u))
BY DEF SameTransfers, Undecided, Reading, Established

LEMMA DoReadReads ==
  ASSUME NEW t, Undecided(t), t.output = 0
  PROVE  Reading(DoRead(t)) /\ DoRead(t).got = t.got /\ DoRead(t).status = t.status
<1>. DEFINE e == ExpiresAfter(t)
            r == [e EXCEPT !.readable = FALSE]
<1>1. t \in Session
  BY DEF Undecided
<1>2. e \in Session /\ Undecided(e) /\ e.output = 0 /\ e.got = t.got
  BY <1>1, ExpiresAfterSame, SameKeepsStage DEF SameTransfers
<1>9. e.status = t.status
  BY <1>1 DEF ExpiresAfter, Session
<1>. HIDE DEF e
<1>3. DoRead(t) = AsyncRead(r)
  BY DEF DoRead, Undecided, e
<1>4. r \in Session /\ ~r.readable /\ r.accepted /\ r.status \in Established
      /\ r.ops = e.ops /\ r.output = 0 /\ r.got = t.got /\ r.status = t.status
  BY <1>2, <1>9 DEF Session, Undecided
<1>. HIDE DEF r
<1>5. AsyncRead(r) \in Session
      /\ AsyncRead(r) = [r EXCEPT !.ops = [r.ops EXCEPT !["read"] = @ + 1]]
  BY <1>4, StartType DEF AsyncRead, Kinds
<1>6. AsyncRead(r).ops = [r.ops EXCEPT !["read"] = @ + 1]
      /\ r.ops \in [Kinds -> Nat]
  BY <1>4, <1>5 DEF Session
<1>7. AsyncRead(r).ops["read"] = 1 /\ AsyncRead(r).ops["write"] = 0
      /\ AsyncRead(r).ops["handshake"] = 0
  BY <1>2, <1>4, <1>6 DEF Kinds, Undecided
<1>. QED
  BY <1>3, <1>4, <1>5, <1>7 DEF Reading, Session

LEMMA DoWriteWrites ==
  ASSUME NEW t, Undecided(t), t.output > 0
  PROVE  /\ DoWrite(t) \in Session /\ Transfers(DoWrite(t))
         /\ Engaged(DoWrite(t)) /\ DoWrite(t).status = t.status
<1>. DEFINE w == Start(t, "write")
            taken == [size |-> t.output, frame |-> t.frame]
<1>1. t \in Session /\ t.accepted
  BY DEF Undecided
<1>2. w \in Session /\ w = [t EXCEPT !.ops = [t.ops EXCEPT !["write"] = @ + 1]]
  BY <1>1, StartType DEF Kinds
<1>3. DoWrite(t) = [w EXCEPT !.sending = taken]
  BY <1>1 DEF DoWrite, AsyncWrite
<1>4. taken \in [size : Nat, frame : Frames] /\ taken.size = t.output
  BY <1>1 DEF Session
<1>5. w.ops["write"] = 1 /\ w.ops["read"] = 0 /\ w.ops["handshake"] = 0
      /\ w.accepted /\ w.readable /\ w.status \in Established /\ w.output = t.output
      /\ w.status = t.status
  BY <1>1, <1>2 DEF Session, Kinds, Undecided
<1>. HIDE DEF w, taken
<1>6. DoWrite(t) \in Session /\ DoWrite(t).ops = w.ops
      /\ DoWrite(t).accepted /\ DoWrite(t).readable
      /\ DoWrite(t).status \in Established /\ DoWrite(t).output = t.output
      /\ DoWrite(t).sending.size = t.output /\ DoWrite(t).status = t.status
  BY <1>2, <1>3, <1>4, <1>5 DEF Session
<1>. QED
  BY <1>5, <1>6 DEF Transfers, Engaged, Established

LEMMA ReadingTransfers ==
  ASSUME NEW t, Reading(t)
  PROVE  t \in Session /\ Transfers(t) /\ Engaged(t)
BY DEF Reading, Transfers, Engaged, Established

(* The end of on_accept and on_read: write the output or read on.          *)
LEMMA WriteOrReadTransfers ==
  ASSUME NEW t, Undecided(t) \/ Reading(t)
  PROVE  LET u == WriteOrRead(t)
         IN  u \in Session /\ Transfers(u) /\ Engaged(u) /\ u.status = t.status
<1>1. CASE Reading(t)
  BY <1>1, ReadingTransfers DEF Reading, WriteOrRead
<1>2. CASE Undecided(t) /\ t.output > 0
  BY <1>2, DoWriteWrites DEF WriteOrRead
<1>3. CASE Undecided(t) /\ t.output = 0
  BY <1>3, DoReadReads, ReadingTransfers DEF WriteOrRead, Undecided
<1>4. Undecided(t) => t.output \in Nat
  BY DEF Undecided, Session
<1>. QED
  BY <1>1, <1>2, <1>3, <1>4

(* A handler that appends and does not read, or reads and does not append. *)
LEMMA UserHandlerDecides ==
  ASSUME NEW t, Undecided(t), t.output = 0,
         NEW c \in Script, ~(c.out /\ c.read)
  PROVE  LET u == UserHandler(t, c)
         IN  (Undecided(u) \/ Reading(u)) /\ u.got = t.got /\ Later(t, u)
<1>. USE DEF Later
<1>. DEFINE f == SetFrame(t, c.frame)
            a == Append1(f, c.out)
            r == ReadIf(a, c.read)
            k == SendControl(r, c.call)
<1>0. c.out \in BOOLEAN /\ c.read \in BOOLEAN /\ c.frame \in FrameModes
      /\ c.call \in Calls /\ c.launch \in Launches
  BY DEF Script
<1>1. Undecided(f) /\ f.output = 0 /\ f.got = t.got /\ Later(t, f)
  BY <1>0, SetFrameSame, SameKeepsStage DEF Undecided, SameTransfers
<1>. HIDE DEF f
<1>2. Undecided(a) /\ (c.read => a.output = 0) /\ a.got = t.got /\ Later(t, a)
  <2>1. CASE c.out
    <3>1. a = [f EXCEPT !.output = 1]
      BY <2>1, <1>1 DEF Append1, Undecided, Session
    <3>. QED
      BY <3>1, <2>1, <1>1 DEF Undecided, Session
  <2>2. CASE ~c.out
    BY <2>2, <1>1 DEF Append1, Undecided, Session
  <2>. QED
    BY <2>1, <2>2
<1>. HIDE DEF a
<1>3. (Undecided(r) \/ Reading(r)) /\ r.got = t.got /\ Later(t, r)
  BY <1>2, DoReadReads DEF ReadIf
<1>. HIDE DEF r
<1>4. (Undecided(k) \/ Reading(k)) /\ k.got = t.got /\ Later(t, k)
  BY <1>0, <1>3, SendControlSame, SameKeepsStage DEF Undecided, Reading, SameTransfers
<1>. HIDE DEF k
<1>5. LET u == LaunchIf(k, c.launch)
      IN  (Undecided(u) \/ Reading(u)) /\ u.got = t.got /\ Later(t, u)
  BY <1>0, <1>4, LaunchIfSame, SameKeepsStage DEF Undecided, Reading, SameTransfers
<1>. QED
  BY <1>5 DEF UserHandler, f, a, r, k

(* A handler that leaves the output alone while do_read is not possible.   *)
LEMMA UserHandlerSame ==
  ASSUME NEW t \in Session, ~t.readable, NEW c \in Script, ~c.out
  PROVE  SameTransfers(t, UserHandler(t, c))
<1>. DEFINE f == SetFrame(t, c.frame)
            k == SendControl(f, c.call)
<1>0. c.frame \in FrameModes /\ c.call \in Calls /\ c.launch \in Launches
  BY DEF Script
<1>1. SameTransfers(t, f) /\ f \in Session
  BY <1>0, SetFrameSame DEF SameTransfers
<1>. HIDE DEF f
<1>2. ReadIf(Append1(f, c.out), c.read) = f
  BY <1>1 DEF ReadIf, Append1, DoRead, SameTransfers, Session
<1>3. SameTransfers(t, k) /\ k \in Session
  BY <1>0, <1>1, SendControlSame, SameTransitive DEF SameTransfers
<1>. HIDE DEF k
<1>4. SameTransfers(t, LaunchIf(k, c.launch))
  BY <1>0, <1>3, LaunchIfSame, SameTransitive
<1>. QED
  BY <1>2, <1>4 DEF UserHandler, f, k
-----------------------------------------------------------------------------
(* An answered operation is one less; nothing else that matters changes    *)
(* but the status.                                                         *)
Answered(t, k, ec, u) ==
  /\ u \in Session
  /\ u.ops = [t.ops EXCEPT ![k] = @ - 1]
  /\ u.accepted = t.accepted /\ u.readable = t.readable
  /\ u.output = t.output /\ u.status = StatusAfter(t, k, ec)
  /\ u.got = t.got /\ u.auto_frame = t.auto_frame
  /\ u.sending = IF k = "write" THEN NoSending ELSE t.sending

LEMMA AnswerGives ==
  ASSUME NEW t \in Session, NEW k \in Kinds, Outstanding(t, k), NEW ec
  PROVE  Answered(t, k, ec, Answer(t, k, ec))
<1>1. t.ops[k] \in Nat /\ t.ops[k] > 0 /\ t.ops \in [Kinds -> Nat]
  BY DEF Session, Outstanding
<1>2. [t.ops EXCEPT ![k] = @ - 1] \in [Kinds -> Nat]
  BY <1>1
<1>3. StatusAfter(t, k, ec) \in Statuses
  BY DEF StatusAfter, Session, Statuses
<1>4. (IF k = "write" THEN NoSending ELSE t.sending) \in [size : Nat, frame : Frames]
  BY DEF NoSending, Frames, Session
<1>5. Answer(t, k, ec) =
        [t EXCEPT !.ops = [t.ops EXCEPT ![k] = @ - 1],
                  !.status = StatusAfter(t, k, ec),
                  !.sending = IF k = "write" THEN NoSending ELSE t.sending]
  BY DEF Answer, Session
<1>. DEFINE ops == [t.ops EXCEPT ![k] = @ - 1]
            status == StatusAfter(t, k, ec)
            sending == IF k = "write" THEN NoSending ELSE t.sending
            u == [t EXCEPT !.ops = ops, !.status = status, !.sending = sending]
<1>6. ops \in [Kinds -> Nat] /\ status \in Statuses
      /\ sending \in [size : Nat, frame : Frames] /\ Answer(t, k, ec) = u
  BY <1>2, <1>3, <1>4, <1>5
<1>. HIDE DEF ops, status, sending
<1>7. u \in Session
  BY <1>6 DEF Session
<1>8. /\ u.ops = ops /\ u.status = status /\ u.sending = sending
      /\ u.accepted = t.accepted /\ u.readable = t.readable /\ u.output = t.output
      /\ u.got = t.got /\ u.auto_frame = t.auto_frame
  BY DEF Session
<1>. HIDE DEF u
<1>. QED
  BY <1>6, <1>7, <1>8 DEF Answered, ops, status, sending

LEMMA AnswerEffect ==
  ASSUME NEW t \in Session, NEW k \in Kinds, Outstanding(t, k), NEW ec
  PROVE  LET u == Answer(t, k, ec)
         IN  /\ u \in Session
             /\ u.ops = [t.ops EXCEPT ![k] = @ - 1]
             /\ u.accepted = t.accepted /\ u.readable = t.readable
             /\ u.output = t.output /\ u.status = StatusAfter(t, k, ec)
             /\ u.got = t.got /\ u.auto_frame = t.auto_frame
             /\ u.sending = IF k = "write" THEN NoSending ELSE t.sending
<1>1. Answered(t, k, ec, Answer(t, k, ec))
  BY AnswerGives
<1>. QED
  BY <1>1 DEF Answered

(* What on_accept and on_read make of the session before they call the     *)
(* user's handler: nothing is under way, the handler may decide.           *)
AfterAccept(t) == [Answer(t, "handshake", "ok") EXCEPT !.accepted = TRUE]

AfterRead(t, got) ==
  [Answer(t, "read", "ok") EXCEPT !.readable = TRUE, !.got = got, !.quiet = FALSE]

LEMMA AfterAcceptUndecided ==
  ASSUME NEW t \in Session, Transfers(t), Outstanding(t, "handshake")
  PROVE  LET b == AfterAccept(t)
         IN  Undecided(b) /\ b.output = 0 /\ b.got = t.got /\ ~t.accepted
<1>. DEFINE a == Answer(t, "handshake", "ok")
<1>1. t.ops \in [Kinds -> Nat] /\ t.ops["handshake"] = 1 /\ ~t.accepted
      /\ t.readable /\ t.output = 0 /\ t.ops["read"] = 0 /\ t.ops["write"] = 0
  BY DEF Session, Kinds, Transfers, Outstanding
<1>2. "handshake" \in Kinds /\ StatusAfter(t, "handshake", "ok") = "open"
  BY DEF Kinds, StatusAfter
<1>3. a \in Session /\ a.ops = [t.ops EXCEPT !["handshake"] = @ - 1]
      /\ a.readable = t.readable /\ a.output = t.output /\ a.status = "open"
      /\ a.got = t.got
  BY <1>2, AnswerEffect
<1>. HIDE DEF a
<1>4. a.ops["read"] = 0 /\ a.ops["write"] = 0 /\ a.ops["handshake"] = 0
  BY <1>1, <1>3 DEF Kinds
<1>. QED
  BY <1>1, <1>3, <1>4 DEF AfterAccept, Undecided, Established, Session, a

LEMMA AfterReadUndecided ==
  ASSUME NEW t \in Session, Transfers(t), Outstanding(t, "read"), NEW got \in Frames
  PROVE  LET b == AfterRead(t, got)
         IN  Undecided(b) /\ b.output = 0 /\ b.got = got /\ b.status = t.status
<1>. DEFINE a == Answer(t, "read", "ok")
<1>1. t.ops \in [Kinds -> Nat] /\ t.ops["read"] = 1 /\ t.ops["write"] = 0
      /\ t.ops["handshake"] = 0 /\ t.accepted /\ t.output = 0
      /\ t.status \in Established
  BY DEF Session, Kinds, Transfers, Outstanding, Established
<1>2. "read" \in Kinds /\ StatusAfter(t, "read", "ok") = t.status
  BY DEF Kinds, StatusAfter
<1>3. a \in Session /\ a.ops = [t.ops EXCEPT !["read"] = @ - 1]
      /\ a.accepted = t.accepted /\ a.output = t.output /\ a.status = t.status
  BY <1>2, AnswerEffect
<1>. HIDE DEF a
<1>4. a.ops["read"] = 0 /\ a.ops["write"] = 0 /\ a.ops["handshake"] = 0
  BY <1>1, <1>3 DEF Kinds
<1>. QED
  BY <1>1, <1>3, <1>4 DEF AfterRead, Undecided, Session, a

(* The handshake is answered.                                              *)
LEMMA AcceptedTransfers ==
  ASSUME NEW t \in Session, Transfers(t), Outstanding(t, "handshake"),
         "ok" \in Answers(t, "handshake"),
         NEW c \in Script, ~(c.out /\ c.read)
  PROVE  LET u == Accepted(Answer(t, "handshake", "ok"), c)
         IN  u \in Session /\ Transfers(u) /\ Engaged(u)
<1>1. Accepted(Answer(t, "handshake", "ok"), c) = WriteOrRead(UserHandler(AfterAccept(t), c))
  BY DEF Accepted, AfterAccept
<1>. QED
  BY <1>1, AfterAcceptUndecided, UserHandlerDecides, WriteOrReadTransfers

(* A message was read.                                                     *)
LEMMA ReceivedTransfers ==
  ASSUME NEW t \in Session, Transfers(t), Outstanding(t, "read"),
         NEW got \in Frames, NEW c \in Script, ~(c.out /\ c.read)
  PROVE  LET u == Received(Answer(t, "read", "ok"), got, c)
         IN  u \in Session /\ Transfers(u) /\ Engaged(u) /\ Later(t, u)
<1>. DEFINE h == UserHandler(AfterRead(t, got), c)
<1>1. Received(Answer(t, "read", "ok"), got, c) = WriteOrRead(AutoFrame(h))
  BY DEF Received, AfterRead
<1>2. (Undecided(h) \/ Reading(h)) /\ h.got \in Frames /\ Later(t, h)
  BY AfterReadUndecided, UserHandlerDecides DEF Later
<1>. HIDE DEF h
<1>3. (Undecided(AutoFrame(h)) \/ Reading(AutoFrame(h)))
      /\ AutoFrame(h).status = h.status
  BY <1>2 DEF AutoFrame, Undecided, Reading, Session
<1>. QED
  BY <1>1, <1>2, <1>3, WriteOrReadTransfers DEF Later

(* A message was written.                                                  *)
LEMMA WrittenTransfers ==
  ASSUME NEW t \in Session, Transfers(t), Outstanding(t, "write")
  PROVE  LET u == Written(Answer(t, "write", "ok"))
         IN  u \in Session /\ Transfers(u) /\ Reading(u) /\ u.status = t.status
<1>. DEFINE a == Answer(t, "write", "ok")
            b == [a EXCEPT !.output = 0]
<1>1. t.ops \in [Kinds -> Nat] /\ t.ops["write"] = 1 /\ t.ops["read"] = 0
      /\ t.ops["handshake"] = 0 /\ t.accepted /\ t.readable
      /\ t.status \in Established
  BY DEF Session, Kinds, Transfers, Outstanding, Established
<1>k. "write" \in Kinds /\ StatusAfter(t, "write", "ok") = t.status
  BY DEF Kinds, StatusAfter
<1>2. a \in Session /\ a.ops = [t.ops EXCEPT !["write"] = @ - 1]
      /\ a.accepted /\ a.readable /\ a.status = t.status
  BY <1>1, <1>k, AnswerEffect
<1>. HIDE DEF a
<1>a. a.ops["read"] = 0 /\ a.ops["write"] = 0 /\ a.ops["handshake"] = 0
  BY <1>1, <1>2 DEF Kinds
<1>b. b \in Session /\ b.accepted /\ b.readable /\ b.output = 0
      /\ b.status = a.status /\ b.ops = a.ops
  BY <1>2 DEF Session
<1>3. Undecided(b) /\ b.output = 0 /\ b.readable = a.readable
  BY <1>1, <1>2, <1>a, <1>b DEF Undecided
<1>. HIDE DEF b
<1>4. Written(a) = DoRead(b)
  BY <1>2, <1>3 DEF Written, b
<1>. QED
  BY <1>2, <1>3, <1>4, <1>b, DoReadReads, ReadingTransfers DEF a

(* An operation fails, or a control frame was sent: the session only has   *)
(* one operation less.  An open stream fails no operation.                 *)
LEMMA AnswerTransfers ==
  ASSUME NEW t \in Session, Transfers(t), NEW k \in Kinds, Outstanding(t, k),
         NEW ec \in Answers(t, k), k \in {"handshake", "read", "write"} => ec # "ok"
  PROVE  Answer(t, k, ec) \in Session /\ Transfers(Answer(t, k, ec))
<1>. DEFINE a == Answer(t, k, ec)
<1>0. t.ops \in [Kinds -> Nat] /\ t.ops[k] > 0
  BY DEF Session, Outstanding
<1>1. a \in Session /\ a.ops = [t.ops EXCEPT ![k] = @ - 1]
      /\ a.accepted = t.accepted /\ a.readable = t.readable
      /\ a.output = t.output /\ a.status = StatusAfter(t, k, ec)
      /\ a.sending = IF k = "write" THEN NoSending ELSE t.sending
  BY AnswerEffect
<1>. HIDE DEF a
<1>2. CASE k \in {"ping", "pong", "close"}
  <2>1. a.ops["read"] = t.ops["read"] /\ a.ops["write"] = t.ops["write"]
        /\ a.ops["handshake"] = t.ops["handshake"] /\ a.sending = t.sending
    BY <1>0, <1>1, <1>2 DEF Kinds
  <2>2. a.status = t.status \/ a.status = "closed"
    BY <1>1, <1>2 DEF StatusAfter
  <2>3. a.status = "closed" => t.status = "closed" \/ t.status = "closing"
    BY <1>1, <1>2 DEF StatusAfter, Answers
  <2>. QED
    BY <1>1, <2>1, <2>2, <2>3 DEF Transfers, a
<1>3. CASE k = "handshake"
  <2>1. t.ops["handshake"] = 1 /\ ~t.accepted /\ a.ops["handshake"] = 0
        /\ a.ops["read"] = t.ops["read"] /\ a.ops["write"] = t.ops["write"]
    BY <1>0, <1>1, <1>3 DEF Transfers, Kinds
  <2>2. a.status = "failed"
    BY <1>1, <1>3 DEF StatusAfter, Answers
  <2>. QED
    BY <1>1, <2>1, <2>2 DEF Transfers, a
<1>4. CASE k = "read"
  <2>1. t.ops["read"] = 1 /\ t.ops["write"] = 0 /\ t.accepted /\ ~t.readable
        /\ a.ops["read"] = 0 /\ a.ops["write"] = 0
        /\ a.ops["handshake"] = t.ops["handshake"]
    BY <1>0, <1>1, <1>4 DEF Transfers, Kinds
  <2>2. a.status # "open" /\ a.status \in Established
    BY <1>1, <1>4, <2>1 DEF StatusAfter, Answers, Transfers, Established
  <2>. QED
    BY <1>1, <2>1, <2>2 DEF Transfers, a, Established
<1>5. CASE k = "write"
  <2>1. t.ops["write"] = 1 /\ t.ops["read"] = 0 /\ t.accepted /\ t.readable
        /\ a.ops["read"] = 0 /\ a.ops["write"] = 0
        /\ a.ops["handshake"] = t.ops["handshake"]
    BY <1>0, <1>1, <1>5 DEF Transfers, Kinds
  <2>2. a.status # "open" /\ a.status \in Established
    BY <1>1, <1>5, <2>1 DEF StatusAfter, Answers, Transfers, Established
  <2>. QED
    BY <1>1, <2>1, <2>2 DEF Transfers, a, Established
<1>. QED
  BY <1>2, <1>3, <1>4, <1>5 DEF Kinds
-----------------------------------------------------------------------------
(* What the steps do.                                                      *)

LEMMA NothingType ==
  Nothing \in Script /\ ~Nothing.out /\ ~Nothing.read
BY DEF Nothing, Script, FrameModes, Calls, Launches

(* on_accept and on_message of the application are disciplined.            *)
LEMMA HandlersType ==
  ASSUME NEW c \in Handlers(App.accept) \cup Handlers(App.message)
  PROVE  c \in Script /\ ~(c.out /\ c.read)
BY AppAssumption, NothingType DEF AppType, Disciplined, Handlers

(* So are the handlers of control frames.                                  *)
LEMMA ControlHandlerType ==
  ASSUME NEW kind \in {"ping", "pong", "close"}, NEW c \in Handlers(ControlHandler(kind))
  PROVE  c \in Script /\ ~c.out
BY AppAssumption, NothingType DEF AppType, Disciplined, ControlHandler, Handlers

(* The upgrade starts the handshake of a fresh session.                    *)
LEMMA UpgradeTransfers ==
  ASSUME NEW t \in Session, Transfers(t), t.status = "http",
         NEW launch \in Launches
  PROVE  LET u == LaunchIf(DoAccept(t), launch)
         IN  /\ u \in Session /\ Transfers(u)
             /\ ~u.accepted /\ u.status = "handshaking"
<1>. DEFINE e == ExpiresAfter(t)
            w == Start(e, "handshake")
            a == [w EXCEPT !.status = "handshaking"]
<1>1. ~t.accepted /\ t.ops["handshake"] = 0
  BY DEF Transfers
<1>2. e \in Session /\ Transfers(e) /\ ~e.accepted /\ e.ops["handshake"] = 0
  BY <1>1, ExpiresAfterSame, SameKeepsTransfers DEF SameTransfers
<1>3. DoAccept(t) = a
  BY <1>1 DEF DoAccept, AsyncHandshake
<1>. HIDE DEF e
<1>4. w \in Session /\ w = [e EXCEPT !.ops = [e.ops EXCEPT !["handshake"] = @ + 1]]
  BY <1>2, StartType DEF Kinds
<1>5. w.ops["read"] = 0 /\ w.ops["write"] = 0 /\ w.ops["handshake"] = 1
      /\ ~w.accepted /\ w.readable /\ w.output = 0
  BY <1>2, <1>4 DEF Session, Kinds, Transfers
<1>. HIDE DEF w
<1>6. a \in Session /\ a.ops = w.ops /\ ~a.accepted /\ a.readable
      /\ a.output = 0 /\ a.status = "handshaking"
  BY <1>4, <1>5 DEF Session, Statuses
<1>7. Transfers(a)
  BY <1>5, <1>6 DEF Transfers
<1>. HIDE DEF a
<1>. QED
  BY <1>3, <1>6, <1>7, LaunchIfSame, SameKeepsTransfers DEF SameTransfers

(* A control frame arrives while a read is outstanding.                    *)
LEMMA HeardTransfers ==
  ASSUME session \in Session, Transfers(session), Outstanding(session, "read"),
         session.status \in {"open", "closing"}, NEW kind
  PROVE  /\ Heard(kind) \in Session /\ Transfers(Heard(kind))
         /\ ~Heard(kind).readable
<1>1. session.accepted /\ ~session.readable /\ session.ops["read"] = 1
      /\ session.ops["write"] = 0 /\ session.ops \in [Kinds -> Nat]
  BY DEF Transfers, Outstanding, Session, Kinds
<1>2. (IF kind = "close" THEN "closed" ELSE session.status) \in Statuses
      /\ (session.quiet /\ kind # "pong") \in BOOLEAN
  BY DEF Session, Statuses
<1>3. Heard(kind) = [session EXCEPT
        !.status = IF kind = "close" THEN "closed" ELSE session.status,
        !.quiet = session.quiet /\ kind # "pong"]
  BY DEF Heard, Session
<1>4. Heard(kind) \in Session
  BY <1>2, <1>3 DEF Session
<1>5. Heard(kind).accepted = session.accepted /\ ~Heard(kind).readable
      /\ Heard(kind).output = session.output /\ Heard(kind).ops = session.ops
      /\ Heard(kind).sending = session.sending
      /\ Heard(kind).status = IF kind = "close" THEN "closed" ELSE session.status
  BY <1>1, <1>3 DEF Session
<1>. QED
  BY <1>1, <1>4, <1>5 DEF Transfers

(* on_timer takes one released handler, and time releases all of them.     *)
LEMMA TakenSame ==
  ASSUME session \in Session, session.due > 0
  PROVE  SameTransfers(session, [session EXCEPT !.due = @ - 1])
<1>1. session.due \in Nat /\ session.due - 1 \in Nat
  BY DEF Session
<1>. QED
  BY <1>1 DEF SameTransfers, Session

LEMMA TickSame ==
  ASSUME session \in Session
  PROVE  SameTransfers(session, [session EXCEPT !.deadline = "expired",
                                   !.due = @ + session.waits, !.waits = 0])
<1>1. session.due \in Nat /\ session.waits \in Nat
      /\ session.due + session.waits \in Nat
  BY DEF Session
<1>. QED
  BY <1>1 DEF SameTransfers, Session, Deadlines
-----------------------------------------------------------------------------
(* A run of on_timer enters a stage, leaves it, or goes from one to another. *)
LEMMA StageMoves ==
  ASSUME NEW pc \in [TimerStages -> Nat]
  PROVE  /\ \A a \in TimerStages : [pc EXCEPT ![a] = @ + 1] \in [TimerStages -> Nat]
         /\ \A a \in TimerStages : pc[a] > 0 =>
              [pc EXCEPT ![a] = @ - 1] \in [TimerStages -> Nat]
         /\ pc["expired"] > 0 =>
              /\ [pc EXCEPT !["expired"] = @ - 1, !["pinged"] = @ + 1] \in [TimerStages -> Nat]
              /\ [pc EXCEPT !["expired"] = @ - 1, !["again"] = @ + 1] \in [TimerStages -> Nat]
         /\ "expired" \in TimerStages /\ "pinged" \in TimerStages /\ "again" \in TimerStages
BY DEF TimerStages

(* The two invariants together are inductive: a step needs both the types  *)
(* and the way flags, operations and stream go together.                   *)
IInv == TypeOK /\ TransferInv

LEMMA InitIInv == Init => IInv
<1>. SUFFICES ASSUME Init PROVE IInv
  OBVIOUS
<1>1. NoOps \in [Kinds -> Nat] /\ NoSending \in [size : Nat, frame : Frames]
      /\ NoOps["read"] = 0 /\ NoOps["write"] = 0 /\ NoOps["handshake"] = 0
  BY DEF NoOps, NoSending, Kinds, Frames
<1>2. NewSession \in Session
  BY <1>1 DEF NewSession, Session, TimerCbs, Deadlines, Statuses, Frames
<1>3. Transfers(NewSession)
  BY <1>1 DEF Transfers, NewSession
<1>. QED
  BY <1>2, <1>3, TransfersIsInv DEF Init, IInv, TypeOK

LEMMA NextIInv == IInv /\ [Next]_vars => IInv'
<1>. SUFFICES ASSUME IInv, [Next]_vars
              PROVE  IInv'
  OBVIOUS
<1>1. session \in Session /\ Transfers(session)
  BY TransfersIsInv DEF IInv, TypeOK
<1>. DEFINE Kept == session' \in Session /\ Transfers(session')
            Others == timer_pc' \in [TimerStages -> Nat]
<1>2. ASSUME Kept, Others PROVE IInv'
  <2>1. TransferInv' <=> Transfers(session')
    BY DEF TransferInv, Transfers, OneTransfer, NeverStalls, OutputIntact,
           FlagsInv, Reads, Writes
  <2>. QED
    BY <1>2, <2>1 DEF IInv, TypeOK
<1>3. UNCHANGED timer_pc => Others
  BY DEF IInv, TypeOK
<1>4. CASE Upgrade
  BY <1>1, <1>2, <1>3, <1>4, UpgradeTransfers, AppAssumption DEF Upgrade, AppType
<1>5. CASE OnAccept
  <2>1. Others
    BY <1>3, <1>5 DEF OnAccept, Completes
  <2>2. Kept
    BY <1>1, <1>5, AcceptedTransfers, AnswerTransfers, HandlersType
    DEF OnAccept, Completes, Kinds
  <2>. QED
    BY <1>2, <2>1, <2>2
<1>6. CASE OnRead
  <2>1. Others
    BY <1>3, <1>6 DEF OnRead, Completes
  <2>2. Kept
    BY <1>1, <1>6, ReceivedTransfers, AnswerTransfers, HandlersType
    DEF OnRead, Completes, Kinds
  <2>. QED
    BY <1>2, <2>1, <2>2
<1>7. CASE OnWrite
  <2>1. Others
    BY <1>3, <1>7 DEF OnWrite, Completes
  <2>2. Kept
    BY <1>1, <1>7, WrittenTransfers, AnswerTransfers DEF OnWrite, Completes, Kinds
  <2>. QED
    BY <1>2, <2>1, <2>2
<1>8. CASE OnPing \/ OnPong \/ OnClose
  <2>1. Others
    BY <1>3, <1>8 DEF OnPing, OnPong, OnClose, Completes
  <2>2. Kept
    BY <1>1, <1>8, AnswerTransfers DEF OnPing, OnPong, OnClose, Completes, Kinds
  <2>. QED
    BY <1>2, <2>1, <2>2
<1>9. ASSUME NEW kind \in {"ping", "pong", "close"}, OnControl(kind)
      PROVE  IInv'
  <2>1. Heard(kind) \in Session /\ Transfers(Heard(kind)) /\ ~Heard(kind).readable
    BY <1>1, <1>9, HeardTransfers DEF OnControl
  <2>2. ASSUME NEW c \in Handlers(ControlHandler(kind)),
               session' = UserHandler(Heard(kind), c)
        PROVE  Kept
    BY <2>1, <2>2, ControlHandlerType, UserHandlerSame, SameKeepsTransfers
  <2>. QED
    BY <1>2, <1>3, <1>9, <2>2 DEF OnControl
<1>10. CASE TimerCheck
  <2>1. Kept
    BY <1>1, <1>10, TakenSame, SameKeepsTransfers DEF TimerCheck
  <2>2. Others
    BY <1>10, StageMoves DEF TimerCheck, IInv, TypeOK
  <2>. QED
    BY <1>2, <2>1, <2>2
<1>11. CASE TimerAct
  <2>1. Kept
    BY <1>1, <1>11, ExpiredSame, SameKeepsTransfers DEF TimerAct
  <2>2. Others
    BY <1>11, StageMoves DEF TimerAct, IInv, TypeOK
  <2>. QED
    BY <1>2, <2>1, <2>2
<1>12. CASE Tick
  BY <1>1, <1>2, <1>3, <1>12, TickSame, SameKeepsTransfers DEF Tick
<1>13. CASE NetworkFails
  <2>1. session' \in Session /\ session'.status = "failed"
        /\ session'.ops = session.ops /\ session'.accepted = session.accepted
        /\ session'.readable = session.readable /\ session'.output = session.output
        /\ session'.sending = session.sending
    BY <1>1, <1>13 DEF NetworkFails, Session, Statuses
  <2>2. Transfers(session')
    BY <1>1, <2>1 DEF Transfers
  <2>. QED
    BY <1>2, <1>3, <1>13, <2>1, <2>2 DEF NetworkFails
<1>14. CASE UNCHANGED vars
  BY <1>1, <1>2, <1>3, <1>14 DEF vars
<1>15. CASE PingedLaunches \/ WaitsAgain
  <2>1. Kept
    BY <1>1, <1>15, LaunchedSame, SameKeepsTransfers DEF PingedLaunches, WaitsAgain
  <2>2. Others
    BY <1>15, StageMoves DEF PingedLaunches, WaitsAgain, IInv, TypeOK
  <2>. QED
    BY <1>2, <2>1, <2>2
<1>. QED
  BY <1>4, <1>5, <1>6, <1>7, <1>8, <1>9, <1>10, <1>11, <1>12, <1>13, <1>14, <1>15
  DEF Next, Ended

(* Every reachable session is of its type, and its reads, writes, output   *)
(* buffer and flags fit together: no second transfer is ever started, none *)
(* is missing, nothing written is lost.                                    *)
THEOREM SessionInvariant == Spec => []IInv
BY InitIInv, NextIInv, PTL DEF Spec

(* The type invariant: session<true> holds only values of its members.     *)
THEOREM TypeCorrect == Spec => []TypeOK
BY SessionInvariant, PTL DEF IInv

(* session<true>::on_accept, on_read and on_write keep the session half    *)
(* duplex, whatever timers and control frames come in between.             *)
THEOREM HalfDuplex == Spec => []TransferInv
BY SessionInvariant, PTL DEF IInv

(* An open session always has its next read or write outstanding.          *)
THEOREM OpenSessionsGoOn == Spec => []NeverStalls
BY HalfDuplex, PTL DEF TransferInv
-----------------------------------------------------------------------------
(* The frame type of an answer.  A session keeps its frame mode while a    *)
(* write is outstanding, because no handler of the user runs then; what    *)
(* does run, the timer and the answers to control frames, leaves it alone. *)

SameMode(t, u) == u \in Session /\ u.auto_frame = t.auto_frame

LEMMA TimerSameMode ==
  ASSUME NEW t \in Session
  PROVE  /\ SameMode(t, ExpiresAfter(t)) /\ SameMode(t, AsyncWait(t))
         /\ \A cb \in TimerCbs : SameMode(t, [t EXCEPT !.on_timer_cb = cb])
<1>1. ExpiresAfter(t) \in Session /\ AsyncWait(t) \in Session
  BY ExpiresAfterSame, AsyncWaitSame DEF SameTransfers
<1>2. \A cb \in TimerCbs : [t EXCEPT !.on_timer_cb = cb] \in Session
  BY DEF Session
<1>. QED
  BY <1>1, <1>2 DEF SameMode, ExpiresAfter, AsyncWait, Session

LEMMA ControlSameMode ==
  ASSUME NEW t \in Session
  PROVE  /\ SameMode(t, AsyncClose(t)) /\ SameMode(t, DoPing(t))
         /\ SameMode(t, DoClose(t))
<1>1. ASSUME NEW u \in Session
      PROVE  SameMode(u, AsyncClose(u)) /\ SameMode(u, AsyncPing(u))
  <2>1. Start(u, "close").auto_frame = u.auto_frame
        /\ Start(u, "ping").auto_frame = u.auto_frame
        /\ Start(u, "close") \in Session
    BY StartType DEF Start, Session, Kinds
  <2>2. AsyncClose(u).auto_frame = Start(u, "close").auto_frame
    BY <2>1 DEF AsyncClose, Session
  <2>3. AsyncClose(u) \in Session /\ AsyncPing(u) \in Session
    BY AsyncCloseSame, AsyncPingSame DEF SameTransfers
  <2>. QED
    BY <2>1, <2>2, <2>3 DEF SameMode, AsyncPing
<1>2. SameMode(t, ExpiresAfter(t)) /\ ExpiresAfter(t) \in Session
  BY TimerSameMode DEF SameMode
<1>3. DoClose(t) \in Session /\ SameMode(t, DoClose(t))
  BY <1>1, <1>2 DEF DoClose, SameMode
<1>. DEFINE q == [t EXCEPT !.quiet = TRUE]
<1>4. q \in Session /\ SameMode(t, q)
  BY DEF SameMode, Session
<1>. HIDE DEF q
<1>5. SameMode(t, ExpiresAfter(q)) /\ ExpiresAfter(q) \in Session
  BY <1>4, TimerSameMode DEF SameMode
<1>6. SameMode(t, DoPing(t))
  BY <1>1, <1>5 DEF DoPing, SameMode, q
<1>. QED
  BY <1>1, <1>3, <1>6

LEMMA ExpiredSameMode ==
  ASSUME NEW t \in Session
  PROVE  SameMode(t, Expired(t))
<1>1. ExpiresAfter(t) \in Session /\ SameMode(t, ExpiresAfter(t))
  BY TimerSameMode DEF SameMode
<1>2. SameMode(t, AsyncClose(ExpiresAfter(t)))
  BY <1>1, ControlSameMode DEF SameMode
<1>. QED
  BY <1>2, ControlSameMode DEF Expired

LEMMA LaunchedSameMode ==
  ASSUME NEW t \in Session
  PROVE  SameMode(t, LaunchTimer(t)) /\ SameMode(t, LaunchTimerWith(t, "close"))
<1>1. [t EXCEPT !.on_timer_cb = "close"] \in Session
      /\ SameMode(t, [t EXCEPT !.on_timer_cb = "close"])
  BY TimerSameMode DEF SameMode, TimerCbs
<1>. QED
  BY <1>1, TimerSameMode DEF LaunchTimer, LaunchTimerWith, SameMode

(* What ties an answer to its question, for an arbitrary session.          *)
Framed(t) ==
  /\ t.ops["write"] > 0 /\ t.auto_frame /\ t.got # "none" => t.sending.frame = t.got
  /\ ~t.accepted => t.got = "none"

LEMMA SameKeepsFramed ==
  ASSUME NEW t \in Session, NEW u, Framed(t), SameTransfers(t, u), SameMode(t, u)
  PROVE  Framed(u)
BY DEF SameTransfers, SameMode, Framed

(* A session with nothing to write is framed, whatever its handler chose.  *)
LEMMA IdleFramed ==
  ASSUME NEW t, t.accepted, t.ops["write"] = 0
  PROVE  Framed(t)
BY DEF Framed

(* The end of on_accept and on_read: what is written takes the frame the   *)
(* session has now.                                                        *)
LEMMA WriteOrReadFramed ==
  ASSUME NEW t, Undecided(t) \/ Reading(t),
         t.auto_frame /\ t.got # "none" => t.frame = t.got
  PROVE  Framed(WriteOrRead(t)) /\ WriteOrRead(t).got = t.got
<1>1. CASE Reading(t)
  BY <1>1, IdleFramed DEF Reading, WriteOrRead
<1>2. CASE Undecided(t) /\ t.output > 0
  <2>. DEFINE w == Start(t, "write")
              taken == [size |-> t.output, frame |-> t.frame]
  <2>1. w \in Session /\ w.accepted /\ w.auto_frame = t.auto_frame /\ w.got = t.got
    BY <1>2, StartType DEF Start, Undecided, Session, Kinds
  <2>2. WriteOrRead(t) = [w EXCEPT !.sending = taken]
    BY <1>2 DEF WriteOrRead, DoWrite, AsyncWrite, Undecided
  <2>3. taken.frame = t.frame
    OBVIOUS
  <2>. HIDE DEF w, taken
  <2>. QED
    BY <2>1, <2>2, <2>3 DEF Framed, Session
<1>3. CASE Undecided(t) /\ t.output = 0
  <2>1. Reading(WriteOrRead(t)) /\ WriteOrRead(t).got = t.got
    BY <1>3, DoReadReads DEF WriteOrRead, Undecided
  <2>. QED
    BY <2>1, IdleFramed DEF Reading
<1>4. Undecided(t) => t.output \in Nat
  BY DEF Undecided, Session
<1>. QED
  BY <1>1, <1>2, <1>3, <1>4

LEMMA UpgradeFramed ==
  ASSUME NEW t \in Session, Transfers(t), Framed(t), t.status = "http",
         NEW launch \in Launches
  PROVE  Framed(LaunchIf(DoAccept(t), launch))
<1>. DEFINE e == ExpiresAfter(t)
            w == Start(e, "handshake")
            a == [w EXCEPT !.status = "handshaking"]
            u == LaunchIf(a, launch)
<1>1. ~t.accepted /\ t.got = "none"
  BY DEF Transfers, Framed
<1>2. DoAccept(t) = a
  BY <1>1 DEF DoAccept, AsyncHandshake
<1>3. e \in Session /\ e.got = "none"
  BY <1>1, ExpiresAfterSame DEF SameTransfers
<1>. HIDE DEF e
<1>4. w \in Session /\ w.got = "none"
  BY <1>3, StartType DEF Start, Session, Kinds
<1>. HIDE DEF w
<1>5. a \in Session /\ a.got = "none"
  BY <1>4 DEF Session, Statuses
<1>. HIDE DEF a
<1>6. u.got = "none"
  BY <1>5, LaunchIfSame DEF SameTransfers
<1>. QED
  BY <1>2, <1>6 DEF Framed

LEMMA AcceptedFramed ==
  ASSUME NEW t \in Session, Transfers(t), Framed(t), Outstanding(t, "handshake"),
         NEW c \in Script, ~(c.out /\ c.read)
  PROVE  Framed(Accepted(Answer(t, "handshake", "ok"), c))
<1>. DEFINE h == UserHandler(AfterAccept(t), c)
<1>1. Accepted(Answer(t, "handshake", "ok"), c) = WriteOrRead(h)
  BY DEF Accepted, AfterAccept
<1>2. (Undecided(h) \/ Reading(h)) /\ h.got = "none"
  BY AfterAcceptUndecided, UserHandlerDecides DEF Framed
<1>. HIDE DEF h
<1>. QED
  BY <1>1, <1>2, WriteOrReadFramed

LEMMA ReceivedFramed ==
  ASSUME NEW t \in Session, Transfers(t), Outstanding(t, "read"),
         NEW got \in Frames, NEW c \in Script, ~(c.out /\ c.read)
  PROVE  Framed(Received(Answer(t, "read", "ok"), got, c))
<1>. DEFINE h == UserHandler(AfterRead(t, got), c)
            f == AutoFrame(h)
<1>1. Received(Answer(t, "read", "ok"), got, c) = WriteOrRead(f)
  BY DEF Received, AfterRead
<1>2. (Undecided(h) \/ Reading(h)) /\ h.got = got
  BY AfterReadUndecided, UserHandlerDecides
<1>. HIDE DEF h
<1>3. (Undecided(f) \/ Reading(f)) /\ f.got = got /\ (f.auto_frame => f.frame = got)
  BY <1>2 DEF AutoFrame, Undecided, Reading, Session
<1>. HIDE DEF f
<1>. QED
  BY <1>1, <1>3, WriteOrReadFramed

(* A failed transfer or a control frame that was sent: the write is over,  *)
(* or nothing of it has changed.                                           *)
LEMMA AnswerFramed ==
  ASSUME NEW t \in Session, Transfers(t), Framed(t), NEW k \in Kinds,
         Outstanding(t, k), NEW ec
  PROVE  Framed(Answer(t, k, ec))
<1>. DEFINE a == Answer(t, k, ec)
<1>1. t.ops \in [Kinds -> Nat] /\ t.ops["write"] <= 1
  BY DEF Session, Transfers, Kinds
<1>2. a.ops = [t.ops EXCEPT ![k] = @ - 1] /\ a.accepted = t.accepted
      /\ a.got = t.got /\ a.auto_frame = t.auto_frame
      /\ a.sending = IF k = "write" THEN NoSending ELSE t.sending
  BY AnswerEffect
<1>. HIDE DEF a
<1>3. CASE k = "write"
  <2>1. a.ops["write"] = 0
    BY <1>1, <1>2, <1>3 DEF Outstanding
  <2>. QED
    BY <1>2, <2>1 DEF Framed, a
<1>4. CASE k # "write"
  <2>1. a.ops["write"] = t.ops["write"]
    BY <1>1, <1>2, <1>4 DEF Kinds
  <2>. QED
    BY <1>2, <1>4, <2>1 DEF Framed, a
<1>. QED
  BY <1>3, <1>4

FrameInv == IInv /\ Framed(session)

LEMMA InitFrameInv == Init => FrameInv
<1>. SUFFICES ASSUME Init PROVE FrameInv
  OBVIOUS
<1>1. NewSession.ops["write"] = 0 /\ NewSession.got = "none"
  BY DEF NewSession, NoOps, Kinds
<1>. QED
  BY <1>1, InitIInv DEF Init, FrameInv, Framed

LEMMA NextFrameInv == FrameInv /\ [Next]_vars => FrameInv'
<1>. SUFFICES ASSUME FrameInv, [Next]_vars
              PROVE  FrameInv'
  OBVIOUS
<1>1. session \in Session /\ Transfers(session) /\ Framed(session)
  BY TransfersIsInv DEF FrameInv, IInv, TypeOK
<1>2. ASSUME Framed(session') PROVE FrameInv'
  <2>1. Framed(session)' <=> Framed(session')
    BY DEF Framed
  <2>. QED
    BY <1>2, <2>1, NextIInv DEF FrameInv
<1>3. CASE Upgrade
  BY <1>1, <1>2, <1>3, UpgradeFramed, AppAssumption DEF Upgrade, AppType
<1>4. CASE OnAccept
  BY <1>1, <1>2, <1>4, AcceptedFramed, AnswerFramed, HandlersType
  DEF OnAccept, Completes, Kinds
<1>5. CASE OnRead
  BY <1>1, <1>2, <1>5, ReceivedFramed, AnswerFramed, HandlersType
  DEF OnRead, Completes, Kinds
<1>6. CASE OnWrite
  <2>1. Outstanding(session, "write") =>
          Reading(Written(Answer(session, "write", "ok")))
    BY <1>1, WrittenTransfers
  <2>2. Outstanding(session, "write") =>
          Framed(Written(Answer(session, "write", "ok")))
    BY <2>1, IdleFramed DEF Reading
  <2>. QED
    BY <1>1, <1>2, <1>6, <2>2, AnswerFramed DEF OnWrite, Completes, Kinds
<1>7. CASE OnPing \/ OnPong \/ OnClose
  BY <1>1, <1>2, <1>7, AnswerFramed DEF OnPing, OnPong, OnClose, Completes, Kinds
<1>8. ASSUME NEW kind \in {"ping", "pong", "close"}, OnControl(kind)
      PROVE  FrameInv'
  <2>. DEFINE t == Heard(kind)
  <2>1. t \in Session /\ ~t.readable /\ t.accepted /\ t.ops["write"] = 0
    <3>1. session.accepted /\ session.ops["write"] = 0
      BY <1>1, <1>8 DEF OnControl, Transfers, Outstanding, Session, Kinds
    <3>. QED
      BY <1>1, <1>8, <3>1, HeardTransfers DEF OnControl, Heard, Session
  <2>. HIDE DEF t
  <2>2. SameTransfers(t, session')
    BY <1>8, <2>1, ControlHandlerType, UserHandlerSame DEF OnControl, t
  <2>3. session'.accepted /\ session'.ops["write"] = 0
    BY <2>1, <2>2 DEF SameTransfers
  <2>. QED
    BY <1>2, <2>3, IdleFramed
<1>9. CASE TimerCheck
  <2>1. SameTransfers(session, session')
    BY <1>1, <1>9, TakenSame DEF TimerCheck
  <2>2. SameMode(session, session')
    BY <1>1, <1>9, <2>1 DEF TimerCheck, SameTransfers, SameMode, Session
  <2>. QED
    BY <1>1, <1>2, <2>1, <2>2, SameKeepsFramed
<1>10. CASE TimerAct
  BY <1>1, <1>2, <1>10, ExpiredSame, ExpiredSameMode, SameKeepsFramed DEF TimerAct
<1>11. CASE Tick
  <2>1. SameTransfers(session, session')
    BY <1>1, <1>11, TickSame DEF Tick
  <2>2. SameMode(session, session')
    BY <1>1, <1>11, <2>1 DEF Tick, SameMode, SameTransfers, Session
  <2>. QED
    BY <1>1, <1>2, <2>1, <2>2, SameKeepsFramed
<1>12. CASE NetworkFails
  <2>1. session'.ops = session.ops /\ session'.accepted = session.accepted
        /\ session'.got = session.got /\ session'.auto_frame = session.auto_frame
        /\ session'.sending = session.sending
    BY <1>1, <1>12 DEF NetworkFails, Session
  <2>. QED
    BY <1>1, <1>2, <2>1 DEF Framed
<1>13. CASE UNCHANGED vars
  BY <1>1, <1>2, <1>13 DEF vars
<1>14. CASE PingedLaunches \/ WaitsAgain
  BY <1>1, <1>2, <1>14, LaunchedSame, LaunchedSameMode, SameKeepsFramed
  DEF PingedLaunches, WaitsAgain
<1>. QED
  BY <1>3, <1>4, <1>5, <1>6, <1>7, <1>8, <1>9, <1>10, <1>11, <1>12, <1>13, <1>14
  DEF Next, Ended

(* With automatic frames on_read answers a text message with a text        *)
(* message and a binary one with a binary one, whatever mode the handlers  *)
(* switch to in between and whatever interferes before the write is over.  *)
THEOREM FramesMatch == Spec => []AnswerHasItsFrame
<1>1. FrameInv => AnswerHasItsFrame
  BY DEF FrameInv, Framed, AnswerHasItsFrame, Writes
<1>. QED
  BY <1>1, InitFrameInv, NextFrameInv, PTL DEF Spec
-----------------------------------------------------------------------------
(* A server session implements Conversation: whatever its handlers, timers *)
(* and control frames do, it takes turns with its peer while the websocket *)
(* is open.                                                                *)

(* What one side of a step sees of a session.                              *)
TurnOf(t) ==
  IF ~t.accepted THEN "connecting"
  ELSE IF t.ops["write"] > 0 THEN "sending"
  ELSE IF t.ops["read"] > 0 THEN "receiving" ELSE "over"

LEMMA TurnIsTurnOf == Turn = TurnOf(session) /\ Turn' = TurnOf(session')
BY DEF Turn, TurnOf, Reads, Writes

(* The steps of Conversation, between two sessions.                        *)
TalkStep(t, u) ==
  \/ TurnOf(u) = TurnOf(t) /\ (u.status = "open" <=> t.status = "open")
  \/ TurnOf(u) = TurnOf(t) /\ u.status # "open"
  \/ TurnOf(t) = "connecting" /\ TurnOf(u) \in {"sending", "receiving"}
  \/ /\ TurnOf(t) = "receiving" /\ TurnOf(u) \in {"sending", "receiving"}
     /\ u.status = "open" => t.status = "open"
  \/ /\ TurnOf(t) = "sending" /\ TurnOf(u) = "receiving"
     /\ u.status = "open" <=> t.status = "open"
  \/ /\ TurnOf(t) \in {"sending", "receiving"} /\ TurnOf(u) = "over"
     /\ t.status # "open" /\ u.status # "open"

LEMMA TalkStepIsNext ==
  ASSUME TalkStep(session, session')
  PROVE  [Talk!Next]_(Talk!vars)
<1>1. /\ Talk!vars = <<Turn, session.status = "open">>
      /\ Talk!vars' = <<Turn', session'.status = "open">>
  BY DEF Talk!vars
<1>. QED
  BY <1>1, TurnIsTurnOf
  DEF TalkStep, Talk!Next, Talk!Open, Talk!Take, Talk!GoOn, Talk!Sent, Talk!GoDown, Talk!End

LEMMA SameTalks ==
  ASSUME NEW t \in Session, NEW u, SameTransfers(t, u)
  PROVE  TalkStep(t, u)
BY DEF SameTransfers, TalkStep, TurnOf

LEMMA EngagedTurn ==
  ASSUME NEW t \in Session, Engaged(t)
  PROVE  TurnOf(t) \in {"sending", "receiving"}
<1>1. t.ops["read"] \in Nat /\ t.ops["write"] \in Nat
  BY DEF Session, Kinds
<1>. QED
  BY <1>1 DEF Engaged, TurnOf

(* A failed transfer or handshake, and the end of a control frame.         *)
LEMMA AnswerTalks ==
  ASSUME NEW t \in Session, Transfers(t), NEW k \in Kinds, Outstanding(t, k),
         NEW ec \in Answers(t, k), k \in {"handshake", "read", "write"} => ec # "ok"
  PROVE  TalkStep(t, Answer(t, k, ec))
<1>. DEFINE a == Answer(t, k, ec)
<1>0. t.ops \in [Kinds -> Nat] /\ t.ops[k] > 0
  BY DEF Session, Outstanding
<1>1. a \in Session /\ a.ops = [t.ops EXCEPT ![k] = @ - 1]
      /\ a.accepted = t.accepted /\ a.status = StatusAfter(t, k, ec)
  BY AnswerEffect
<1>. HIDE DEF a
<1>2. CASE k \in {"ping", "pong", "close"}
  <2>1. a.ops["read"] = t.ops["read"] /\ a.ops["write"] = t.ops["write"]
    BY <1>0, <1>1, <1>2 DEF Kinds
  <2>2. a.status = t.status \/ a.status = "closed"
    BY <1>1, <1>2 DEF StatusAfter
  <2>. QED
    BY <1>1, <2>1, <2>2 DEF TalkStep, TurnOf, a
<1>3. CASE k = "handshake"
  <2>1. ~t.accepted /\ a.status = "failed"
    BY <1>0, <1>1, <1>3 DEF Transfers, StatusAfter, Answers
  <2>. QED
    BY <1>1, <2>1 DEF TalkStep, TurnOf, a
<1>4. CASE k \in {"read", "write"}
  <2>1. t.ops["read"] + t.ops["write"] = 1 /\ t.ops["read"] \in Nat /\ t.ops["write"] \in Nat
        /\ t.accepted /\ a.ops["read"] = 0 /\ a.ops["write"] = 0
    BY <1>0, <1>1, <1>4 DEF Transfers, Kinds
  <2>2. t.status # "open" /\ a.status # "open"
    BY <1>1, <1>4 DEF StatusAfter, Answers
  <2>. QED
    BY <1>1, <2>1, <2>2 DEF TalkStep, TurnOf, a
<1>. QED
  BY <1>2, <1>3, <1>4 DEF Kinds

LEMMA NextTalks == IInv /\ [Next]_vars => [Talk!Next]_(Talk!vars)
<1>. SUFFICES ASSUME IInv, [Next]_vars
              PROVE  TalkStep(session, session')
  BY TalkStepIsNext
<1>1. session \in Session /\ Transfers(session)
  BY TransfersIsInv DEF IInv, TypeOK
<1>2. session.ops["read"] \in Nat /\ session.ops["write"] \in Nat
  BY <1>1 DEF Session, Kinds
<1>3. TalkStep(session, session)
  BY DEF TalkStep
<1>4. CASE Upgrade
  <2>1. PICK launch \in Launches : session' = LaunchIf(DoAccept(session), launch)
    BY <1>4, AppAssumption DEF Upgrade, AppType
  <2>2. ~session.accepted /\ session.status = "http"
    BY <1>1, <1>4 DEF Upgrade, Transfers
  <2>3. ~session'.accepted /\ session'.status # "open"
    BY <1>1, <2>1, <2>2, UpgradeTransfers
  <2>. QED
    BY <2>2, <2>3 DEF TalkStep, TurnOf
<1>5. CASE OnAccept
  <2>1. CASE Completes("handshake", "ok")
             /\ \E c \in Handlers(App.accept) :
                  session' = Accepted(Answer(session, "handshake", "ok"), c)
    <3>1. session' \in Session /\ Engaged(session')
      BY <1>1, <2>1, AcceptedTransfers, HandlersType DEF Completes
    <3>2. ~session.accepted
      BY <1>1, <2>1 DEF Completes, Outstanding, Transfers
    <3>. QED
      BY <3>1, <3>2, EngagedTurn DEF TalkStep, TurnOf
  <2>2. CASE Completes("handshake", "fail")
             /\ session' = Answer(session, "handshake", "fail")
    BY <1>1, <2>2, AnswerTalks DEF Completes, Kinds
  <2>. QED
    BY <1>5, <2>1, <2>2 DEF OnAccept
<1>6. CASE OnRead
  <2>1. ASSUME NEW got \in Frames, NEW c \in Handlers(App.message), Completes("read", "ok"),
               session' = Received(Answer(session, "read", "ok"), got, c)
        PROVE  TalkStep(session, session')
    <3>1. session' \in Session /\ Engaged(session') /\ Later(session, session')
      BY <1>1, <2>1, ReceivedTransfers, HandlersType DEF Completes
    <3>2. TurnOf(session) = "receiving"
      BY <1>1, <1>2, <2>1 DEF Completes, Outstanding, Transfers, TurnOf
    <3>. QED
      BY <3>1, <3>2, EngagedTurn DEF TalkStep, Later
  <2>2. ASSUME NEW ec \in {"closed", "fail"}, Completes("read", ec),
               session' = Answer(session, "read", ec)
        PROVE  TalkStep(session, session')
    BY <1>1, <2>2, AnswerTalks DEF Completes, Kinds
  <2>. QED
    BY <1>6, <2>1, <2>2 DEF OnRead
<1>7. CASE OnWrite
  <2>1. CASE Completes("write", "ok") /\ session' = Written(Answer(session, "write", "ok"))
    <3>1. Reading(session') /\ session'.status = session.status
      BY <1>1, <2>1, WrittenTransfers DEF Completes
    <3>2. TurnOf(session) = "sending"
      BY <1>1, <1>2, <2>1 DEF Completes, Outstanding, Transfers, TurnOf
    <3>3. TurnOf(session') = "receiving"
      BY <3>1 DEF Reading, TurnOf
    <3>. QED
      BY <3>1, <3>2, <3>3 DEF TalkStep
  <2>2. CASE Completes("write", "fail") /\ session' = Answer(session, "write", "fail")
    BY <1>1, <2>2, AnswerTalks DEF Completes, Kinds
  <2>. QED
    BY <1>7, <2>1, <2>2 DEF OnWrite
<1>8. CASE OnPing \/ OnPong \/ OnClose
  BY <1>1, <1>8, AnswerTalks DEF OnPing, OnPong, OnClose, Completes, Kinds
<1>9. ASSUME NEW kind \in {"ping", "pong", "close"}, OnControl(kind)
      PROVE  TalkStep(session, session')
  <2>1. Heard(kind) \in Session /\ ~Heard(kind).readable
    BY <1>1, <1>9, HeardTransfers DEF OnControl
  <2>2. TurnOf(Heard(kind)) = TurnOf(session)
        /\ (Heard(kind).status = "open" => session.status = "open")
    BY <1>1 DEF Heard, TurnOf, Session
  <2>3. SameTransfers(Heard(kind), session')
    BY <1>9, <2>1, ControlHandlerType, UserHandlerSame DEF OnControl
  <2>4. TurnOf(session') = TurnOf(Heard(kind))
        /\ (session'.status = "open" => Heard(kind).status = "open")
    BY <2>3 DEF SameTransfers, TurnOf
  <2>. QED
    BY <2>2, <2>4 DEF TalkStep
<1>10. CASE TimerCheck
  BY <1>1, <1>10, TakenSame, SameTalks DEF TimerCheck
<1>11. CASE TimerAct
  BY <1>1, <1>11, ExpiredSame, SameTalks DEF TimerAct
<1>12. CASE Tick
  BY <1>1, <1>12, TickSame, SameTalks DEF Tick
<1>13. CASE NetworkFails
  <2>1. session'.status = "failed" /\ TurnOf(session') = TurnOf(session)
    BY <1>1, <1>13 DEF NetworkFails, Session, TurnOf
  <2>. QED
    BY <2>1 DEF TalkStep
<1>14. CASE UNCHANGED vars
  BY <1>3, <1>14 DEF vars
<1>15. CASE PingedLaunches \/ WaitsAgain
  BY <1>1, <1>15, LaunchedSame, SameTalks DEF PingedLaunches, WaitsAgain
<1>. QED
  BY <1>4, <1>5, <1>6, <1>7, <1>8, <1>9, <1>10, <1>11, <1>12, <1>13, <1>14, <1>15
  DEF Next, Ended

(* session<true> implements Conversation: it takes turns with its peer     *)
(* while the websocket is open, for every disciplined application.         *)
THEOREM ImplementsConversation == Spec => TakesTurns
<1>1. Init => Talk!Init
  BY DEF Init, NewSession, Talk!Init, Turn
<1>. QED
  BY <1>1, SessionInvariant, NextTalks, PTL DEF Spec, TakesTurns, Talk!Spec
=============================================================================
