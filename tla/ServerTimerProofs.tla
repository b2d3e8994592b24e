-------------------------- MODULE ServerTimerProofs --------------------------
(***************************************************************************)
(* The timer of a server session: it has one handler if nobody launches it *)
(* again, and it is never lost while the websocket is open, whatever       *)
(* handlers move its deadline or launch it again meanwhile.                *)
(***************************************************************************)
EXTENDS ServerSessionProofs

(* No step leads back to a session that has not been upgraded.             *)
LEMMA NeverBack ==
  ASSUME IInv, [Next]_vars, session.status # "http"
  PROVE  session'.status # "http"
<1>1. session \in Session /\ Transfers(session)
  BY TransfersIsInv DEF IInv, TypeOK
<1>2. ASSUME NEW k \in Kinds, NEW ec, Outstanding(session, k)
      PROVE  Answer(session, k, ec).status # "http"
  <2>1. session \in Session
    BY <1>1
  <2>2. Answered(session, k, ec, Answer(session, k, ec))
    BY <1>2, <2>1, AnswerGives
  <2>. QED
    BY <2>2 DEF Answered, StatusAfter
<1>3. ASSUME NEW t \in Session, t.status # "http", NEW u, SameTransfers(t, u)
      PROVE  u.status # "http"
  BY <1>3 DEF SameTransfers
<1>4. CASE OnAccept
  <2>1. ASSUME NEW c \in Handlers(App.accept), Completes("handshake", "ok"),
               session' = Accepted(Answer(session, "handshake", "ok"), c)
        PROVE  session'.status # "http"
    BY <1>1, <2>1, AcceptedTransfers, HandlersType DEF Completes, Engaged, Transfers
  <2>. QED
    BY <1>2, <1>4, <2>1 DEF OnAccept, Completes, Kinds
<1>5. CASE OnRead
  <2>1. ASSUME NEW got \in Frames, NEW c \in Handlers(App.message), Completes("read", "ok"),
               session' = Received(Answer(session, "read", "ok"), got, c)
        PROVE  session'.status # "http"
    BY <1>1, <2>1, ReceivedTransfers, HandlersType DEF Completes, Engaged, Transfers
  <2>. QED
    BY <1>2, <1>5, <2>1 DEF OnRead, Completes, Kinds
<1>6. CASE OnWrite
  <2>1. ASSUME Completes("write", "ok"), session' = Written(Answer(session, "write", "ok"))
        PROVE  session'.status # "http"
    BY <1>1, <2>1, WrittenTransfers DEF Completes
  <2>. QED
    BY <1>2, <1>6, <2>1 DEF OnWrite, Completes, Kinds
<1>7. CASE OnPing \/ OnPong \/ OnClose
  BY <1>2, <1>7 DEF OnPing, OnPong, OnClose, Completes, Kinds
<1>8. ASSUME NEW kind \in {"ping", "pong", "close"}, OnControl(kind)
      PROVE  session'.status # "http"
  <2>1. Heard(kind) \in Session /\ ~Heard(kind).readable /\ Heard(kind).status # "http"
    <3>1. Heard(kind) \in Session /\ ~Heard(kind).readable
      BY <1>1, <1>8, HeardTransfers DEF OnControl
    <3>. QED
      BY <1>1, <3>1 DEF Heard, Session
  <2>2. SameTransfers(Heard(kind), session')
    BY <1>8, <2>1, ControlHandlerType, UserHandlerSame DEF OnControl
  <2>. QED
    BY <1>3, <2>1, <2>2
<1>9. CASE TimerCheck
  BY <1>1, <1>3, <1>9, TakenSame DEF TimerCheck
<1>10. CASE TimerAct \/ PingedLaunches \/ WaitsAgain
  BY <1>1, <1>3, <1>10, ExpiredSame, LaunchedSame DEF TimerAct, PingedLaunches, WaitsAgain
<1>11. CASE Tick
  BY <1>1, <1>3, <1>11, TickSame DEF Tick
<1>12. CASE NetworkFails
  BY <1>1, <1>12 DEF NetworkFails, Session
<1>. QED
  BY <1>4, <1>5, <1>6, <1>7, <1>8, <1>9, <1>10, <1>11, <1>12
  DEF Next, Upgrade, Ended, vars

-----------------------------------------------------------------------------
(* A session without an upgrade has no timer handler.                      *)
FreshInv ==
  session.status = "http" =>
    session = NewSession /\ timer_pc = [stage \in TimerStages |-> 0]

LEMMA NextFreshInv == IInv /\ FreshInv /\ [Next]_vars => FreshInv'
<1>. SUFFICES ASSUME IInv, FreshInv, [Next]_vars, session.status = "http",
                     session'.status = "http"
              PROVE  UNCHANGED vars
  BY NeverBack DEF FreshInv, vars
<1>1. session = NewSession /\ timer_pc = [stage \in TimerStages |-> 0]
  BY DEF FreshInv
<1>2. session \in Session /\ Transfers(session)
  BY TransfersIsInv DEF IInv, TypeOK
<1>3. ~Upgrade
  BY <1>2, UpgradeTransfers, AppAssumption DEF Upgrade, AppType
<1>4. \A k \in Kinds : ~Outstanding(session, k)
  BY <1>1 DEF NewSession, NoOps, Outstanding
<1>5. ~(OnAccept \/ OnRead \/ OnWrite \/ OnPing \/ OnPong \/ OnClose)
  BY <1>4 DEF OnAccept, OnRead, OnWrite, OnPing, OnPong, OnClose, Completes, Kinds
<1>6. ~(TimerCheck \/ TimerAct \/ PingedLaunches \/ WaitsAgain \/ Tick \/ NetworkFails)
      /\ \A kind \in {"ping", "pong", "close"} : ~OnControl(kind)
  BY <1>1 DEF NewSession, TimerCheck, TimerAct, PingedLaunches, WaitsAgain, TimerStages,
              Tick, NetworkFails, OnControl
<1>. QED
  BY <1>3, <1>5, <1>6 DEF Next, Ended
-----------------------------------------------------------------------------
(* What the operations do to the timer.  None takes a timer handler away:  *)
(* expires_after only releases those that wait.  Launched(t, u, launch):   *)
(* from t to u the timer was launched that way, or left alone ("no").      *)
Armed(t) == t.waits + t.due

Launched(t, u, launch) ==
  /\ u \in Session /\ u.got = t.got
  /\ Armed(u) = IF launch = "no" THEN Armed(t) ELSE Armed(t) + 1
  /\ u.on_timer_cb = IF launch = "ping" THEN "ping" ELSE t.on_timer_cb

SameTimer(t, u) == Launched(t, u, "no")

LEMMA ArmedType ==
  ASSUME NEW t \in Session
  PROVE  t.waits \in Nat /\ t.due \in Nat /\ Armed(t) \in Nat
BY DEF Session, Armed

LEMMA SameThenLaunched ==
  ASSUME NEW t, NEW u, NEW v, NEW launch, SameTimer(t, u), Launched(u, v, launch)
  PROVE  Launched(t, v, launch)
BY DEF SameTimer, Launched

LEMMA LaunchedThenSame ==
  ASSUME NEW t, NEW u, NEW v, NEW launch, Launched(t, u, launch), SameTimer(u, v)
  PROVE  Launched(t, v, launch)
BY DEF SameTimer, Launched

LEMMA SameTimerTransitive ==
  ASSUME NEW t, NEW u, NEW v, SameTimer(t, u), SameTimer(u, v)
  PROVE  SameTimer(t, v)
BY DEF SameTimer, Launched

(* What touches neither the timer nor the message read last.               *)
LEMMA SameFieldsSameTimer ==
  ASSUME NEW t \in Session, NEW u \in Session, u.got = t.got,
         u.waits = t.waits, u.due = t.due, u.on_timer_cb = t.on_timer_cb
  PROVE  SameTimer(t, u)
BY DEF SameTimer, Launched, Armed

LEMMA StartSameTimer ==
  ASSUME NEW t \in Session, NEW k \in Kinds
  PROVE  SameTimer(t, Start(t, k)) /\ Start(t, k).status = t.status
<1>1. Start(t, k) \in Session
      /\ Start(t, k) = [t EXCEPT !.ops = [t.ops EXCEPT ![k] = @ + 1]]
  BY StartType
<1>2. Start(t, k).got = t.got /\ Start(t, k).waits = t.waits
      /\ Start(t, k).due = t.due /\ Start(t, k).on_timer_cb = t.on_timer_cb
       /\ Start(t, k).status = t.status
  BY <1>1 DEF Session
<1>. QED
  BY <1>1, <1>2, SameFieldsSameTimer

LEMMA ExpiresAfterSameTimer ==
  ASSUME NEW t \in Session
  PROVE  SameTimer(t, ExpiresAfter(t))
<1>1. ExpiresAfter(t) \in Session
  BY ExpiresAfterSame DEF SameTransfers
<1>2. ExpiresAfter(t).waits = 0 /\ ExpiresAfter(t).due = t.due + t.waits
      /\ ExpiresAfter(t).got = t.got /\ ExpiresAfter(t).on_timer_cb = t.on_timer_cb
  BY DEF ExpiresAfter, Session
<1>3. Armed(ExpiresAfter(t)) = Armed(t)
  BY <1>2, ArmedType DEF Armed
<1>. QED
  BY <1>1, <1>2, <1>3 DEF SameTimer, Launched

LEMMA AsyncWaitArms ==
  ASSUME NEW t \in Session
  PROVE  Launched(t, AsyncWait(t), "default") /\ AsyncWait(t).status = t.status
<1>. DEFINE u == AsyncWait(t)
<1>1. u \in Session
  BY AsyncWaitSame DEF SameTransfers
<1>2. u.waits = (IF t.deadline = "expired" THEN t.waits ELSE t.waits + 1)
      /\ u.due = (IF t.deadline = "expired" THEN t.due + 1 ELSE t.due)
      /\ u.got = t.got /\ u.on_timer_cb = t.on_timer_cb /\ u.status = t.status
     
  BY DEF AsyncWait, Session
<1>. HIDE DEF u
<1>3. Armed(u) = Armed(t) + 1
  BY <1>2, ArmedType DEF Armed
<1>. QED
  BY <1>1, <1>2, <1>3 DEF u, Launched

LEMMA LaunchTimerWithArms ==
  ASSUME NEW t \in Session, NEW f \in TimerCbs
  PROVE  LET u == LaunchTimerWith(t, f)
         IN  u \in Session /\ u.got = t.got /\ Armed(u) = Armed(t) + 1
             /\ u.on_timer_cb = f
<1>. DEFINE b == [t EXCEPT !.on_timer_cb = f]
<1>1. b \in Session /\ b.got = t.got /\ b.on_timer_cb = f
      /\ Armed(b) = Armed(t)
  BY DEF Session, Armed
<1>2. LaunchTimerWith(t, f) = AsyncWait(b)
  BY DEF LaunchTimerWith
<1>. HIDE DEF b
<1>. QED
  BY <1>1, <1>2, AsyncWaitArms DEF Launched

LEMMA LaunchIfLaunches ==
  ASSUME NEW t \in Session, NEW launch \in Launches
  PROVE  Launched(t, LaunchIf(t, launch), launch)
<1>1. CASE launch = "no"
  BY <1>1, SameFieldsSameTimer DEF LaunchIf, SameTimer
<1>2. CASE launch = "default"
  BY <1>2, AsyncWaitArms DEF LaunchIf, LaunchTimer
<1>3. CASE launch = "ping"
  BY <1>3, LaunchTimerWithArms DEF LaunchIf, Launched, TimerCbs
<1>. QED
  BY <1>1, <1>2, <1>3 DEF Launches

LEMMA AsyncCloseSameTimer ==
  ASSUME NEW t \in Session
  PROVE  SameTimer(t, AsyncClose(t)) /\ AsyncClose(t).status # "open"
<1>. DEFINE w == Start(t, "close")
<1>1. w \in Session /\ SameTimer(t, w)
  BY StartType, StartSameTimer DEF Kinds
<1>2. AsyncClose(t) = [w EXCEPT !.status = IF w.status = "open" THEN "closing" ELSE w.status]
  BY DEF AsyncClose
<1>. HIDE DEF w
<1>3. AsyncClose(t) \in Session /\ AsyncClose(t).got = w.got
      /\ AsyncClose(t).waits = w.waits /\ AsyncClose(t).due = w.due
      /\ AsyncClose(t).on_timer_cb = w.on_timer_cb
      /\ AsyncClose(t).status # "open"
  BY <1>1, <1>2 DEF Session, Statuses
<1>. QED
  BY <1>1, <1>3, SameFieldsSameTimer, SameTimerTransitive

LEMMA DoCloseSameTimer ==
  ASSUME NEW t \in Session
  PROVE  SameTimer(t, DoClose(t)) /\ (t.accepted => DoClose(t).status # "open")
<1>1. SameTimer(t, t)
  BY SameFieldsSameTimer
<1>2. ExpiresAfter(t) \in Session /\ SameTimer(t, ExpiresAfter(t))
  BY ExpiresAfterSameTimer DEF SameTimer, Launched
<1>. QED
  BY <1>1, <1>2, AsyncCloseSameTimer, SameTimerTransitive DEF DoClose

LEMMA DoPingSameTimer ==
  ASSUME NEW t \in Session
  PROVE  SameTimer(t, DoPing(t))
<1>. DEFINE q == [t EXCEPT !.quiet = TRUE]
            e == ExpiresAfter(q)
<1>1. q \in Session /\ q.got = t.got /\ q.waits = t.waits /\ q.due = t.due
      /\ q.on_timer_cb = t.on_timer_cb
  BY DEF Session
<1>2. SameTimer(t, t) /\ SameTimer(t, q)
  BY <1>1, SameFieldsSameTimer
<1>3. e \in Session /\ SameTimer(q, e)
  BY <1>1, ExpiresAfterSameTimer DEF SameTimer, Launched
<1>4. SameTimer(e, AsyncPing(e))
  BY <1>3, StartSameTimer DEF AsyncPing, Kinds
<1>5. DoPing(t) = IF t.accepted THEN AsyncPing(e) ELSE t
  BY DEF DoPing
<1>. HIDE DEF e, q
<1>. QED
  BY <1>2, <1>3, <1>4, <1>5, SameTimerTransitive

LEMMA SendControlSameTimer ==
  ASSUME NEW t \in Session, NEW call \in Calls
  PROVE  SameTimer(t, SendControl(t, call))
<1>1. SameTimer(t, t)
  BY SameFieldsSameTimer
<1>2. SameTimer(t, DoPong(t))
  <2>1. ExpiresAfter(t) \in Session /\ SameTimer(t, ExpiresAfter(t))
    BY ExpiresAfterSameTimer DEF SameTimer, Launched
  <2>2. SameTimer(ExpiresAfter(t), AsyncPong(ExpiresAfter(t)))
    BY <2>1, StartSameTimer DEF AsyncPong, Kinds
  <2>. QED
    BY <1>1, <2>1, <2>2, SameTimerTransitive DEF DoPong
<1>. QED
  BY <1>1, <1>2, DoPingSameTimer, DoCloseSameTimer DEF SendControl, Calls

LEMMA DoReadSameTimer ==
  ASSUME NEW t \in Session
  PROVE  SameTimer(t, DoRead(t))
<1>. DEFINE e == ExpiresAfter(t)
            r == [e EXCEPT !.readable = FALSE]
<1>1. e \in Session /\ SameTimer(t, e)
  BY ExpiresAfterSameTimer DEF SameTimer, Launched
<1>2. DoRead(t) = t \/ DoRead(t) = AsyncRead(r)
  BY DEF DoRead
<1>. HIDE DEF e
<1>3. r \in Session /\ SameTimer(e, r)
  <2>1. r \in Session /\ r.got = e.got /\ r.waits = e.waits /\ r.due = e.due
        /\ r.on_timer_cb = e.on_timer_cb
    BY <1>1 DEF Session
  <2>. QED
    BY <1>1, <2>1, SameFieldsSameTimer
<1>. HIDE DEF r
<1>4. SameTimer(r, AsyncRead(r))
  BY <1>3, StartSameTimer DEF AsyncRead, Kinds
<1>5. SameTimer(t, AsyncRead(r))
  BY <1>1, <1>3, <1>4, SameTimerTransitive
<1>. QED
  BY <1>2, <1>5, SameFieldsSameTimer

LEMMA DoWriteSameTimer ==
  ASSUME NEW t \in Session
  PROVE  SameTimer(t, DoWrite(t))
<1>. DEFINE w == Start(t, "write")
            taken == [size |-> t.output, frame |-> t.frame]
            u == [w EXCEPT !.sending = taken]
<1>1. w \in Session /\ SameTimer(t, w)
  BY StartType, StartSameTimer DEF Kinds
<1>2. taken \in [size : Nat, frame : Frames]
  BY DEF Session
<1>3. DoWrite(t) = t \/ DoWrite(t) = u
  BY DEF DoWrite, AsyncWrite
<1>. HIDE DEF w, taken
<1>4. u \in Session /\ u.got = w.got /\ u.waits = w.waits /\ u.due = w.due
      /\ u.on_timer_cb = w.on_timer_cb
  BY <1>1, <1>2 DEF Session
<1>. HIDE DEF u
<1>5. SameTimer(t, u)
  BY <1>1, <1>4, SameFieldsSameTimer, SameTimerTransitive
<1>. QED
  BY <1>3, <1>5, SameFieldsSameTimer

LEMMA WriteOrReadSameTimer ==
  ASSUME NEW t \in Session
  PROVE  SameTimer(t, WriteOrRead(t))
BY SameFieldsSameTimer, DoReadSameTimer, DoWriteSameTimer DEF WriteOrRead

(* Of all a user handler may do, only its launch_timer matters here.       *)
LEMMA UserHandlerLaunches ==
  ASSUME NEW t \in Session, NEW c \in Script
  PROVE  Launched(t, UserHandler(t, c), c.launch)
<1>. DEFINE f == SetFrame(t, c.frame)
            a == Append1(f, c.out)
            r == ReadIf(a, c.read)
            k == SendControl(r, c.call)
<1>0. c.out \in BOOLEAN /\ c.read \in BOOLEAN /\ c.frame \in FrameModes
      /\ c.call \in Calls /\ c.launch \in Launches
  BY DEF Script
<1>1. f \in Session /\ SameTimer(t, f)
  <2>1. f \in Session /\ f.got = t.got
    BY <1>0, SetFrameSame DEF SameTransfers
  <2>2. f.waits = t.waits /\ f.due = t.due /\ f.on_timer_cb = t.on_timer_cb
       
    BY <1>0 DEF SetFrame, Session, FrameModes
  <2>. QED
    BY <2>1, <2>2, SameFieldsSameTimer
<1>. HIDE DEF f
<1>2. a \in Session /\ SameTimer(f, a)
  <2>1. f.output \in Nat /\ f.output + 1 \in Nat
    BY <1>1 DEF Session
  <2>2. a = [f EXCEPT !.output = IF c.out THEN f.output + 1 ELSE f.output]
    BY DEF Append1
  <2>3. a \in Session /\ a.got = f.got /\ a.waits = f.waits /\ a.due = f.due
        /\ a.on_timer_cb = f.on_timer_cb
    BY <1>1, <2>1, <2>2 DEF Session
  <2>. QED
    BY <1>1, <2>3, SameFieldsSameTimer
<1>. HIDE DEF a
<1>3. r \in Session /\ SameTimer(a, r)
  BY <1>2, DoReadSameTimer, SameFieldsSameTimer DEF ReadIf, SameTimer, Launched
<1>. HIDE DEF r
<1>4. k \in Session /\ SameTimer(r, k)
  BY <1>0, <1>3, SendControlSameTimer DEF SameTimer, Launched
<1>. HIDE DEF k
<1>5. Launched(k, LaunchIf(k, c.launch), c.launch)
  BY <1>0, <1>4, LaunchIfLaunches
<1>6. SameTimer(t, k)
  BY <1>1, <1>2, <1>3, <1>4, SameTimerTransitive
<1>. QED
  BY <1>5, <1>6, SameThenLaunched DEF UserHandler, f, a, r, k

LEMMA AnswerSameTimer ==
  ASSUME NEW t \in Session, NEW k \in Kinds, Outstanding(t, k), NEW ec
  PROVE  SameTimer(t, Answer(t, k, ec))
<1>1. Answer(t, k, ec) \in Session
  BY AnswerEffect
<1>2. Answer(t, k, ec).got = t.got /\ Answer(t, k, ec).waits = t.waits
      /\ Answer(t, k, ec).due = t.due /\ Answer(t, k, ec).on_timer_cb = t.on_timer_cb
  BY DEF Answer, Session
<1>. QED
  BY <1>1, <1>2, SameFieldsSameTimer

(* The completion handlers.                                                *)
LEMMA AcceptedLaunches ==
  ASSUME NEW t \in Session, NEW c \in Script
  PROVE  Launched(t, Accepted(t, c), c.launch)
<1>. DEFINE b == [t EXCEPT !.accepted = TRUE]
            h == UserHandler(b, c)
<1>1. b \in Session /\ SameTimer(t, b)
  <2>1. b \in Session /\ b.got = t.got /\ b.waits = t.waits /\ b.due = t.due
        /\ b.on_timer_cb = t.on_timer_cb
    BY DEF Session
  <2>. QED
    BY <2>1, SameFieldsSameTimer
<1>. HIDE DEF b
<1>2. Launched(b, h, c.launch)
  BY <1>1, UserHandlerLaunches
<1>3. Accepted(t, c) = WriteOrRead(h)
  BY DEF Accepted, b
<1>. HIDE DEF h
<1>4. Launched(t, h, c.launch)
  BY <1>1, <1>2, SameThenLaunched
<1>5. h \in Session
  BY <1>2 DEF Launched
<1>. QED
  BY <1>3, <1>4, <1>5, WriteOrReadSameTimer, LaunchedThenSame

LEMMA ReceivedLaunches ==
  ASSUME NEW t \in Session, NEW got \in Frames, NEW c \in Script
  PROVE  LET b == [t EXCEPT !.readable = TRUE, !.got = got, !.quiet = FALSE]
         IN  Launched(b, Received(t, got, c), c.launch)
<1>. DEFINE b == [t EXCEPT !.readable = TRUE, !.got = got, !.quiet = FALSE]
            h == UserHandler(b, c)
            f == AutoFrame(h)
<1>1. b \in Session /\ b.got = got
  BY DEF Session
<1>. HIDE DEF b
<1>2. h \in Session /\ h.got \in Frames /\ Launched(b, h, c.launch)
  BY <1>1, UserHandlerLaunches DEF Launched
<1>. HIDE DEF h
<1>3. f \in Session /\ SameTimer(h, f)
  <2>1. f \in Session /\ f.got = h.got /\ f.waits = h.waits /\ f.due = h.due
        /\ f.on_timer_cb = h.on_timer_cb
    BY <1>2 DEF AutoFrame, Session
  <2>. QED
    BY <1>2, <2>1, SameFieldsSameTimer
<1>. HIDE DEF f
<1>4. Launched(b, WriteOrRead(f), c.launch)
  BY <1>2, <1>3, WriteOrReadSameTimer, LaunchedThenSame
<1>5. Received(t, got, c) = WriteOrRead(f)
  BY DEF Received, f, h, b
<1>. QED
  BY <1>4, <1>5 DEF b

LEMMA WrittenSameTimer ==
  ASSUME NEW t \in Session
  PROVE  SameTimer(t, Written(t))
<1>. DEFINE b == [t EXCEPT !.output = 0]
<1>1. b \in Session /\ SameTimer(t, b)
  <2>1. b \in Session /\ b.got = t.got /\ b.waits = t.waits /\ b.due = t.due
        /\ b.on_timer_cb = t.on_timer_cb
    BY DEF Session
  <2>. QED
    BY <2>1, SameFieldsSameTimer
<1>2. Written(t) = b \/ Written(t) = DoRead(b)
  BY DEF Written
<1>. HIDE DEF b
<1>. QED
  BY <1>1, <1>2, DoReadSameTimer, SameTimerTransitive

(* What on_timer does first leaves its handlers alone; without a callback  *)
(* that closes, the websocket may still be open.                           *)
LEMMA ExpiredSameTimer ==
  ASSUME NEW t \in Session
  PROVE  /\ SameTimer(t, Expired(t))
         /\ t.on_timer_cb = "close" /\ t.accepted => Expired(t).status # "open"
<1>1. ExpiresAfter(t) \in Session /\ SameTimer(t, ExpiresAfter(t))
  BY ExpiresAfterSameTimer DEF SameTimer, Launched
<1>2. SameTimer(t, AsyncClose(ExpiresAfter(t)))
  BY <1>1, AsyncCloseSameTimer, SameTimerTransitive
<1>. QED
  BY <1>2, DoPingSameTimer, DoCloseSameTimer DEF Expired

(* The upgrade launches the timer of a session that is not accepted yet.   *)
LEMMA UpgradeLaunches ==
  ASSUME session \in Session, Transfers(session), Upgrade
  PROVE  \E launch \in App.upgrade :
           /\ launch \in Launches /\ Launched(session, session', launch)
           /\ timer_pc' = timer_pc
           /\ ~session.accepted /\ ~session'.accepted /\ session'.status = "handshaking"
<1>1. PICK launch \in App.upgrade : session' = LaunchIf(DoAccept(session), launch)
  BY DEF Upgrade
<1>2. launch \in Launches
  BY AppAssumption DEF AppType
<1>3. ~session'.accepted /\ session'.status = "handshaking" /\ ~session.accepted
  BY <1>1, <1>2, UpgradeTransfers DEF Upgrade, Transfers
<1>. DEFINE e == ExpiresAfter(session)
            w == Start(e, "handshake")
            d == DoAccept(session)
<1>4. e \in Session /\ SameTimer(session, e)
  BY ExpiresAfterSameTimer DEF SameTimer, Launched
<1>5. d = [w EXCEPT !.status = "handshaking"]
  BY <1>3 DEF DoAccept, AsyncHandshake
<1>. HIDE DEF e, d
<1>6. w \in Session /\ SameTimer(e, w)
  BY <1>4, StartSameTimer DEF Kinds, SameTimer, Launched
<1>. HIDE DEF w
<1>7. d \in Session /\ d.got = w.got /\ d.waits = w.waits /\ d.due = w.due
      /\ d.on_timer_cb = w.on_timer_cb
  BY <1>5, <1>6 DEF Session, Statuses
<1>8. SameTimer(session, d)
  BY <1>4, <1>6, <1>7, SameFieldsSameTimer, SameTimerTransitive
<1>9. Launched(session, session', launch)
  BY <1>1, <1>2, <1>7, <1>8, LaunchIfLaunches, SameThenLaunched DEF d
<1>. QED
  BY <1>1, <1>2, <1>3, <1>9 DEF Upgrade

(* The handlers on the strand launch the timer when their user handler     *)
(* does.                                                                   *)
Scripts == App.accept \cup App.message \cup App.ping \cup App.pong \cup App.close

StrandStep(launch) ==
  /\ session' \in Session /\ timer_pc' = timer_pc
  /\ Armed(session') = IF launch = "no" THEN Armed(session) ELSE Armed(session) + 1
  /\ session'.on_timer_cb = IF launch = "ping" THEN "ping" ELSE session.on_timer_cb
  /\ ~session'.accepted => ~session.accepted /\ launch = "no"
  /\ session'.status = "open" => session.status = "open" \/ ~session.accepted
  /\ launch # "no" => \E c \in Scripts : c.launch = launch

StrandActs ==
  \/ OnAccept \/ OnRead \/ OnWrite \/ OnPing \/ OnPong \/ OnClose
  \/ \E kind \in {"ping", "pong", "close"} : OnControl(kind)

LEMMA StrandSteps ==
  ASSUME session \in Session, Transfers(session), StrandActs
  PROVE  \E launch \in Launches : StrandStep(launch)
<1>. DEFINE Goal == \E launch \in Launches : StrandStep(launch)
<1>1. ASSUME NEW k \in Kinds, NEW ec, Completes(k, ec),
             k = "handshake" => ec # "ok", session' = Answer(session, k, ec)
      PROVE  Goal
  <2>1. SameTimer(session, session')
    BY <1>1, AnswerSameTimer DEF Completes
  <2>2. session'.accepted = session.accepted
        /\ session'.status = StatusAfter(session, k, ec)
    <3>1. Outstanding(session, k)
      BY <1>1 DEF Completes
    <3>2. Answer(session, k, ec).accepted = session.accepted
      BY DEF Answer, Session
    <3>3. Answered(session, k, ec, Answer(session, k, ec))
      BY <3>1, AnswerGives
    <3>4. Answer(session, k, ec).status = StatusAfter(session, k, ec)
      BY <3>3 DEF Answered
    <3>. QED
      BY <1>1, <3>2, <3>4
  <2>3. session'.status = "open" => session.status = "open"
    BY <1>1, <2>2 DEF StatusAfter
  <2>4. StrandStep("no")
    BY <1>1, <2>1, <2>2, <2>3 DEF StrandStep, SameTimer, Launched, Completes
  <2>. QED
    BY <2>4 DEF Launches
<1>2. CASE OnAccept
  <2>1. ASSUME NEW c \in Handlers(App.accept), Completes("handshake", "ok"),
               session' = Accepted(Answer(session, "handshake", "ok"), c)
        PROVE  Goal
    <3>. DEFINE a == Answer(session, "handshake", "ok")
    <3>1. session'.accepted /\ c \in Script /\ c.launch \in Launches
      BY <2>1, AcceptedTransfers, HandlersType DEF Completes, Engaged, Script
    <3>2. a \in Session /\ SameTimer(session, a)
      BY <2>1, AnswerSameTimer DEF Completes, Kinds, SameTimer, Launched
    <3>. HIDE DEF a
    <3>3. Launched(session, session', c.launch)
      BY <2>1, <3>1, <3>2, AcceptedLaunches, SameThenLaunched DEF a
    <3>4. ~session.accepted
      BY <2>1 DEF Completes, Outstanding, Transfers
    <3>5. c.launch # "no" => c \in Scripts
      BY <2>1 DEF Handlers, Nothing, Scripts
    <3>6. StrandStep(c.launch)
      BY <2>1, <3>1, <3>3, <3>4, <3>5 DEF StrandStep, Launched, Completes
    <3>. QED
      BY <3>1, <3>6
  <2>. QED
    BY <1>1, <1>2, <2>1 DEF OnAccept, Kinds
<1>3. CASE OnRead
  <2>1. ASSUME NEW got \in Frames, NEW c \in Handlers(App.message), Completes("read", "ok"),
               session' = Received(Answer(session, "read", "ok"), got, c)
        PROVE  Goal
    <3>. DEFINE a == Answer(session, "read", "ok")
                b == [a EXCEPT !.readable = TRUE, !.got = got, !.quiet = FALSE]
    <3>1. session'.accepted /\ c \in Script /\ c.launch \in Launches
          /\ Later(session, session')
      BY <2>1, ReceivedTransfers, HandlersType DEF Completes, Engaged, Script
    <3>2. a \in Session /\ SameTimer(session, a)
      BY <2>1, AnswerSameTimer DEF Completes, Kinds, SameTimer, Launched
    <3>3. Launched(b, session', c.launch)
      BY <2>1, <3>1, <3>2, ReceivedLaunches
    <3>. HIDE DEF a
    <3>4. b.on_timer_cb = session.on_timer_cb /\ Armed(b) = Armed(session)
      BY <3>2 DEF Session, SameTimer, Launched, Armed
    <3>. HIDE DEF b
    <3>5. c.launch # "no" => c \in Scripts
      BY <2>1 DEF Handlers, Nothing, Scripts
    <3>6. StrandStep(c.launch)
      BY <2>1, <3>1, <3>3, <3>4, <3>5 DEF StrandStep, Launched, Completes, Later
    <3>. QED
      BY <3>1, <3>6
  <2>. QED
    BY <1>1, <1>3, <2>1 DEF OnRead, Kinds
<1>4. CASE OnWrite
  <2>1. ASSUME Completes("write", "ok"), session' = Written(Answer(session, "write", "ok"))
        PROVE  Goal
    <3>. DEFINE a == Answer(session, "write", "ok")
    <3>1. Reading(session') /\ session'.status = session.status
      BY <2>1, WrittenTransfers DEF Completes
    <3>2. a \in Session /\ SameTimer(session, a)
      BY <2>1, AnswerSameTimer DEF Completes, Kinds, SameTimer, Launched
    <3>. HIDE DEF a
    <3>3. SameTimer(session, session')
      BY <2>1, <3>2, WrittenSameTimer, SameTimerTransitive DEF a
    <3>4. StrandStep("no")
      BY <2>1, <3>1, <3>3 DEF StrandStep, SameTimer, Launched, Completes, Reading
    <3>. QED
      BY <3>4 DEF Launches
  <2>. QED
    BY <1>1, <1>4, <2>1 DEF OnWrite, Kinds
<1>5. CASE OnPing \/ OnPong \/ OnClose
  BY <1>1, <1>5 DEF OnPing, OnPong, OnClose, Kinds
<1>6. ASSUME NEW kind \in {"ping", "pong", "close"}, OnControl(kind)
      PROVE  Goal
  <2>. DEFINE h == Heard(kind)
  <2>1. h \in Session /\ ~h.readable
    BY <1>6, HeardTransfers DEF OnControl
  <2>2. h.on_timer_cb = session.on_timer_cb /\ Armed(h) = Armed(session)
        /\ h.accepted = session.accepted
        /\ (h.status = "open" => session.status = "open")
    BY DEF Heard, Session, Armed
  <2>3. session.accepted
    BY <1>6 DEF OnControl, Outstanding, Transfers
  <2>. HIDE DEF h
  <2>4. ASSUME NEW c \in Handlers(ControlHandler(kind)), session' = UserHandler(h, c)
        PROVE  Goal
    <3>1. c \in Script /\ ~c.out /\ c.launch \in Launches
      BY ControlHandlerType DEF Script
    <3>2. SameTransfers(h, session') /\ Launched(h, session', c.launch)
      BY <2>1, <2>4, <3>1, UserHandlerSame, UserHandlerLaunches
    <3>3. c.launch # "no" => c \in Scripts
      BY DEF ControlHandler, Handlers, Nothing, Scripts
    <3>4. StrandStep(c.launch)
      BY <1>6, <2>2, <2>3, <3>2, <3>3 DEF StrandStep, OnControl, SameTransfers, Launched
    <3>. QED
      BY <3>1, <3>4
  <2>. QED
    BY <1>6, <2>4 DEF OnControl, h
<1>. QED
  BY <1>2, <1>3, <1>4, <1>5, <1>6 DEF StrandActs

(* The handlers of the timer, for a session and the runs of on_timer.      *)
LEMMA HandlersCounted ==
  ASSUME session \in Session, timer_pc \in [TimerStages -> Nat]
  PROVE  /\ TimerHandlers = Armed(session) + Running
         /\ Armed(session) \in Nat /\ Running \in Nat
         /\ \A stage \in TimerStages : timer_pc[stage] \in Nat /\ timer_pc[stage] <= Running
         /\ "expired" \in TimerStages /\ "pinged" \in TimerStages /\ "again" \in TimerStages
<1>1. session.waits \in Nat /\ session.due \in Nat
  BY DEF Session
<1>. QED
  BY <1>1 DEF TimerHandlers, Armed, Running, TimerStages

(* on_timer's check takes one released handler, which it now is.           *)
LEMMA CheckKeepsHandlers ==
  ASSUME session \in Session, timer_pc \in [TimerStages -> Nat], TimerCheck
  PROVE  /\ session' \in Session /\ TimerHandlers' = TimerHandlers
         /\ timer_pc'["pinged"] = timer_pc["pinged"]
         /\ session'.on_timer_cb = session.on_timer_cb
         /\ session'.accepted = session.accepted /\ session'.status = session.status
<1>1. session' \in Session /\ session'.due = session.due - 1 /\ session'.waits = session.waits
      /\ session'.on_timer_cb = session.on_timer_cb
      /\ session'.accepted = session.accepted /\ session'.status = session.status
  <2>1. session.due - 1 \in Nat
    BY DEF TimerCheck, Session
  <2>. QED
    BY <2>1 DEF TimerCheck, Session
<1>2. timer_pc' = [timer_pc EXCEPT !["expired"] = @ + 1]
      \/ timer_pc' = [timer_pc EXCEPT !["again"] = @ + 1]
  BY DEF TimerCheck
<1>3. timer_pc'["pinged"] = timer_pc["pinged"] /\ Running' = Running + 1
  BY <1>2 DEF Running, TimerStages
<1>4. session.due \in Nat /\ session.waits \in Nat /\ Running \in Nat
  BY HandlersCounted DEF Session
<1>. QED
  BY <1>1, <1>3, <1>4 DEF TimerHandlers

(* The callback that pings leaves its run of on_timer alive, so does the   *)
(* default action; the one that closes was its last action.                *)
LEMMA ActKeepsHandlers ==
  ASSUME session \in Session, timer_pc \in [TimerStages -> Nat], TimerAct
  PROVE  /\ session' \in Session /\ session'.on_timer_cb = session.on_timer_cb
         /\ session.on_timer_cb # "close" => TimerHandlers' = TimerHandlers
         /\ session.on_timer_cb # "ping" => timer_pc'["pinged"] = timer_pc["pinged"]
         /\ session.on_timer_cb = "close" /\ session.accepted => session'.status # "open"
         /\ session'.accepted = session.accepted
         /\ session'.status = "open" => session.status = "open"
<1>1. session' = Expired(session)
  BY DEF TimerAct
<1>2. SameTransfers(session, session') /\ SameTimer(session, session')
      /\ (session.on_timer_cb = "close" /\ session.accepted => session'.status # "open")
  BY <1>1, ExpiredSame, ExpiredSameTimer
<1>3. session' \in Session /\ Armed(session') = Armed(session)
      /\ session'.on_timer_cb = session.on_timer_cb
  BY <1>2 DEF SameTimer, Launched
<1>4. timer_pc["expired"] \in Nat \ {0} /\ timer_pc["pinged"] \in Nat /\ timer_pc["again"] \in Nat
  BY DEF TimerAct, TimerStages
<1>5. CASE session.on_timer_cb = "ping"
  <2>1. timer_pc' = [timer_pc EXCEPT !["expired"] = @ - 1, !["pinged"] = @ + 1]
    BY <1>5 DEF TimerAct
  <2>2. Running' = Running
    BY <1>4, <2>1 DEF Running, TimerStages
  <2>. QED
    BY <1>2, <1>3, <1>5, <2>2 DEF TimerHandlers, Armed, SameTransfers
<1>6. CASE session.on_timer_cb = "close"
  <2>1. timer_pc' = [timer_pc EXCEPT !["expired"] = @ - 1]
    BY <1>6 DEF TimerAct
  <2>2. timer_pc'["pinged"] = timer_pc["pinged"]
    BY <2>1 DEF TimerStages
  <2>. QED
    BY <1>2, <1>3, <1>6, <2>2 DEF SameTransfers
<1>7. CASE session.on_timer_cb \notin {"ping", "close"}
  <2>1. timer_pc' = [timer_pc EXCEPT !["expired"] = @ - 1, !["again"] = @ + 1]
    BY <1>7 DEF TimerAct
  <2>2. Running' = Running /\ timer_pc'["pinged"] = timer_pc["pinged"]
    BY <1>4, <2>1 DEF Running, TimerStages
  <2>. QED
    BY <1>2, <1>3, <1>7, <2>2 DEF TimerHandlers, Armed, SameTransfers
<1>. QED
  BY <1>5, <1>6, <1>7

(* The launch_timer it ends with hands its run on to a new handler.        *)
LEMMA LaunchKeepsHandlers ==
  ASSUME session \in Session, timer_pc \in [TimerStages -> Nat], PingedLaunches \/ WaitsAgain
  PROVE  /\ session' \in Session /\ TimerHandlers' = TimerHandlers
         /\ TimerHandlers > 0
         /\ WaitsAgain => /\ session'.on_timer_cb = session.on_timer_cb
                          /\ timer_pc'["pinged"] = timer_pc["pinged"]
         /\ session'.accepted = session.accepted /\ session'.status = session.status
<1>1. session' \in Session /\ Armed(session') = Armed(session) + 1
      /\ (WaitsAgain => session'.on_timer_cb = session.on_timer_cb)
  <2>1. CASE PingedLaunches /\ ~WaitsAgain
    BY <2>1, LaunchTimerWithArms DEF PingedLaunches, TimerCbs
  <2>2. CASE WaitsAgain
    BY <2>2, AsyncWaitArms DEF WaitsAgain, LaunchTimer, Launched
  <2>. QED
    BY <2>1, <2>2
<1>2. timer_pc["expired"] \in Nat /\ timer_pc["pinged"] \in Nat /\ timer_pc["again"] \in Nat
  BY DEF TimerStages
<1>3. Running' = Running - 1 /\ Running > 0
      /\ (WaitsAgain => timer_pc'["pinged"] = timer_pc["pinged"])
  BY <1>2 DEF PingedLaunches, WaitsAgain, Running, TimerStages
<1>4. session'.accepted = session.accepted /\ session'.status = session.status
  BY DEF PingedLaunches, WaitsAgain, LaunchTimer, LaunchTimerWith, AsyncWait, Session
<1>5. TimerHandlers = Armed(session) + Running /\ TimerHandlers' = Armed(session') + Running'
      /\ Armed(session) \in Nat /\ Running \in Nat
  BY HandlersCounted DEF TimerHandlers, Armed
<1>. QED
  BY <1>1, <1>3, <1>4, <1>5

(* The deadline passes, the network fails, or nothing happens.             *)
LEMMA OthersKeepHandlers ==
  ASSUME session \in Session, timer_pc \in [TimerStages -> Nat],
         Tick \/ NetworkFails \/ UNCHANGED vars
  PROVE  /\ session' \in Session /\ TimerHandlers' = TimerHandlers
         /\ session'.on_timer_cb = session.on_timer_cb
         /\ session'.accepted = session.accepted
         /\ session'.status = "open" => session.status = "open"
         /\ session'.status = "http" <=> session.status = "http"
         /\ timer_pc' = timer_pc
<1>1. CASE Tick
  <2>1. session' \in Session
    BY <1>1, TickSame DEF Tick, SameTransfers
  <2>2. session'.waits = 0 /\ session'.due = session.due + session.waits
        /\ session'.on_timer_cb = session.on_timer_cb
        /\ session'.accepted = session.accepted /\ session'.status = session.status
        /\ timer_pc' = timer_pc
    BY <1>1 DEF Tick, Session
  <2>. QED
    BY <2>1, <2>2, HandlersCounted, ArmedType DEF TimerHandlers, Armed, Running
<1>2. CASE NetworkFails
  BY <1>2 DEF NetworkFails, Session, Statuses, TimerHandlers, Running
<1>3. CASE UNCHANGED vars
  BY <1>3 DEF vars, TimerHandlers, Running
<1>. QED
  BY <1>1, <1>2, <1>3
-----------------------------------------------------------------------------
(* While no user handler launches the timer again, a session whose upgrade *)
(* launched it has one handler: waiting, released, or at one of the stages *)
(* of on_timer.                                                            *)
NoLaunches == \A c \in Scripts : c.launch = "no"

OneTimerInv ==
  /\ IInv /\ FreshInv /\ OneTimerHandler
  /\ App.upgrade = {"default"} => session.on_timer_cb = "none" /\ timer_pc["pinged"] = 0

LEMMA InitOneTimerInv == Init => OneTimerInv
BY InitIInv DEF Init, OneTimerInv, FreshInv, OneTimerHandler, NewSession, TimerStages

LEMMA NextOneTimerInv ==
  ASSUME NoLaunches, OneTimerInv, [Next]_vars
  PROVE  OneTimerInv'
<1>1. IInv' /\ FreshInv' /\ session \in Session /\ session' \in Session /\ Transfers(session)
      /\ timer_pc \in [TimerStages -> Nat]
  BY NextIInv, NextFreshInv, TransfersIsInv DEF OneTimerInv, IInv, TypeOK
<1>. SUFFICES ASSUME App.upgrade = {"default"}
              PROVE  /\ session'.status # "http" => TimerHandlers' = 1
                     /\ session'.on_timer_cb = "none" /\ timer_pc'["pinged"] = 0
  BY <1>1 DEF OneTimerInv, OneTimerHandler
<1>2. FreshInv /\ session.on_timer_cb = "none" /\ timer_pc["pinged"] = 0
      /\ (session.status # "http" => TimerHandlers = 1)
  BY DEF OneTimerInv, OneTimerHandler
<1>3. session.status = "http" =>
        TimerHandlers = 0 /\ \A k \in Kinds : ~Outstanding(session, k)
  BY <1>2 DEF FreshInv, NewSession, NoOps, Outstanding, TimerHandlers, Running, TimerStages
<1>4. TimerHandlers = Armed(session) + Running /\ Armed(session) \in Nat /\ Running \in Nat
      /\ TimerHandlers' = Armed(session') + Running'
      /\ (timer_pc' = timer_pc => Running' = Running)
  BY <1>1, HandlersCounted DEF TimerHandlers, Armed, Running
<1>5. CASE Upgrade
  <2>1. Launched(session, session', "default") /\ timer_pc' = timer_pc
    BY <1>1, <1>5, UpgradeLaunches
  <2>. QED
    BY <1>2, <1>3, <1>4, <1>5, <2>1 DEF Launched, Upgrade
<1>6. CASE StrandActs
  <2>1. PICK launch \in Launches : StrandStep(launch)
    BY <1>1, <1>6, StrandSteps
  <2>2. launch = "no"
    BY <2>1 DEF StrandStep, NoLaunches
  <2>3. session.status # "http"
    BY <1>3, <1>6 DEF StrandActs, OnAccept, OnRead, OnWrite, OnPing, OnPong, OnClose,
                      OnControl, Completes, Kinds
  <2>. QED
    BY <1>2, <1>4, <2>1, <2>2, <2>3 DEF StrandStep
<1>7. CASE TimerCheck
  <2>1. session.status # "http"
    BY <1>2, <1>7 DEF TimerCheck, FreshInv, NewSession
  <2>. QED
    BY <1>1, <1>2, <1>7, <2>1, CheckKeepsHandlers
<1>8. CASE TimerAct
  <2>1. session.status # "http"
    BY <1>2, <1>8 DEF TimerAct, FreshInv, TimerStages
  <2>. QED
    BY <1>1, <1>2, <1>8, <2>1, ActKeepsHandlers
<1>9. CASE WaitsAgain
  <2>1. session.status # "http"
    BY <1>2, <1>9 DEF WaitsAgain, FreshInv, TimerStages
  <2>. QED
    BY <1>1, <1>2, <1>9, <2>1, LaunchKeepsHandlers
<1>10. ~PingedLaunches
  BY <1>2 DEF PingedLaunches
<1>11. CASE Tick \/ NetworkFails \/ UNCHANGED vars
  BY <1>1, <1>2, <1>11, OthersKeepHandlers
<1>. QED
  BY <1>5, <1>6, <1>7, <1>8, <1>9, <1>10, <1>11 DEF Next, Ended, StrandActs

(* on_timer without a callback closes and waits again: the handler the     *)
(* upgrade launched neither stops nor doubles, whatever threads run it and *)
(* whatever operations move the deadline meanwhile.                        *)
THEOREM OneTimer ==
  ASSUME NoLaunches
  PROVE  Spec => []OneTimerHandler
<1>1. OneTimerInv /\ [Next]_vars => OneTimerInv'
  BY NextOneTimerInv
<1>. QED
  BY <1>1, InitOneTimerInv, PTL DEF Spec, OneTimerInv
-----------------------------------------------------------------------------
(* A callback set before the websocket is open could run out before it is: *)
(* so the upgrade may only launch the default action.                      *)
ArmedInv ==
  /\ IInv
  /\ ~session.accepted => session.on_timer_cb = "none" /\ timer_pc["pinged"] = 0
  /\ KeepaliveArmed

LEMMA InitArmedInv == Init => ArmedInv
BY InitIInv DEF Init, ArmedInv, NewSession, KeepaliveArmed, TimerStages

LEMMA NextArmedInv ==
  ASSUME "ping" \notin App.upgrade, ArmedInv, [Next]_vars
  PROVE  ArmedInv'
<1>1. IInv' /\ session \in Session /\ session' \in Session /\ Transfers(session)
      /\ timer_pc \in [TimerStages -> Nat] /\ timer_pc' \in [TimerStages -> Nat]
  BY NextIInv, TransfersIsInv DEF ArmedInv, IInv, TypeOK
<1>. SUFFICES /\ ~session'.accepted => session'.on_timer_cb = "none" /\ timer_pc'["pinged"] = 0
              /\ session'.status = "open" /\ session'.on_timer_cb # "none"
                   => TimerHandlers' > 0
  BY <1>1 DEF ArmedInv, KeepaliveArmed
<1>2. /\ ~session.accepted => session.on_timer_cb = "none" /\ timer_pc["pinged"] = 0
      /\ session.status = "open" /\ session.on_timer_cb # "none" => TimerHandlers > 0
      /\ session.status = "open" => session.accepted
  BY <1>1 DEF ArmedInv, KeepaliveArmed, Transfers
<1>3. TimerHandlers = Armed(session) + Running /\ Armed(session) \in Nat /\ Running \in Nat
      /\ TimerHandlers' = Armed(session') + Running' /\ Armed(session') \in Nat
      /\ (timer_pc' = timer_pc => Running' = Running)
  BY <1>1, HandlersCounted, ArmedType DEF TimerHandlers, Armed, Running
<1>4. CASE Upgrade
  <2>1. PICK launch \in App.upgrade :
          Launched(session, session', launch) /\ ~session.accepted
          /\ session'.status = "handshaking" /\ timer_pc' = timer_pc
    BY <1>1, <1>4, UpgradeLaunches
  <2>. QED
    BY <1>2, <2>1 DEF Launched
<1>5. CASE StrandActs
  <2>1. PICK launch \in Launches : StrandStep(launch)
    BY <1>1, <1>5, StrandSteps
  <2>. QED
    BY <1>2, <1>3, <2>1 DEF StrandStep
<1>6. CASE TimerCheck
  BY <1>1, <1>2, <1>6, CheckKeepsHandlers
<1>7. CASE TimerAct
  BY <1>1, <1>2, <1>7, ActKeepsHandlers
<1>8. CASE PingedLaunches
  <2>1. session.accepted
    BY <1>2, <1>8 DEF PingedLaunches
  <2>. QED
    BY <1>1, <1>8, <2>1, LaunchKeepsHandlers
<1>9. CASE WaitsAgain
  BY <1>1, <1>2, <1>9, LaunchKeepsHandlers
<1>10. CASE Tick \/ NetworkFails \/ UNCHANGED vars
  BY <1>1, <1>2, <1>10, OthersKeepHandlers
<1>. QED
  BY <1>4, <1>5, <1>6, <1>7, <1>8, <1>9, <1>10 DEF Next, Ended, StrandActs

(* Once a session launched its keep-alive, do_read, do_write, the control  *)
(* frames and on_timer itself never leave an open websocket without it,    *)
(* however their steps interleave.                                         *)
THEOREM KeepaliveIsKept ==
  ASSUME "ping" \notin App.upgrade
  PROVE  Spec => []KeepaliveArmed
<1>1. ArmedInv /\ [Next]_vars => ArmedInv'
  BY NextArmedInv
<1>. QED
  BY <1>1, InitArmedInv, PTL DEF Spec, ArmedInv
=============================================================================
