-------------------------- MODULE ChatServerProofs --------------------------
(***************************************************************************)
(* What the chat server never does, for any clients, names and lines, any  *)
(* number of threads and any bounds.                                       *)
(*                                                                         *)
(* The first invariant, IInv, is about the control: a session is known by  *)
(* its fields and by what decides over its operations, and nothing is said *)
(* of the texts.  The second, BufferInv, which the first helps to keep, is *)
(* about what is in the buffers and on the list of messages.               *)
(***************************************************************************)
EXTENDS ChatServer, ChatMessageProofs, TLAPS

Fields ==
  {"accepted", "readable", "auto_frame", "on_timer_cb", "output", "deadline", "waits",
   "due", "quiet", "ops", "status", "frame", "got", "sending"}

Shaped(s) ==
  /\ s = [f \in Fields |-> s[f]]
  /\ s.accepted \in BOOLEAN /\ s.readable \in BOOLEAN
  /\ s.ops \in [Kinds -> Nat] /\ s.status \in Statuses

(* u differs from s in nothing that decides over its operations.           *)
Same(s, u) ==
  /\ Shaped(u) /\ u.accepted = s.accepted /\ u.readable = s.readable
  /\ u.ops = s.ops /\ u.status = s.status

(* A session before and after on_accept: a read is outstanding or readable *)
(* says that there is none, and an open session that is not readable reads. *)
Waiting(s) ==
  /\ s.readable /\ s.ops["read"] = 0 /\ s.ops["write"] = 0
  /\ s.status \in {"http", "handshaking", "failed"}
  /\ s.ops["handshake"] <= 1 /\ (s.status = "http" => s.ops["handshake"] = 0)

Serving(s) ==
  /\ s.ops["handshake"] = 0 /\ s.status \in {"open", "closing", "closed", "failed"}
  /\ s.ops["read"] <= 1 /\ (s.readable => s.ops["read"] = 0)
  /\ s.status = "open" /\ ~s.readable => s.ops["read"] = 1

SessionInv(s) ==
  Shaped(s) /\ (~s.accepted => Waiting(s)) /\ (s.accepted => Serving(s))

(* An open session waits for something, and a session that is online can   *)
(* be told something.                                                      *)
Lively(s) == s.status = "open" => s.ops["read"] + s.ops["write"] > 0

Online(s) == s.status \in {"open", "closing"}

(* What every step of a session keeps.                                     *)
Follows(s, u) ==
  /\ SessionInv(u) /\ (s.accepted => u.accepted) /\ (Online(u) => Online(s))

Total(f) == f = [c \in Clients |-> f[c]]

TypeInv ==
  /\ Total(sessions) /\ Total(told)
  /\ pc \in [Clients -> Stages] /\ todo \in [Clients -> SUBSET Clients]
  /\ at \in [Clients -> SUBSET Clients] /\ clients \in SUBSET Clients /\ crashed \in Crashes /\ said \in Nat

(* Between its handlers a session is lively, and so is one that leaves.    *)
Resting == {"idle", "leaving"}

SessionsInv ==
  \A c \in Clients : SessionInv(sessions[c]) /\ (pc[c] \in Resting => Lively(sessions[c]))

ListInv ==
  /\ \A c \in clients : sessions[c].accepted
  /\ \A c \in Clients \ clients : told[c] = 0

MutexInv ==
  /\ \A c, d \in Clients : pc[c] \in Holding /\ pc[d] \in Holding => c = d
  /\ \A c \in Clients : pc[c] \notin Holding => todo[c] = {}
  /\ \A c \in Clients : todo[c] \subseteq clients

(* Whoever is on the list and online has every message, or is still to be  *)
(* visited by the one handler that holds the mutex.                        *)
ToldInv ==
  \A c \in clients : Online(sessions[c]) =>
    told[c] = said \/ \E d \in Clients : c \in todo[d]

IInv ==
  TypeInv /\ SessionsInv /\ ListInv /\ MutexInv /\ ToldInv /\ NamedMayLeave
-----------------------------------------------------------------------------
(* Changing one field of a session.                                        *)
LEMMA SameSession ==
  ASSUME NEW s, SessionInv(s), NEW u, Same(s, u)
  PROVE  Follows(s, u) /\ (Lively(s) => Lively(u))
BY DEF Same, SessionInv, Follows, Waiting, Serving, Online, Lively

LEMMA FillSame ==
  ASSUME NEW s, Shaped(s), NEW text
  PROVE  Same(s, Fill(s, text))
<1>. DEFINE u == [s EXCEPT !.output = Len(text)]
<1>1. /\ u = [f \in Fields |-> u[f]]
      /\ u.accepted = s.accepted /\ u.readable = s.readable
      /\ u.ops = s.ops /\ u.status = s.status
  BY DEF Shaped, Fields
<1>2. Fill(s, text) = u
  BY DEF Fill
<1>. HIDE DEF u
<1>. QED
  BY <1>1, <1>2 DEF Shaped, Same

LEMMA AutoFrameSame ==
  ASSUME NEW s, Shaped(s)
  PROVE  Same(s, AutoFrame(s))
<1>. DEFINE frame == IF s.auto_frame THEN s.got ELSE s.frame
            u == [s EXCEPT !.frame = frame]
<1>1. AutoFrame(s) = u
  BY DEF AutoFrame
<1>. HIDE DEF frame
<1>2. /\ u = [f \in Fields |-> u[f]]
      /\ u.accepted = s.accepted /\ u.readable = s.readable
      /\ u.ops = s.ops /\ u.status = s.status
  BY DEF Shaped, Fields
<1>. HIDE DEF u
<1>. QED
  BY <1>1, <1>2 DEF Shaped, Same

LEMMA ExpiresAfterSame ==
  ASSUME NEW s, Shaped(s)
  PROVE  Same(s, ExpiresAfter(s))
<1>. DEFINE due == s.due + s.waits
            u == [s EXCEPT !.deadline = "armed", !.due = due, !.waits = 0]
<1>1. ExpiresAfter(s) = u
  BY DEF ExpiresAfter
<1>. HIDE DEF due
<1>2. /\ u = [f \in Fields |-> u[f]]
      /\ u.accepted = s.accepted /\ u.readable = s.readable
      /\ u.ops = s.ops /\ u.status = s.status
  BY DEF Shaped, Fields
<1>. HIDE DEF u
<1>. QED
  BY <1>1, <1>2 DEF Shaped, Same

LEMMA TimerSame ==
  ASSUME NEW s, Shaped(s), NEW cb, NEW quiet
  PROVE  Same(s, [s EXCEPT !.on_timer_cb = cb]) /\ Same(s, [s EXCEPT !.quiet = quiet])
<1>. DEFINE u == [s EXCEPT !.on_timer_cb = cb]
            v == [s EXCEPT !.quiet = quiet]
<1>1. /\ u = [f \in Fields |-> u[f]]
      /\ u.accepted = s.accepted /\ u.readable = s.readable
      /\ u.ops = s.ops /\ u.status = s.status
  BY DEF Shaped, Fields
<1>2. /\ v = [f \in Fields |-> v[f]]
      /\ v.accepted = s.accepted /\ v.readable = s.readable
      /\ v.ops = s.ops /\ v.status = s.status
  BY DEF Shaped, Fields
<1>. HIDE DEF u, v
<1>3. Same(s, u) /\ Same(s, v)
  BY <1>1, <1>2 DEF Shaped, Same
<1>. QED
  BY <1>3 DEF u, v

LEMMA SameTwice ==
  ASSUME NEW s, NEW u, NEW v, Same(s, u), Same(u, v)
  PROVE  Same(s, v)
BY DEF Same

LEMMA StatusEffect ==
  ASSUME NEW s, Shaped(s), NEW status \in Statuses
  PROVE  LET u == [s EXCEPT !.status = status]
         IN  /\ Shaped(u) /\ u.accepted = s.accepted /\ u.readable = s.readable
             /\ u.ops = s.ops /\ u.status = status
<1>. DEFINE u == [s EXCEPT !.status = status]
<1>1. /\ u = [f \in Fields |-> u[f]]
      /\ u.accepted = s.accepted /\ u.readable = s.readable
      /\ u.ops = s.ops /\ u.status = status
  BY DEF Shaped, Fields
<1>. HIDE DEF u
<1>. QED
  BY <1>1 DEF Shaped, u

LEMMA ReadableEffect ==
  ASSUME NEW s, Shaped(s), NEW r \in BOOLEAN
  PROVE  LET u == [s EXCEPT !.readable = r]
         IN  /\ Shaped(u) /\ u.accepted = s.accepted /\ u.readable = r
             /\ u.ops = s.ops /\ u.status = s.status
<1>. DEFINE u == [s EXCEPT !.readable = r]
<1>1. /\ u = [f \in Fields |-> u[f]]
      /\ u.accepted = s.accepted /\ u.readable = r
      /\ u.ops = s.ops /\ u.status = s.status
  BY DEF Shaped, Fields
<1>. HIDE DEF u
<1>. QED
  BY <1>1 DEF Shaped, u

LEMMA StartEffect ==
  ASSUME NEW s, Shaped(s), NEW k \in Kinds
  PROVE  LET u == Start(s, k)
         IN  /\ Shaped(u) /\ u.accepted = s.accepted /\ u.readable = s.readable
             /\ u.ops = [s.ops EXCEPT ![k] = @ + 1] /\ u.status = s.status
<1>. DEFINE ops == [s.ops EXCEPT ![k] = @ + 1]
            u == [s EXCEPT !.ops = ops]
<1>1. ops \in [Kinds -> Nat]
  BY DEF Shaped
<1>2. Start(s, k) = u
  BY DEF Start
<1>. HIDE DEF ops
<1>3. /\ u = [f \in Fields |-> u[f]]
      /\ u.accepted = s.accepted /\ u.readable = s.readable
      /\ u.ops = ops /\ u.status = s.status
  BY DEF Shaped, Fields
<1>. HIDE DEF u
<1>. QED
  BY <1>1, <1>2, <1>3 DEF Shaped, ops

LEMMA AnswerEffect ==
  ASSUME NEW s, Shaped(s), NEW k \in Kinds, NEW ec, Outstanding(s, k)
  PROVE  LET u == Answer(s, k, ec)
         IN  /\ Shaped(u) /\ u.accepted = s.accepted /\ u.readable = s.readable
             /\ u.ops = [s.ops EXCEPT ![k] = @ - 1] /\ u.status = StatusAfter(s, k, ec)
<1>. DEFINE ops == [s.ops EXCEPT ![k] = @ - 1]
            status == StatusAfter(s, k, ec)
            sending == IF k = "write" THEN NoSending ELSE s.sending
            u == [s EXCEPT !.ops = ops, !.status = status, !.sending = sending]
<1>1. ops \in [Kinds -> Nat]
  BY DEF Shaped, Outstanding
<1>2. status \in Statuses
  BY DEF StatusAfter, Shaped, Statuses
<1>3. Answer(s, k, ec) = u
  BY DEF Answer, Shaped, Fields
<1>. HIDE DEF ops, status, sending
<1>4. /\ u = [f \in Fields |-> u[f]]
      /\ u.accepted = s.accepted /\ u.readable = s.readable
      /\ u.ops = ops /\ u.status = status
  BY DEF Shaped, Fields
<1>. HIDE DEF u
<1>. QED
  BY <1>1, <1>2, <1>3, <1>4 DEF Shaped, ops, status
-----------------------------------------------------------------------------
(* The operations of a session.                                            *)
LEMMA DoReadFollows ==
  ASSUME NEW s, SessionInv(s)
  PROVE  /\ Follows(s, DoRead(s))
         /\ s.readable => Lively(DoRead(s))
         /\ Lively(s) => Lively(DoRead(s))
<1>1. CASE ~s.accepted \/ ~s.readable
  <2>1. DoRead(s) = s
    BY <1>1 DEF DoRead
  <2>2. ~s.accepted => Lively(s)
    BY DEF SessionInv, Waiting, Lively
  <2>. QED
    BY <1>1, <2>1, <2>2 DEF Follows
<1>2. CASE s.accepted /\ s.readable
  <2>. DEFINE e == ExpiresAfter(s)
              b == [e EXCEPT !.readable = FALSE]
              u == Start(b, "read")
  <2>1. Same(s, e)
    BY ExpiresAfterSame DEF SessionInv
  <2>. HIDE DEF e
  <2>2. Shaped(b) /\ b.accepted = e.accepted /\ b.readable = FALSE
        /\ b.ops = e.ops /\ b.status = e.status
    BY <2>1, ReadableEffect DEF Same
  <2>3. DoRead(s) = u
    BY <1>2 DEF DoRead, AsyncRead, e
  <2>. HIDE DEF b
  <2>4. Shaped(u) /\ u.accepted = b.accepted /\ u.readable = b.readable
        /\ u.ops = [b.ops EXCEPT !["read"] = @ + 1] /\ u.status = b.status
    BY <2>2, StartEffect DEF Kinds
  <2>. HIDE DEF u
  <2>5. s.ops \in [Kinds -> Nat] /\ s.ops["read"] = 0 /\ s.ops["handshake"] = 0
        /\ s.status \in {"open", "closing", "closed", "failed"}
    BY <1>2 DEF SessionInv, Serving, Shaped
  <2>6. u.ops["read"] = 1 /\ u.ops["handshake"] = 0 /\ u.ops["write"] = s.ops["write"]
        /\ s.ops["write"] \in Nat
    BY <2>1, <2>2, <2>4, <2>5 DEF Same, Kinds
  <2>7. u.accepted /\ u.readable = FALSE /\ u.status = s.status
    BY <1>2, <2>1, <2>2, <2>4 DEF Same
  <2>8. Serving(u)
    BY <2>5, <2>6, <2>7 DEF Serving
  <2>. QED
    BY <2>3, <2>4, <2>6, <2>7, <2>8 DEF Follows, SessionInv, Online, Lively
<1>. QED
  BY <1>1, <1>2 DEF SessionInv, Shaped

LEMMA DoWriteFollows ==
  ASSUME NEW s, SessionInv(s)
  PROVE  Follows(s, DoWrite(s)) /\ Lively(DoWrite(s))
<1>1. CASE ~s.accepted
  BY <1>1 DEF DoWrite, Follows, SessionInv, Waiting, Lively
<1>2. CASE s.accepted
  <2>. DEFINE b == Start(s, "write")
              sending == [size |-> s.output, frame |-> s.frame]
              u == [b EXCEPT !.sending = sending]
  <2>1. Shaped(b) /\ b.accepted = s.accepted /\ b.readable = s.readable
        /\ b.ops = [s.ops EXCEPT !["write"] = @ + 1] /\ b.status = s.status
    BY StartEffect DEF SessionInv, Kinds
  <2>2. DoWrite(s) = u
    BY <1>2 DEF DoWrite, AsyncWrite
  <2>. HIDE DEF b, sending
  <2>3. /\ u = [f \in Fields |-> u[f]]
        /\ u.accepted = b.accepted /\ u.readable = b.readable
        /\ u.ops = b.ops /\ u.status = b.status
    BY <2>1 DEF Shaped, Fields
  <2>. HIDE DEF u
  <2>4. s.ops \in [Kinds -> Nat]
    BY DEF SessionInv, Shaped
  <2>5. u.ops["read"] = s.ops["read"] /\ u.ops["handshake"] = s.ops["handshake"]
        /\ u.ops["write"] = s.ops["write"] + 1
        /\ s.ops["write"] \in Nat /\ s.ops["read"] \in Nat
    BY <2>1, <2>3, <2>4 DEF Kinds
  <2>6. Shaped(u)
    BY <2>1, <2>3 DEF Shaped
  <2>7. Serving(s)
    BY <1>2 DEF SessionInv
  <2>8. Serving(u)
    BY <2>1, <2>3, <2>5, <2>7 DEF Serving
  <2>9. u.ops["read"] + u.ops["write"] > 0
    BY <2>5
  <2>. QED
    BY <1>2, <2>1, <2>2, <2>3, <2>6, <2>8, <2>9 DEF Follows, SessionInv, Online, Lively
<1>. QED
  BY <1>1, <1>2 DEF SessionInv, Shaped

LEMMA FollowsTwice ==
  ASSUME NEW s, NEW u, NEW v, Follows(s, u), Follows(u, v)
  PROVE  Follows(s, v)
BY DEF Follows

LEMMA WriteOrReadFollows ==
  ASSUME NEW s, SessionInv(s)
  PROVE  Follows(s, WriteOrRead(s)) /\ Lively(WriteOrRead(s))
<1>1. CASE s.output > 0
  BY <1>1, DoWriteFollows DEF WriteOrRead
<1>2. CASE ~(s.output > 0) /\ s.readable
  BY <1>2, DoReadFollows DEF WriteOrRead
<1>3. CASE ~(s.output > 0) /\ ~s.readable
  <2>1. s.status = "open" => s.accepted
    BY DEF SessionInv, Waiting
  <2>2. s.status = "open" => s.ops["read"] = 1 /\ s.ops["write"] \in Nat
    BY <1>3, <2>1 DEF SessionInv, Serving, Shaped, Kinds
  <2>3. WriteOrRead(s) = s
    BY <1>3 DEF WriteOrRead
  <2>4. Lively(s)
    BY <2>2 DEF Lively
  <2>. QED
    BY <2>3, <2>4 DEF Follows
<1>. QED
  BY <1>1, <1>2, <1>3

(* A read, a write and a timer's operation are answered.                   *)
LEMMA AnswerOps ==
  ASSUME NEW s, SessionInv(s), NEW k \in {"read", "write", "ping", "close"}, NEW ec,
         Outstanding(s, k), ec \in Answers(s, k)
  PROVE  LET u == Answer(s, k, ec)
         IN  /\ Shaped(u) /\ u.accepted = s.accepted /\ u.readable = s.readable
             /\ u.ops["handshake"] = s.ops["handshake"]
             /\ u.ops["read"]  = s.ops["read"]  - (IF k = "read"  THEN 1 ELSE 0)
             /\ u.ops["write"] = s.ops["write"] - (IF k = "write" THEN 1 ELSE 0)
             /\ k \in {"read", "write"} => s.accepted
             /\ u.status \in {s.status, "closed"} /\ (ec = "closed" => u.status = "closed")
             /\ k # "close" /\ ec # "ok" => u.status # "open"
<1>. DEFINE u == Answer(s, k, ec)
<1>1. Shaped(s) /\ s.ops \in [Kinds -> Nat] /\ k \in Kinds /\ s.ops[k] > 0
  BY DEF SessionInv, Shaped, Kinds, Outstanding
<1>2. Shaped(u) /\ u.accepted = s.accepted /\ u.readable = s.readable
      /\ u.ops = [s.ops EXCEPT ![k] = @ - 1] /\ u.status = StatusAfter(s, k, ec)
  BY <1>1, AnswerEffect
<1>3. u.status \in {s.status, "closed"} /\ (ec = "closed" => u.status = "closed")
      /\ (k # "close" /\ ec # "ok" => u.status # "open")
  BY <1>2 DEF StatusAfter, Answers
<1>. HIDE DEF u
<1>4. u.ops["handshake"] = s.ops["handshake"]
      /\ u.ops["read"]  = s.ops["read"]  - (IF k = "read"  THEN 1 ELSE 0)
      /\ u.ops["write"] = s.ops["write"] - (IF k = "write" THEN 1 ELSE 0)
  BY <1>1, <1>2 DEF Kinds
<1>5. k \in {"read", "write"} => s.accepted
  BY <1>1 DEF SessionInv, Waiting
<1>. QED
  BY <1>2, <1>3, <1>4, <1>5 DEF u

LEMMA ReadFails ==
  ASSUME NEW s, SessionInv(s), Outstanding(s, "read"),
         NEW ec \in {"closed", "fail"}, ec \in Answers(s, "read")
  PROVE  Follows(s, Answer(s, "read", ec)) /\ Lively(Answer(s, "read", ec))
<1>. DEFINE u == Answer(s, "read", ec)
<1>1. Shaped(u) /\ u.accepted = s.accepted /\ u.readable = s.readable /\ s.accepted
      /\ u.ops["handshake"] = s.ops["handshake"] /\ u.ops["read"]  = s.ops["read"] - 1
      /\ u.status \in {s.status, "closed"} /\ u.status # "open"
  BY AnswerOps
<1>2. Serving(s) /\ s.ops["read"] = 1
  <2>1. Serving(s) /\ s.ops["read"] \in Nat /\ s.ops["read"] > 0
    BY <1>1 DEF SessionInv, Shaped, Kinds, Outstanding
  <2>. QED
    BY <2>1 DEF Serving
<1>. HIDE DEF u
<1>3. Serving(u)
  BY <1>1, <1>2 DEF Serving
<1>. QED
  BY <1>1, <1>3 DEF Follows, SessionInv, Online, Lively, u

LEMMA WriteAnswered ==
  ASSUME NEW s, SessionInv(s), Outstanding(s, "write"), NEW ec, ec \in Answers(s, "write")
  PROVE  LET u == Answer(s, "write", ec)
         IN  Follows(s, u) /\ (ec # "ok" => Lively(u))
<1>. DEFINE u == Answer(s, "write", ec)
<1>1. Shaped(u) /\ u.accepted = s.accepted /\ u.readable = s.readable /\ s.accepted
      /\ u.ops["handshake"] = s.ops["handshake"] /\ u.ops["read"] = s.ops["read"]
      /\ u.status \in {s.status, "closed"} /\ (ec # "ok" => u.status # "open")
  <2>1. u.ops["read"] = s.ops["read"] - 0
    BY AnswerOps
  <2>2. s.ops["read"] \in Nat
    BY DEF SessionInv, Shaped, Kinds
  <2>. QED
    BY <2>1, <2>2, AnswerOps
<1>2. Serving(s)
  BY <1>1 DEF SessionInv
<1>. HIDE DEF u
<1>3. Serving(u)
  BY <1>1, <1>2 DEF Serving
<1>. QED
  BY <1>1, <1>3 DEF Follows, SessionInv, Online, Lively, u

LEMMA WrittenFollows ==
  ASSUME NEW s, SessionInv(s)
  PROVE  Follows(s, Written(s)) /\ Lively(Written(s))
<1>. DEFINE u == [s EXCEPT !.output = 0]
<1>1. /\ u = [f \in Fields |-> u[f]]
      /\ u.accepted = s.accepted /\ u.readable = s.readable
      /\ u.ops = s.ops /\ u.status = s.status
  BY DEF SessionInv, Shaped, Fields
<1>2. Written(s) = IF s.readable THEN DoRead(u) ELSE u
  BY DEF Written
<1>. HIDE DEF u
<1>3. Same(s, u)
  BY <1>1 DEF Same, SessionInv, Shaped
<1>4. Follows(s, u) /\ SessionInv(u)
  BY <1>3, SameSession DEF Follows
<1>5. CASE s.readable
  BY <1>1, <1>2, <1>4, <1>5, DoReadFollows, FollowsTwice
<1>6. CASE ~s.readable
  <2>1. s.status = "open" => s.accepted
    BY DEF SessionInv, Waiting
  <2>2. s.status = "open" => s.ops["read"] = 1 /\ s.ops["write"] \in Nat
    BY <1>6, <2>1 DEF SessionInv, Serving, Shaped, Kinds
  <2>. QED
    BY <1>1, <1>2, <1>4, <1>6, <2>2 DEF Lively
<1>. QED
  BY <1>5, <1>6

LEMMA SentAnswered ==
  ASSUME NEW s, SessionInv(s), NEW k \in {"ping", "close"}, Outstanding(s, k),
         NEW ec, ec \in Answers(s, k)
  PROVE  LET u == Answer(s, k, ec)
         IN  Follows(s, u) /\ (Lively(s) => Lively(u))
<1>. DEFINE u == Answer(s, k, ec)
<1>1. Shaped(u) /\ u.accepted = s.accepted /\ u.readable = s.readable
      /\ u.ops["handshake"] = s.ops["handshake"] /\ u.ops["read"] = s.ops["read"] - 0
      /\ u.ops["write"] = s.ops["write"] - 0
      /\ u.status \in {s.status, "closed"}
  BY AnswerOps
<1>2. s.ops["read"] \in Nat /\ s.ops["write"] \in Nat
  BY DEF SessionInv, Shaped, Kinds
<1>3. u.ops["read"] = s.ops["read"] /\ u.ops["write"] = s.ops["write"]
  BY <1>1, <1>2
<1>4. ~s.accepted => u.status = s.status
  <2>1. u.status = StatusAfter(s, k, ec)
    <3>1. Shaped(s) /\ k \in Kinds /\ Outstanding(s, k)
      BY DEF SessionInv, Kinds
    <3>2. /\ Shaped(u) /\ u.accepted = s.accepted /\ u.readable = s.readable
          /\ u.ops = [s.ops EXCEPT ![k] = @ - 1] /\ u.status = StatusAfter(s, k, ec)
      BY <3>1, AnswerEffect
    <3>. QED
      BY <3>2
  <2>. QED
    BY <2>1 DEF SessionInv, Waiting, StatusAfter, Answers
<1>. HIDE DEF u
<1>5. ~u.accepted => Waiting(u)
  BY <1>1, <1>3, <1>4 DEF SessionInv, Waiting
<1>6. u.accepted => Serving(u)
  BY <1>1, <1>3 DEF SessionInv, Serving
<1>. QED
  BY <1>1, <1>3, <1>5, <1>6 DEF Follows, SessionInv, Online, Lively, u

(* A message is heard; what it leads to is said next.                      *)
LEMMA HeardFollows ==
  ASSUME NEW c \in Clients, SessionInv(sessions[c]), Completes(c, "read", "ok")
  PROVE  Follows(sessions[c], Heard(c)) /\ sessions[c].accepted
<1>. DEFINE s == sessions[c]
            a == Answer(s, "read", "ok")
            b == [a EXCEPT !.readable = TRUE]
            d == [b EXCEPT !.got = "text", !.quiet = FALSE]
<1>1. Outstanding(s, "read") /\ "ok" \in Answers(s, "read") /\ SessionInv(s)
  BY DEF Completes
<1>2. Shaped(a) /\ a.accepted = s.accepted /\ s.accepted
      /\ a.ops["handshake"] = s.ops["handshake"] /\ a.ops["read"] = s.ops["read"] - 1
      /\ a.status \in {s.status, "closed"}
  BY <1>1, AnswerOps
<1>3. s.ops["read"] = 1 /\ Serving(s)
  BY <1>1, <1>2 DEF SessionInv, Serving, Outstanding, Shaped, Kinds
<1>4. Heard(c) = d
  BY DEF Heard
<1>. HIDE DEF a
<1>5. Shaped(b) /\ b.accepted = a.accepted /\ b.readable = TRUE
      /\ b.ops = a.ops /\ b.status = a.status
  BY <1>2, ReadableEffect
<1>. HIDE DEF b
<1>6. /\ d = [f \in Fields |-> d[f]]
      /\ d.accepted = b.accepted /\ d.readable = b.readable
      /\ d.ops = b.ops /\ d.status = b.status
  BY <1>5 DEF Shaped, Fields
<1>. HIDE DEF d
<1>7. Shaped(d)
  BY <1>5, <1>6 DEF Shaped
<1>8. Serving(d)
  BY <1>2, <1>3, <1>5, <1>6 DEF Serving
<1>. QED
  BY <1>2, <1>4, <1>5, <1>6, <1>7, <1>8 DEF Follows, SessionInv, Online

LEMMA AcceptStarts ==
  ASSUME NEW s, SessionInv(s), s.status = "http"
  PROVE  Follows(s, DoAccept(s)) /\ Lively(DoAccept(s))
<1>. DEFINE e == ExpiresAfter(s)
            b == Start(e, "handshake")
            u == [b EXCEPT !.status = "handshaking"]
<1>1. ~s.accepted /\ Waiting(s) /\ Shaped(s)
  BY DEF SessionInv, Serving
<1>2. Same(s, e)
  BY <1>1, ExpiresAfterSame
<1>3. DoAccept(s) = u
  BY <1>1 DEF DoAccept, AsyncHandshake
<1>. HIDE DEF e
<1>4. Shaped(b) /\ b.accepted = e.accepted /\ b.readable = e.readable
      /\ b.ops = [e.ops EXCEPT !["handshake"] = @ + 1]
  BY <1>2, StartEffect DEF Same, Kinds
<1>. HIDE DEF b
<1>5. Shaped(u) /\ u.accepted = b.accepted /\ u.readable = b.readable /\ u.ops = b.ops
      /\ u.status = "handshaking"
  BY <1>4, StatusEffect DEF Statuses
<1>. HIDE DEF u
<1>6. Waiting(u)
  <2>1. s.ops \in [Kinds -> Nat] /\ s.ops["handshake"] = 0 /\ s.ops["read"] = 0
        /\ s.ops["write"] = 0 /\ s.readable
    BY <1>1 DEF Waiting, Shaped
  <2>2. u.ops = [s.ops EXCEPT !["handshake"] = @ + 1] /\ u.readable = s.readable
    BY <1>2, <1>4, <1>5 DEF Same
  <2>3. u.ops["handshake"] = 1 /\ u.ops["read"] = 0 /\ u.ops["write"] = 0
    BY <2>1, <2>2 DEF Kinds
  <2>. QED
    BY <1>5, <2>1, <2>2, <2>3 DEF Waiting
<1>. QED
  BY <1>1, <1>2, <1>3, <1>4, <1>5, <1>6 DEF Follows, SessionInv, Online, Lively, Same

LEMMA AcceptAnswered ==
  ASSUME NEW s, SessionInv(s), Outstanding(s, "handshake"), NEW ec,
         ec \in Answers(s, "handshake")
  PROVE  LET u == Answer(s, "handshake", ec)
         IN  /\ Shaped(u) /\ ~s.accepted /\ u.accepted = s.accepted
             /\ u.readable = s.readable /\ s.readable
             /\ u.ops["handshake"] = 0 /\ u.ops["read"] = 0 /\ u.ops["write"] = 0
             /\ u.status = IF ec = "ok" THEN "open" ELSE "failed"
<1>. DEFINE u == Answer(s, "handshake", ec)
<1>1. Shaped(s) /\ s.ops \in [Kinds -> Nat] /\ s.ops["handshake"] > 0
  BY DEF SessionInv, Shaped, Outstanding
<1>2. ~s.accepted /\ Waiting(s)
  BY <1>1 DEF SessionInv, Serving
<1>3. Shaped(u) /\ u.accepted = s.accepted /\ u.readable = s.readable
      /\ u.ops = [s.ops EXCEPT !["handshake"] = @ - 1]
      /\ u.status = StatusAfter(s, "handshake", ec)
  <2>1. "handshake" \in Kinds
    BY DEF Kinds
  <2>. QED
    BY <1>1, <2>1, AnswerEffect
<1>4. ec \in {"ok", "fail"}
  BY DEF Answers
<1>5. u.status = IF ec = "ok" THEN "open" ELSE "failed"
  BY <1>3, <1>4 DEF StatusAfter
<1>. HIDE DEF u
<1>6. s.ops["handshake"] = 1 /\ s.ops["read"] = 0 /\ s.ops["write"] = 0 /\ s.readable
  BY <1>1, <1>2 DEF Waiting, Kinds
<1>7. u.ops["handshake"] = 0 /\ u.ops["read"] = 0 /\ u.ops["write"] = 0
  BY <1>1, <1>3, <1>6 DEF Kinds
<1>. QED
  BY <1>2, <1>3, <1>5, <1>6, <1>7 DEF u

LEMMA AcceptFails ==
  ASSUME NEW s, SessionInv(s), Outstanding(s, "handshake"),
         "fail" \in Answers(s, "handshake")
  PROVE  Follows(s, Answer(s, "handshake", "fail"))
         /\ Lively(Answer(s, "handshake", "fail"))
<1>. DEFINE u == Answer(s, "handshake", "fail")
<1>1. Shaped(u) /\ ~s.accepted /\ u.accepted = s.accepted /\ u.readable
      /\ u.ops["handshake"] = 0 /\ u.ops["read"] = 0 /\ u.ops["write"] = 0
      /\ u.status = "failed"
  BY AcceptAnswered
<1>. HIDE DEF u
<1>. QED
  BY <1>1 DEF Follows, SessionInv, Waiting, Online, Lively, u

LEMMA AcceptSucceeds ==
  ASSUME NEW s, SessionInv(s), Outstanding(s, "handshake"),
         "ok" \in Answers(s, "handshake"), NEW text
  PROVE  LET u == WriteOrRead(Fill(
                    [Answer(s, "handshake", "ok") EXCEPT !.accepted = TRUE], text))
         IN  SessionInv(u) /\ Lively(u) /\ ~s.accepted
<1>. DEFINE a == Answer(s, "handshake", "ok")
            b == [a EXCEPT !.accepted = TRUE]
            f == Fill(b, text)
<1>1. Shaped(a) /\ ~s.accepted /\ a.readable
      /\ a.ops["handshake"] = 0 /\ a.ops["read"] = 0 /\ a.ops["write"] = 0
      /\ a.status = "open"
  BY AcceptAnswered
<1>. HIDE DEF a
<1>2. /\ b = [g \in Fields |-> b[g]]
      /\ b.accepted = TRUE /\ b.readable = a.readable
      /\ b.ops = a.ops /\ b.status = a.status
  BY <1>1 DEF Shaped, Fields
<1>. HIDE DEF b
<1>3. SessionInv(b)
  <2>1. Shaped(b)
    BY <1>1, <1>2 DEF Shaped
  <2>2. b.ops["handshake"] = 0 /\ b.ops["read"] = 0 /\ b.status = "open" /\ b.readable
    BY <1>1, <1>2
  <2>3. Serving(b)
    BY <2>2 DEF Serving
  <2>. QED
    BY <1>2, <2>1, <2>3 DEF SessionInv
<1>4. SessionInv(f)
  BY <1>3, FillSame, SameSession DEF SessionInv, Follows
<1>. QED
  BY <1>1, <1>4, WriteOrReadFollows DEF Follows, a, b

(* The end of the stream.                                                  *)
LEMMA StreamEnds ==
  ASSUME NEW s, SessionInv(s), NEW status \in {"closed", "failed"},
         status = "closed" => s.accepted
  PROVE  LET u == [s EXCEPT !.status = status] IN Follows(s, u) /\ Lively(u)
<1>. DEFINE u == [s EXCEPT !.status = status]
<1>1. Shaped(u) /\ u.accepted = s.accepted /\ u.readable = s.readable
      /\ u.ops = s.ops /\ u.status = status
  <2>1. Shaped(s) /\ status \in Statuses
    BY DEF SessionInv, Statuses
  <2>. QED
    BY <2>1, StatusEffect
<1>. HIDE DEF u
<1>. QED
  BY <1>1 DEF Follows, SessionInv, Waiting, Serving, Online, Lively, u

(* The timer's handlers.                                                   *)
LEMMA DoPingFollows ==
  ASSUME NEW s, SessionInv(s)
  PROVE  Follows(s, DoPing(s)) /\ (Lively(s) => Lively(DoPing(s)))
<1>1. CASE ~s.accepted
  BY <1>1 DEF DoPing, Follows
<1>2. CASE s.accepted
  <2>. DEFINE q == [s EXCEPT !.quiet = TRUE]
              e == ExpiresAfter(q)
              u == Start(e, "ping")
  <2>1. Same(s, q)
    BY TimerSame DEF SessionInv
  <2>2. DoPing(s) = u
    BY <1>2 DEF DoPing, AsyncPing
  <2>. HIDE DEF q
  <2>3. Same(q, e)
    BY <2>1, ExpiresAfterSame DEF Same
  <2>4. Same(s, e)
    BY <2>1, <2>3, SameTwice
  <2>. HIDE DEF e
  <2>5. Shaped(u) /\ u.accepted = e.accepted /\ u.readable = e.readable
        /\ u.ops = [e.ops EXCEPT !["ping"] = @ + 1] /\ u.status = e.status
    BY <2>4, StartEffect DEF Same, Kinds
  <2>. HIDE DEF u
  <2>6. u.ops["read"] = s.ops["read"] /\ u.ops["write"] = s.ops["write"]
        /\ u.ops["handshake"] = s.ops["handshake"]
    BY <2>4, <2>5 DEF Same, Shaped, Kinds
  <2>7. Serving(u)
    BY <1>2, <2>4, <2>5, <2>6 DEF SessionInv, Serving, Same
  <2>. QED
    BY <1>2, <2>2, <2>4, <2>5, <2>6, <2>7 DEF Follows, SessionInv, Online, Lively, Same
<1>. QED
  BY <1>1, <1>2

LEMMA DoCloseFollows ==
  ASSUME NEW s, SessionInv(s)
  PROVE  Follows(s, DoClose(s)) /\ (Lively(s) => Lively(DoClose(s)))
<1>1. CASE ~s.accepted
  BY <1>1 DEF DoClose, Follows
<1>2. CASE s.accepted
  <2>. DEFINE e == ExpiresAfter(s)
              b == Start(e, "close")
              status == IF b.status = "open" THEN "closing" ELSE b.status
              u == [b EXCEPT !.status = status]
  <2>1. Same(s, e)
    BY ExpiresAfterSame DEF SessionInv
  <2>2. DoClose(s) = u
    BY <1>2 DEF DoClose, AsyncClose
  <2>. HIDE DEF e
  <2>3. Shaped(b) /\ b.accepted = e.accepted /\ b.readable = e.readable
        /\ b.ops = [e.ops EXCEPT !["close"] = @ + 1] /\ b.status = e.status
    BY <2>1, StartEffect DEF Same, Kinds
  <2>. HIDE DEF b
  <2>4. status \in Statuses
    BY <2>3 DEF Shaped, Statuses
  <2>5. status # "open" /\ (status \in {"open", "closing"} => b.status \in {"open", "closing"})
        /\ (b.status \in {"open", "closing", "closed", "failed"} =>
              status \in {"open", "closing", "closed", "failed"})
    OBVIOUS
  <2>. HIDE DEF status
  <2>6. Shaped(u) /\ u.accepted = b.accepted /\ u.readable = b.readable
        /\ u.ops = b.ops /\ u.status = status
    BY <2>3, <2>4, StatusEffect
  <2>. HIDE DEF u
  <2>7. u.ops["read"] = s.ops["read"] /\ u.ops["write"] = s.ops["write"]
        /\ u.ops["handshake"] = s.ops["handshake"]
    BY <2>1, <2>3, <2>6 DEF Same, Shaped, Kinds
  <2>8. Serving(u)
    BY <1>2, <2>1, <2>3, <2>5, <2>6, <2>7 DEF SessionInv, Serving, Same
  <2>. QED
    BY <1>2, <2>1, <2>2, <2>3, <2>5, <2>6, <2>8 DEF Follows, SessionInv, Online, Lively, Same
<1>. QED
  BY <1>1, <1>2
-----------------------------------------------------------------------------
LEMMA InitIInv == Init => IInv
<1>. SUFFICES ASSUME Init PROVE IInv
  OBVIOUS
<1>1. Shaped(NewSession)
  <2>1. /\ NewSession.accepted \in BOOLEAN /\ NewSession.readable \in BOOLEAN
        /\ NewSession.ops \in [Kinds -> Nat] /\ NewSession.status \in Statuses
    BY DEF NewSession, NoOps, Statuses
  <2>2. NewSession = [f \in Fields |-> NewSession[f]]
    BY DEF NewSession, Fields
  <2>. QED
    BY <2>1, <2>2 DEF Shaped
<1>2. Waiting(NewSession) /\ ~NewSession.accepted /\ Lively(NewSession)
  BY DEF NewSession, NoOps, Kinds, Waiting, Lively
<1>3. SessionInv(NewSession)
  BY <1>1, <1>2 DEF SessionInv
<1>4. TypeInv
  BY DEF Init, TypeInv, Total, Stages, Crashes
<1>5. SessionsInv
  BY <1>2, <1>3 DEF Init, SessionsInv
<1>. QED
  BY <1>4, <1>5 DEF Init, IInv, ListInv, MutexInv, ToldInv, NamedMayLeave, Holding

LEMMA StepEffect ==
  ASSUME Total(sessions), NEW c \in Clients, NEW s, Step(c, s)
  PROVE  /\ Total(sessions)' /\ sessions'[c] = s
         /\ \A d \in Clients \ {c} : sessions'[d] = sessions[d]
BY DEF Total, Step

(* A step of session c, with c's handler where it was or further on.       *)
LEMMA SessionsStep ==
  ASSUME TypeInv, SessionsInv, NEW c \in Clients, NEW s, Step(c, s), SessionInv(s),
         pc'[c] \in Resting => Lively(s), \A d \in Clients \ {c} : pc'[d] = pc[d]
  PROVE  SessionsInv'
BY StepEffect DEF TypeInv, SessionsInv

(* A step of one session and nothing else that the invariant is about.     *)
LEMMA StepOnly ==
  ASSUME IInv, NEW c \in Clients, NEW s, Step(c, s), SessionInv(s),
         pc[c] \in Resting => Lively(s), c \in clients => Follows(sessions[c], s),
         UNCHANGED <<clients, said, pc, todo, at, crashed, told>>, crashed = "no"
  PROVE  IInv'
<1>1. Total(sessions)' /\ sessions'[c] = s
      /\ \A d \in Clients \ {c} : sessions'[d] = sessions[d]
  BY StepEffect DEF IInv, TypeInv
<1>2. TypeInv'
  BY <1>1 DEF IInv, TypeInv, Total
<1>3. SessionsInv'
  BY SessionsStep DEF IInv
<1>4. \A d \in clients : sessions'[d].accepted /\ (Online(sessions'[d]) => Online(sessions[d]))
  <2>. SUFFICES ASSUME NEW d \in clients
                PROVE  sessions'[d].accepted /\ (Online(sessions'[d]) => Online(sessions[d]))
    OBVIOUS
  <2>1. d \in Clients /\ sessions[d].accepted
    BY DEF IInv, TypeInv, ListInv
  <2>2. CASE d = c
    BY <1>1, <2>1, <2>2 DEF Follows
  <2>3. CASE d # c
    BY <1>1, <2>1, <2>3
  <2>. QED
    BY <2>2, <2>3
<1>5. ListInv' /\ MutexInv'
  BY <1>4 DEF IInv, ListInv, MutexInv
<1>6. ToldInv'
  <2>. SUFFICES ASSUME NEW d \in clients, Online(sessions'[d])
                PROVE  told[d] = said \/ \E e \in Clients : d \in todo[e]
    BY DEF ToldInv, Online
  <2>. QED
    BY <1>4 DEF IInv, ToldInv
<1>. QED
  BY <1>2, <1>3, <1>5, <1>6 DEF IInv, NamedMayLeave

(* The parts of a state that a thread finds when its handler may start.    *)
LEMMA FollowsStep ==
  ASSUME IInv, NEW c \in Clients, NEW s, Step(c, s), Follows(sessions[c], s),
         Lively(sessions[c]) => Lively(s),
         UNCHANGED <<clients, said, pc, todo, at, crashed, told>>, crashed = "no"
  PROVE  IInv'
<1>1. SessionInv(s) /\ (pc[c] \in Resting => Lively(s))
  BY DEF Follows, IInv, SessionsInv
<1>. QED
  BY <1>1, StepOnly

LEMMA UpgradeIInv ==
  ASSUME IInv, NEW c \in Clients, Upgrade(c) PROVE IInv'
<1>1. SessionInv(sessions[c])
  BY DEF IInv, SessionsInv
<1>. QED
  BY <1>1, AcceptStarts, FollowsStep DEF Upgrade, ThreadFree

LEMMA OnAcceptIInv ==
  ASSUME IInv, NEW c \in Clients, OnAccept(c) PROVE IInv'
<1>. DEFINE s == sessions[c]
            opened == WriteOrRead(Fill(
              [Answer(s, "handshake", "ok") EXCEPT !.accepted = TRUE], Question))
<1>1. SessionInv(s)
  BY DEF IInv, SessionsInv
<1>2. CASE Completes(c, "handshake", "ok") /\ Step(c, opened)
  <2>1. SessionInv(opened) /\ Lively(opened) /\ ~s.accepted
    BY <1>1, <1>2, AcceptSucceeds DEF Completes
  <2>2. c \notin clients
    BY <2>1 DEF IInv, ListInv
  <2>3. UNCHANGED <<clients, said, pc, todo, at, crashed, told>> /\ crashed = "no"
    BY <1>2 DEF OnAccept, Completes, Starts, ThreadFree
  <2>. HIDE DEF opened
  <2>. QED
    BY <1>2, <2>1, <2>2, <2>3, StepOnly
<1>3. CASE Completes(c, "handshake", "fail") /\ Step(c, Answer(s, "handshake", "fail"))
  BY <1>1, <1>3, AcceptFails, FollowsStep DEF OnAccept, Completes, Starts, ThreadFree
<1>. QED
  BY <1>2, <1>3 DEF OnAccept

LEMMA ReadFailsIInv ==
  ASSUME IInv, NEW c \in Clients, NEW ec \in {"closed", "fail"},
         Completes(c, "read", ec), Step(c, Answer(sessions[c], "read", ec)),
         UNCHANGED <<buffer, clients, messages, pc, input, todo, at, crashed, said, told, shown>>
  PROVE  IInv'
<1>1. SessionInv(sessions[c])
  BY DEF IInv, SessionsInv
<1>. QED
  BY <1>1, ReadFails, FollowsStep DEF Completes, Starts, ThreadFree

LEMMA OnWriteIInv ==
  ASSUME IInv, NEW c \in Clients, OnWrite(c) PROVE IInv'
<1>. DEFINE s == sessions[c]
            a == Answer(s, "write", "ok")
<1>1. SessionInv(s)
  BY DEF IInv, SessionsInv
<1>2. UNCHANGED <<clients, said, pc, todo, at, crashed, told>>
  BY DEF OnWrite
<1>3. CASE Completes(c, "write", "ok") /\ Step(c, Written(a))
  <2>1. Follows(s, a)
    BY <1>1, <1>3, WriteAnswered DEF Completes
  <2>. HIDE DEF a
  <2>2. Follows(s, Written(a)) /\ Lively(Written(a))
    BY <2>1, WrittenFollows, FollowsTwice DEF Follows
  <2>3. crashed = "no"
    BY <1>3 DEF Completes, Starts, ThreadFree
  <2>. QED
    BY <1>2, <1>3, <2>2, <2>3, FollowsStep
<1>4. CASE Completes(c, "write", "fail") /\ Step(c, Answer(s, "write", "fail"))
  <2>1. Follows(s, Answer(s, "write", "fail")) /\ Lively(Answer(s, "write", "fail"))
    BY <1>1, <1>4, WriteAnswered DEF Completes
  <2>. QED
    BY <1>2, <1>4, <2>1, FollowsStep DEF Completes, Starts, ThreadFree
<1>. QED
  BY <1>3, <1>4 DEF OnWrite

LEMMA OnSentIInv ==
  ASSUME IInv, NEW c \in Clients, OnSent(c) PROVE IInv'
<1>1. SessionInv(sessions[c])
  BY DEF IInv, SessionsInv
<1>2. PICK k \in {"ping", "close"}, ec \in {"ok", "fail"} :
        Completes(c, k, ec) /\ Step(c, Answer(sessions[c], k, ec))
  BY DEF OnSent
<1>. QED
  BY <1>1, <1>2, SentAnswered, FollowsStep DEF OnSent, Completes, Starts, ThreadFree

LEMMA OnPongIInv ==
  ASSUME IInv, NEW c \in Clients, OnPong(c) PROVE IInv'
<1>. DEFINE s == sessions[c]
            a == [s EXCEPT !.on_timer_cb = "ping"]
            u == [a EXCEPT !.quiet = FALSE]
<1>1. SessionInv(s)
  BY DEF IInv, SessionsInv
<1>2. Same(s, a)
  BY <1>1, TimerSame DEF SessionInv
<1>3. [s EXCEPT !.on_timer_cb = "ping", !.quiet = FALSE] = u
  OBVIOUS
<1>. HIDE DEF a
<1>4. Same(a, u)
  BY <1>2, TimerSame DEF Same
<1>. HIDE DEF u
<1>5. Same(s, u)
  BY <1>2, <1>4, SameTwice
<1>6. Follows(s, u) /\ (Lively(s) => Lively(u))
  BY <1>1, <1>5, SameSession
<1>7. Step(c, u) /\ crashed = "no"
  BY <1>3 DEF OnPong, Starts, ThreadFree
<1>. QED
  BY <1>6, <1>7, FollowsStep DEF OnPong

LEMMA OnTimerIInv ==
  ASSUME IInv, NEW c \in Clients, OnTimer(c) PROVE IInv'
<1>. DEFINE s == sessions[c]
<1>1. SessionInv(s)
  BY DEF IInv, SessionsInv
<1>2. crashed = "no" /\ UNCHANGED <<clients, said, pc, todo, at, crashed, told>>
  BY DEF OnTimer, ThreadFree
<1>3. CASE Step(c, DoPing(s))
  <2>1. Follows(s, DoPing(s)) /\ (Lively(s) => Lively(DoPing(s)))
    BY <1>1, DoPingFollows
  <2>. QED
    BY <1>2, <1>3, <2>1, FollowsStep
<1>4. CASE Step(c, DoClose(s))
  <2>1. Follows(s, DoClose(s)) /\ (Lively(s) => Lively(DoClose(s)))
    BY <1>1, DoCloseFollows
  <2>. QED
    BY <1>2, <1>4, <2>1, FollowsStep
<1>. QED
  BY <1>3, <1>4 DEF OnTimer

LEMMA NetworkFailsIInv ==
  ASSUME IInv, NEW c \in Clients, NetworkFails(c) PROVE IInv'
<1>. DEFINE u == [sessions[c] EXCEPT !.status = "failed"]
<1>1. SessionInv(sessions[c])
  BY DEF IInv, SessionsInv
<1>2. Follows(sessions[c], u) /\ Lively(u)
  BY <1>1, StreamEnds
<1>. HIDE DEF u
<1>3. Step(c, u)
  BY DEF NetworkFails, u
<1>. QED
  BY <1>2, <1>3, FollowsStep DEF NetworkFails
-----------------------------------------------------------------------------
(* The handlers that hold the mutex.                                       *)
LEMMA IntroduceIInv ==
  ASSUME IInv, NEW c \in Clients, Completes(c, "read", "ok"), Locks(c), Introduce(c),
         UNCHANGED <<at, shown>>
  PROVE  IInv'
<1>. DEFINE h == Heard(c)
            s == Fill(h, buffer'[c])
<1>1. TypeInv /\ SessionsInv /\ SessionInv(sessions[c]) /\ crashed = "no"
  BY DEF IInv, SessionsInv, Completes, Starts, ThreadFree
<1>2. Follows(sessions[c], h) /\ sessions[c].accepted
  BY <1>1, HeardFollows
<1>3. /\ Step(c, s) /\ said' = said + 1
      /\ told' = [told EXCEPT ![c] = said']
      /\ todo' = [todo EXCEPT ![c] = clients]
      /\ clients' = clients \cup {c}
      /\ pc' = [pc EXCEPT ![c] = "introducing"]
      /\ UNCHANGED <<at, crashed>>
  BY DEF Introduce, Put
<1>. HIDE DEF h
<1>4. SessionInv(h) /\ Same(h, s)
  BY <1>2, FillSame DEF Follows, SessionInv
<1>5. Follows(sessions[c], s) /\ SessionInv(s)
  BY <1>2, <1>4, SameSession, FollowsTwice DEF Follows
<1>. HIDE DEF s
<1>6. Total(sessions)' /\ sessions'[c] = s
      /\ \A d \in Clients \ {c} : sessions'[d] = sessions[d]
  BY <1>1, <1>3, StepEffect DEF TypeInv
<1>7. TypeInv'
  <2>1. said' \in Nat
    BY <1>1, <1>3 DEF TypeInv
  <2>2. Total(told)'
    BY <1>1, <1>3 DEF TypeInv, Total
  <2>3. clients' \subseteq Clients /\ todo' \in [Clients -> SUBSET Clients]
        /\ pc' \in [Clients -> Stages]
    BY <1>1, <1>3 DEF TypeInv, Stages
  <2>. QED
    BY <1>1, <1>3, <1>6, <2>1, <2>2, <2>3 DEF TypeInv
<1>8. /\ pc'[c] = "introducing" /\ todo'[c] = clients /\ told'[c] = said'
      /\ \A d \in Clients \ {c} : pc'[d] = pc[d] /\ todo'[d] = todo[d] /\ told'[d] = told[d]
  BY <1>1, <1>3 DEF TypeInv, Total
<1>9. SessionsInv'
  BY <1>1, <1>3, <1>5, <1>8, SessionsStep DEF Resting
<1>10. ListInv'
  <2>1. sessions'[c].accepted
    BY <1>2, <1>5, <1>6 DEF Follows
  <2>2. \A d \in clients : d \in Clients /\ sessions'[d].accepted
    BY <1>1, <1>6, <2>1 DEF IInv, TypeInv, ListInv
  <2>. QED
    BY <1>3, <1>8, <2>1, <2>2 DEF IInv, ListInv
<1>11. MutexInv'
  BY <1>3, <1>8 DEF IInv, MutexInv, Locks, Holding
<1>12. ToldInv'
  <2>. SUFFICES ASSUME NEW d \in clients', Online(sessions'[d])
                PROVE  told'[d] = said' \/ \E e \in Clients : d \in todo'[e]
    BY DEF ToldInv, Online
  <2>1. CASE d = c
    BY <1>8, <2>1
  <2>2. CASE d # c
    BY <1>3, <1>8, <2>2
  <2>. QED
    BY <2>1, <2>2
<1>. QED
  BY <1>1, <1>3, <1>7, <1>9, <1>10, <1>11, <1>12 DEF IInv, NamedMayLeave

(* Whoever speaks: its session goes on, and the list is told, or nothing   *)
(* was stored.                                                             *)
SpeakTells(c) ==
  /\ said' = said + 1 /\ crashed' = crashed
  /\ told' = [told EXCEPT ![c] = IF c \in clients THEN said' ELSE told[c]]
  /\ todo' = [todo EXCEPT ![c] = clients \ {c}]

LEMMA SpeakEffect ==
  ASSUME NEW c \in Clients, SessionInv(sessions[c]), NEW text,
         Completes(c, "read", "ok"), Speak(c, text)
  PROVE  /\ clients' = clients /\ pc' = [pc EXCEPT ![c] = "speaking"]
         /\ \E s : Step(c, s) /\ Follows(sessions[c], s)
         /\ \/ SpeakTells(c)
            \/ UNCHANGED <<said, told, todo>> /\ crashed' \in {crashed, "substr"}
<1>. DEFINE h == Heard(c)
<1>1. Follows(sessions[c], h) /\ SessionInv(h)
  BY HeardFollows DEF Follows
<1>2. clients' = clients /\ pc' = [pc EXCEPT ![c] = "speaking"]
  BY DEF Speak
<1>3. CASE Step(c, Fill(h, buffer'[c])) /\ SpeakTells(c)
  <2>. DEFINE s == Fill(h, buffer'[c])
  <2>1. Step(c, s)
    BY <1>3
  <2>. HIDE DEF h
  <2>2. Same(h, s)
    BY <1>1, FillSame DEF SessionInv
  <2>. HIDE DEF s
  <2>3. Follows(sessions[c], s)
    BY <1>1, <2>2, SameSession, FollowsTwice
  <2>. QED
    BY <1>2, <1>3, <2>1, <2>3
<1>4. CASE Step(c, DoRead(h)) /\ UNCHANGED <<said, told, todo, crashed>>
  <2>1. Step(c, DoRead(h))
    BY <1>4
  <2>. HIDE DEF h
  <2>2. Follows(sessions[c], DoRead(h))
    BY <1>1, DoReadFollows, FollowsTwice
  <2>. QED
    BY <1>2, <1>4, <2>1, <2>2
<1>5. CASE Step(c, h) /\ crashed' = "substr" /\ UNCHANGED <<said, told, todo>>
  BY <1>1, <1>2, <1>5
<1>. QED
  BY <1>3, <1>4, <1>5 DEF Speak, Put, SpeakTells

LEMMA SpeakIInv ==
  ASSUME IInv, NEW c \in Clients, NEW text, Completes(c, "read", "ok"), Locks(c),
         Speak(c, text), UNCHANGED <<at, shown>>
  PROVE  IInv'
<1>1. TypeInv /\ SessionsInv /\ SessionInv(sessions[c]) /\ crashed = "no"
  BY DEF IInv, SessionsInv, Completes, Starts, ThreadFree
<1>2. clients' = clients /\ pc' = [pc EXCEPT ![c] = "speaking"]
  BY <1>1, SpeakEffect
<1>3. PICK s : Step(c, s) /\ Follows(sessions[c], s)
  BY <1>1, SpeakEffect
<1>4. \/ SpeakTells(c)
      \/ UNCHANGED <<said, told, todo>> /\ crashed' \in {crashed, "substr"}
  BY <1>1, SpeakEffect
<1>5. Total(sessions)' /\ sessions'[c] = s
      /\ \A d \in Clients \ {c} : sessions'[d] = sessions[d]
  BY <1>1, <1>3, StepEffect DEF TypeInv
<1>6. pc'[c] = "speaking" /\ \A d \in Clients \ {c} : pc'[d] = pc[d]
  BY <1>1, <1>2 DEF TypeInv
<1>7. SessionsInv'
  BY <1>1, <1>3, <1>6, SessionsStep DEF Follows, Resting
<1>8. \A d \in clients : d \in Clients /\ sessions'[d].accepted
        /\ (Online(sessions'[d]) => Online(sessions[d]))
  BY <1>1, <1>3, <1>5 DEF IInv, TypeInv, ListInv, Follows
<1>9. pc' \in [Clients -> Stages] /\ clients' \in SUBSET Clients
      /\ at' \in [Clients -> SUBSET Clients]
  BY <1>1, <1>2 DEF TypeInv, Stages
<1>10. CASE SpeakTells(c)
  <2>1. /\ told'[c] = (IF c \in clients THEN said' ELSE told[c]) /\ todo'[c] = clients \ {c}
        /\ \A d \in Clients \ {c} : todo'[d] = todo[d] /\ told'[d] = told[d]
    BY <1>1, <1>10 DEF TypeInv, Total, SpeakTells
  <2>2. TypeInv'
    <3>1. said' \in Nat
      BY <1>1, <1>10 DEF TypeInv, SpeakTells
    <3>2. Total(told)'
      BY <1>1, <1>10 DEF TypeInv, Total, SpeakTells
    <3>3. todo' \in [Clients -> SUBSET Clients]
      BY <1>1, <1>10 DEF TypeInv, SpeakTells
    <3>. QED
      BY <1>1, <1>5, <1>9, <1>10, <3>1, <3>2, <3>3 DEF TypeInv, SpeakTells
  <2>3. ListInv'
    BY <1>2, <1>8, <2>1 DEF IInv, ListInv
  <2>4. MutexInv'
    BY <1>2, <1>6, <2>1 DEF IInv, MutexInv, Locks, Holding
  <2>5. ToldInv'
    <3>. SUFFICES ASSUME NEW d \in clients, Online(sessions'[d])
                  PROVE  told'[d] = said' \/ \E e \in Clients : d \in todo'[e]
      BY <1>2 DEF ToldInv, Online
    <3>. QED
      BY <2>1
  <2>. QED
    BY <1>1, <1>7, <1>10, <2>2, <2>3, <2>4, <2>5 DEF IInv, NamedMayLeave, SpeakTells
<1>11. CASE UNCHANGED <<said, told, todo>> /\ crashed' \in {crashed, "substr"}
  <2>1. TypeInv'
    BY <1>1, <1>5, <1>9, <1>11 DEF TypeInv, Total, Crashes
  <2>2. ListInv'
    BY <1>2, <1>8, <1>11 DEF IInv, ListInv
  <2>3. MutexInv'
    BY <1>2, <1>6, <1>11 DEF IInv, MutexInv, Locks, Holding
  <2>4. ToldInv'
    <3>. SUFFICES ASSUME NEW d \in clients, Online(sessions'[d])
                  PROVE  told[d] = said \/ \E e \in Clients : d \in todo[e]
      BY <1>2, <1>11 DEF ToldInv, Online
    <3>. QED
      BY <1>8 DEF IInv, ToldInv
  <2>. QED
    BY <1>1, <1>7, <1>11, <2>1, <2>2, <2>3, <2>4 DEF IInv, NamedMayLeave
<1>. QED
  BY <1>4, <1>10, <1>11

LEMMA OnCloseIInv ==
  ASSUME IInv, NEW c \in Clients, OnClose(c) PROVE IInv'
<1>. DEFINE s == [sessions[c] EXCEPT !.status = "closed"]
<1>1. TypeInv /\ SessionsInv /\ SessionInv(sessions[c]) /\ crashed = "no"
  BY DEF IInv, SessionsInv, OnClose, Starts, ThreadFree
<1>2. sessions[c].accepted
  <2>1. sessions[c].status \in {"open", "closing"}
    BY DEF OnClose
  <2>. QED
    BY <1>1, <2>1 DEF SessionInv, Waiting
<1>3. Follows(sessions[c], s) /\ Lively(s)
  BY <1>1, <1>2, StreamEnds
<1>4. Step(c, s) /\ s.status = "closed"
  BY <1>1 DEF OnClose, SessionInv, Shaped, Fields
<1>. HIDE DEF s
<1>5. Total(sessions)' /\ sessions'[c] = s
      /\ \A d \in Clients \ {c} : sessions'[d] = sessions[d]
  BY <1>1, <1>4, StepEffect DEF TypeInv
<1>6. UNCHANGED <<clients, at, told>> /\ Locks(c)
  BY DEF OnClose
<1>7. \A d \in clients : d \in Clients /\ sessions'[d].accepted
        /\ (Online(sessions'[d]) => d # c /\ Online(sessions[d]))
  BY <1>1, <1>3, <1>4, <1>5 DEF IInv, TypeInv, ListInv, Follows, Online
<1>8. ListInv'
  BY <1>6, <1>7 DEF IInv, ListInv
<1>9. CASE /\ c \in clients /\ todo' = [todo EXCEPT ![c] = clients \ {c}]
           /\ pc' = [pc EXCEPT ![c] = "leaving"] /\ UNCHANGED crashed /\ said' = said + 1
  <2>1. /\ pc'[c] = "leaving" /\ todo'[c] = clients \ {c}
        /\ \A d \in Clients \ {c} : pc'[d] = pc[d] /\ todo'[d] = todo[d]
    BY <1>1, <1>9 DEF TypeInv
  <2>2. TypeInv'
    BY <1>1, <1>5, <1>6, <1>9 DEF TypeInv, Total, Stages
  <2>3. SessionsInv'
    BY <1>1, <1>3, <1>4, <2>1, SessionsStep DEF Follows
  <2>4. MutexInv'
    BY <1>6, <2>1 DEF IInv, MutexInv, Locks, Holding
  <2>5. ToldInv'
    <3>. SUFFICES ASSUME NEW d \in clients, Online(sessions'[d])
                  PROVE  \E e \in Clients : d \in todo'[e]
      BY <1>6 DEF ToldInv, Online
    <3>. QED
      BY <1>7, <2>1
  <2>. QED
    BY <1>1, <1>8, <1>9, <2>2, <2>3, <2>4, <2>5 DEF IInv, NamedMayLeave
<1>10. CASE c \notin clients /\ crashed' = "at" /\ UNCHANGED <<said, todo, pc>>
  <2>1. TypeInv'
    BY <1>1, <1>5, <1>6, <1>10 DEF TypeInv, Total, Crashes
  <2>2. SessionsInv'
    BY <1>1, <1>3, <1>4, <1>10, SessionsStep DEF Follows
  <2>3. MutexInv'
    BY <1>6, <1>10 DEF IInv, MutexInv
  <2>4. ToldInv'
    <3>. SUFFICES ASSUME NEW d \in clients, Online(sessions'[d])
                  PROVE  told[d] = said \/ \E e \in Clients : d \in todo[e]
      BY <1>6, <1>10 DEF ToldInv, Online
    <3>. QED
      BY <1>7 DEF IInv, ToldInv
  <2>5. NamedMayLeave'
    <3>1. told'[c] = 0 /\ sessions'[c].status = "closed"
      BY <1>4, <1>5, <1>6, <1>10 DEF IInv, ListInv
    <3>. QED
      BY <3>1 DEF NamedMayLeave
  <2>. QED
    BY <1>8, <2>1, <2>2, <2>3, <2>4, <2>5 DEF IInv
<1>. QED
  BY <1>9, <1>10 DEF OnClose

LEMMA BroadcastIInv ==
  ASSUME IInv, NEW c \in Clients, NEW d \in Clients, Broadcast(c, d) PROVE IInv'
<1>1. TypeInv /\ SessionsInv /\ SessionInv(sessions[d]) /\ crashed = "no" /\ MutexInv /\ ListInv
  BY DEF IInv, SessionsInv, Broadcast
<1>2. /\ pc[c] \in Holding /\ d \in todo[c] /\ todo' = [todo EXCEPT ![c] = @ \ {d}]
      /\ UNCHANGED <<clients, said, pc, crashed>>
  BY DEF Broadcast
<1>3. /\ todo'[c] = todo[c] \ {d}
      /\ \A e \in Clients \ {c} : todo'[e] = todo[e]
      /\ d \in clients
  BY <1>1, <1>2 DEF TypeInv, MutexInv
<1>4. /\ Total(sessions)' /\ \A e \in Clients \ {d} : sessions'[e] = sessions[e]
      /\ Follows(sessions[d], sessions'[d]) /\ (Lively(sessions[d]) => Lively(sessions'[d]))
      /\ Total(told)' /\ \A e \in Clients \ {d} : told'[e] = told[e]
      /\ Online(sessions'[d]) => told'[d] = said
      /\ at' \in [Clients -> SUBSET Clients]
  <2>1. CASE \E text :
               /\ Put(d, text, said)
               /\ Step(d, Fill(sessions[d], buffer'[d])) /\ at' = [at EXCEPT ![c] = {d}]
    <3>. DEFINE s == Fill(sessions[d], buffer'[d])
    <3>1. Same(sessions[d], s)
      BY <1>1, FillSame DEF SessionInv
    <3>2. Step(d, s)
      BY <2>1
    <3>. HIDE DEF s
    <3>3. Follows(sessions[d], s) /\ (Lively(sessions[d]) => Lively(s))
      BY <1>1, <3>1, SameSession
    <3>4. Total(sessions)' /\ sessions'[d] = s
          /\ \A e \in Clients \ {d} : sessions'[e] = sessions[e]
      BY <1>1, <3>2, StepEffect DEF TypeInv
    <3>5. told' = [told EXCEPT ![d] = said] /\ at' = [at EXCEPT ![c] = {d}]
      BY <2>1 DEF Put
    <3>. QED
      BY <1>1, <3>3, <3>4, <3>5 DEF TypeInv, Total
  <2>2. CASE ~IsOpen(sessions[d]) /\ UNCHANGED <<buffer, told, sessions, at>>
    <3>1. ~Online(sessions[d])
      BY <2>2 DEF IsOpen, Online
    <3>. QED
      BY <1>1, <2>2, <3>1 DEF TypeInv, Total, Follows
  <2>. QED
    BY <2>1, <2>2 DEF Broadcast
<1>5. TypeInv'
  BY <1>1, <1>2, <1>4 DEF TypeInv
<1>6. SessionsInv'
  BY <1>1, <1>2, <1>4 DEF SessionsInv, Follows
<1>7. ListInv'
  BY <1>1, <1>2, <1>3, <1>4 DEF TypeInv, ListInv, Follows
<1>8. MutexInv'
  BY <1>1, <1>2, <1>3 DEF MutexInv
<1>9. ToldInv'
  <2>. SUFFICES ASSUME NEW e \in clients, Online(sessions'[e])
                PROVE  told'[e] = said \/ \E f \in Clients : e \in todo'[f]
    BY <1>2 DEF ToldInv, Online
  <2>1. CASE e = d
    BY <1>4, <2>1
  <2>2. CASE e # d
    <3>1. e \in Clients /\ Online(sessions[e]) /\ told'[e] = told[e]
      BY <1>1, <1>4, <2>2 DEF TypeInv
    <3>2. told[e] = said \/ \E f \in Clients : e \in todo[f]
      BY <3>1 DEF IInv, ToldInv
    <3>. QED
      BY <1>3, <2>2, <3>1, <3>2
  <2>. QED
    BY <2>1, <2>2
<1>. QED
  BY <1>1, <1>2, <1>5, <1>6, <1>7, <1>8, <1>9 DEF IInv, NamedMayLeave

LEMMA BroadcastWriteIInv ==
  ASSUME IInv, NEW c \in Clients, BroadcastWrite(c) PROVE IInv'
<1>1. TypeInv /\ crashed = "no"
  BY DEF IInv, BroadcastWrite
<1>2. PICK d \in at[c] : Step(d, DoWrite(sessions[d]))
  BY DEF BroadcastWrite
<1>. DEFINE s == DoWrite(sessions[d])
<1>3. d \in Clients /\ SessionInv(sessions[d])
  BY <1>1, <1>2 DEF IInv, TypeInv, SessionsInv
<1>4. Follows(sessions[d], s) /\ Lively(s)
  BY <1>3, DoWriteFollows
<1>. HIDE DEF s
<1>5. Total(sessions)' /\ sessions'[d] = s
      /\ \A e \in Clients \ {d} : sessions'[e] = sessions[e]
  BY <1>1, <1>2, <1>3, StepEffect DEF TypeInv, s
<1>6. UNCHANGED <<clients, said, pc, todo, crashed, told>>
      /\ at' \in [Clients -> SUBSET Clients]
  BY <1>1 DEF BroadcastWrite, TypeInv
<1>7. TypeInv'
  BY <1>1, <1>5, <1>6 DEF TypeInv, Total
<1>8. SessionsInv'
  BY <1>3, <1>4, <1>5, <1>6 DEF IInv, SessionsInv, Follows
<1>9. \A e \in clients : sessions'[e].accepted /\ (Online(sessions'[e]) => Online(sessions[e]))
  BY <1>1, <1>4, <1>5 DEF IInv, TypeInv, ListInv, Follows
<1>10. ListInv' /\ MutexInv'
  BY <1>6, <1>9 DEF IInv, ListInv, MutexInv
<1>11. ToldInv'
  <2>. SUFFICES ASSUME NEW e \in clients, Online(sessions'[e])
                PROVE  told[e] = said \/ \E f \in Clients : e \in todo[f]
    BY <1>6 DEF ToldInv, Online
  <2>. QED
    BY <1>9 DEF IInv, ToldInv
<1>. QED
  BY <1>1, <1>6, <1>7, <1>8, <1>10, <1>11 DEF IInv, NamedMayLeave

(* Nobody is left to visit when the mutex is released.                     *)
LEMMA UnlockIInv ==
  ASSUME IInv, NEW c \in Clients, Unlock(c) PROVE IInv'
<1>1. TypeInv /\ SessionsInv /\ SessionInv(sessions[c]) /\ crashed = "no"
  BY DEF IInv, SessionsInv, Unlock
<1>2. /\ pc[c] \in Holding /\ todo[c] = {}
      /\ UNCHANGED <<clients, said, todo, at, crashed, told>>
  BY DEF Unlock
<1>3. /\ Total(sessions)' /\ \A d \in Clients \ {c} : sessions'[d] = sessions[d]
      /\ Follows(sessions[c], sessions'[c])
      /\ pc' \in [Clients -> Stages] /\ \A d \in Clients \ {c} : pc'[d] = pc[d]
      /\ pc'[c] \notin Holding /\ (pc'[c] \in Resting => Lively(sessions'[c]))
  <2>1. CASE pc[c] = "leaving" /\ pc' = [pc EXCEPT ![c] = "idle"] /\ UNCHANGED sessions
    <3>1. Lively(sessions[c])
      BY <1>1, <2>1 DEF SessionsInv, Resting
    <3>. QED
      BY <1>1, <2>1, <3>1 DEF TypeInv, Total, Stages, Holding, Follows
  <2>2. CASE /\ pc' = [pc EXCEPT ![c] = "after"]
             /\ Step(c, [sessions[c] EXCEPT !.on_timer_cb = "ping"])
    <3>. DEFINE s == [sessions[c] EXCEPT !.on_timer_cb = "ping"]
    <3>1. Same(sessions[c], s)
      BY <1>1, TimerSame DEF SessionInv
    <3>2. Step(c, s)
      BY <2>2
    <3>. HIDE DEF s
    <3>3. Follows(sessions[c], s)
      BY <1>1, <3>1, SameSession
    <3>4. Total(sessions)' /\ sessions'[c] = s
          /\ \A d \in Clients \ {c} : sessions'[d] = sessions[d]
      BY <1>1, <3>2, StepEffect DEF TypeInv
    <3>5. pc' \in [Clients -> Stages] /\ pc'[c] = "after"
          /\ \A d \in Clients \ {c} : pc'[d] = pc[d]
      BY <1>1, <2>2 DEF TypeInv, Stages
    <3>. QED
      BY <3>3, <3>4, <3>5 DEF Holding, Resting
  <2>. QED
    BY <2>1, <2>2 DEF Unlock
<1>4. TypeInv'
  BY <1>1, <1>2, <1>3 DEF TypeInv, Total
<1>5. SessionsInv'
  BY <1>1, <1>3 DEF SessionsInv, Follows
<1>6. \A d \in clients : sessions'[d].accepted /\ (Online(sessions'[d]) => Online(sessions[d]))
  BY <1>1, <1>3 DEF IInv, TypeInv, ListInv, Follows
<1>7. ListInv'
  BY <1>2, <1>6 DEF IInv, ListInv
<1>8. MutexInv'
  BY <1>2, <1>3 DEF IInv, MutexInv
<1>9. ToldInv'
  <2>. SUFFICES ASSUME NEW d \in clients, Online(sessions'[d])
                PROVE  told[d] = said \/ \E e \in Clients : d \in todo[e]
    BY <1>2 DEF ToldInv, Online
  <2>. QED
    BY <1>6 DEF IInv, ToldInv
<1>. QED
  BY <1>1, <1>2, <1>4, <1>5, <1>7, <1>8, <1>9 DEF IInv, NamedMayLeave

LEMMA ReadEndIInv ==
  ASSUME IInv, NEW c \in Clients, ReadEnd(c) PROVE IInv'
<1>. DEFINE f == AutoFrame(sessions[c])
            s == WriteOrRead(f)
<1>1. TypeInv /\ SessionsInv /\ SessionInv(sessions[c]) /\ crashed = "no"
  BY DEF IInv, SessionsInv, ReadEnd
<1>2. /\ pc[c] = "after" /\ pc' = [pc EXCEPT ![c] = "idle"] /\ Step(c, s)
      /\ UNCHANGED <<clients, said, todo, at, crashed, told>>
  BY DEF ReadEnd
<1>3. Same(sessions[c], f)
  BY <1>1, AutoFrameSame DEF SessionInv
<1>. HIDE DEF f
<1>4. Follows(sessions[c], f)
  BY <1>1, <1>3, SameSession
<1>5. Follows(f, s) /\ Lively(s)
  BY <1>4, WriteOrReadFollows DEF Follows
<1>6. Follows(sessions[c], s) /\ SessionInv(s)
  BY <1>4, <1>5, FollowsTwice DEF Follows
<1>. HIDE DEF s
<1>7. /\ Total(sessions)' /\ sessions'[c] = s
      /\ \A d \in Clients \ {c} : sessions'[d] = sessions[d]
  BY <1>1, <1>2, StepEffect DEF TypeInv
<1>8. /\ pc' \in [Clients -> Stages] /\ pc'[c] = "idle"
      /\ \A d \in Clients \ {c} : pc'[d] = pc[d]
  BY <1>1, <1>2 DEF TypeInv, Stages
<1>9. TypeInv'
  BY <1>1, <1>2, <1>7, <1>8 DEF TypeInv, Total
<1>10. SessionsInv'
  BY <1>1, <1>5, <1>6, <1>7, <1>8 DEF SessionsInv
<1>11. \A d \in clients : sessions'[d].accepted /\ (Online(sessions'[d]) => Online(sessions[d]))
  BY <1>1, <1>6, <1>7 DEF IInv, TypeInv, ListInv, Follows
<1>12. ListInv'
  BY <1>2, <1>11 DEF IInv, ListInv
<1>13. MutexInv'
  <2>1. pc[c] \notin Holding /\ pc'[c] \notin Holding
    BY <1>2, <1>8 DEF Holding
  <2>. QED
    BY <1>2, <1>8, <2>1 DEF IInv, MutexInv
<1>14. ToldInv'
  <2>. SUFFICES ASSUME NEW d \in clients, Online(sessions'[d])
                PROVE  told[d] = said \/ \E e \in Clients : d \in todo[e]
    BY <1>2 DEF ToldInv, Online
  <2>. QED
    BY <1>11 DEF IInv, ToldInv
<1>. QED
  BY <1>1, <1>2, <1>9, <1>10, <1>12, <1>13, <1>14 DEF IInv, NamedMayLeave
-----------------------------------------------------------------------------
LEMMA NextIInv == IInv /\ [Next]_vars => IInv'
<1>. SUFFICES ASSUME IInv, [Next]_vars PROVE IInv'
  OBVIOUS
<1>1. CASE UNCHANGED vars
  BY <1>1 DEF vars, IInv, TypeInv, Total, SessionsInv, ListInv, MutexInv, ToldInv,
              NamedMayLeave
<1>2. ASSUME NEW c \in Clients, OnRead(c) PROVE IInv'
  <2>1. CASE Completes(c, "read", "ok") /\ Locks(c) /\ Introduce(c)
             /\ UNCHANGED <<at, shown>>
    BY <2>1, IntroduceIInv
  <2>2. CASE /\ Completes(c, "read", "ok") /\ Locks(c)
             /\ \E text \in Inputs : Speak(c, text)
             /\ UNCHANGED <<at, shown>>
    <3>1. PICK text : Speak(c, text)
      BY <2>2
    <3>. QED
      BY <2>2, <3>1, SpeakIInv
  <2>3. CASE \E ec \in {"closed", "fail"} :
               /\ Completes(c, "read", ec)
               /\ Step(c, Answer(sessions[c], "read", ec))
               /\ UNCHANGED <<buffer, clients, messages, pc, input, todo, at, crashed, said, told, shown>>
    BY <2>3, ReadFailsIInv
  <2>. QED
    BY <1>2, <2>1, <2>2, <2>3 DEF OnRead
<1>. QED
  BY <1>1, <1>2, UpgradeIInv, OnAcceptIInv, OnCloseIInv, BroadcastIInv, BroadcastWriteIInv,
     UnlockIInv, ReadEndIInv, OnWriteIInv, OnSentIInv, OnPongIInv, OnTimerIInv,
     NetworkFailsIInv DEF Next, Ended

LEMMA Invariant == Spec => []IInv
<1>. QED
  BY InitIInv, NextIInv, PTL DEF Spec
-----------------------------------------------------------------------------
(* "Repeated asynchronous reading is impossible!", however many broadcasts *)
(* of other sessions end in on_write.                                      *)
THEOREM OneRead == Spec => []ReadsAreSingle
<1>1. IInv => ReadsAreSingle
  <2>. SUFFICES ASSUME IInv, NEW c \in Clients PROVE sessions[c].ops["read"] <= 1
    BY DEF ReadsAreSingle
  <2>1. SessionInv(sessions[c])
    BY DEF IInv, SessionsInv
  <2>2. 0 <= 1
    OBVIOUS
  <2>. QED
    BY <2>1, <2>2 DEF SessionInv, Waiting, Serving
<1>. QED
  BY <1>1, Invariant, PTL

(* A session of the chat server that is open and between two handlers      *)
(* reads or writes: a broadcast never leaves it idle.                      *)
THEOREM GoesOnWhileOpen == Spec => []OpenGoesOn
<1>1. IInv => OpenGoesOn
  BY DEF IInv, SessionsInv, Resting, Lively, OpenGoesOn
<1>. QED
  BY <1>1, Invariant, PTL

(* main_mutex and the list of clients together: when the mutex is free,    *)
(* every message stored is in the buffer of everybody on the list.         *)
THEOREM NobodyIsLeftOut == Spec => []EveryoneIsTold
<1>1. IInv => EveryoneIsTold
  <2>. SUFFICES ASSUME IInv, \A c \in Clients : pc[c] \notin Holding,
                       NEW c \in clients, Connected(c)
                PROVE  told[c] = said
    BY DEF EveryoneIsTold
  <2>1. \A d \in Clients : todo[d] = {}
    BY DEF IInv, MutexInv
  <2>. QED
    BY <2>1 DEF IInv, ToldInv, Online, Connected
<1>. QED
  BY <1>1, Invariant, PTL

(* clients.at in on_close throws for nobody who is on the list.            *)
THEOREM NamedLeave == Spec => []NamedMayLeave
<1>1. IInv => NamedMayLeave
  BY DEF IInv
<1>. QED
  BY <1>1, Invariant, PTL
-----------------------------------------------------------------------------
(* The texts.  A session is one of the sessions, the size it has for its   *)
(* buffer is the buffer's, and what is stored and read are texts.          *)
Reading == {"introducing", "speaking", "after"}

TextInv ==
  /\ sessions \in [Clients -> Session] /\ buffer \in [Clients -> Text]
  /\ \A c \in Clients : sessions[c].output = Len(buffer[c])
  /\ \A c \in Clients : pc[c] \in Reading => sessions[c].got = "text"
  /\ messages \in Seq(Typed) /\ input \in [Clients -> Text]
  /\ told \in [Clients -> Nat] /\ shown \in [Clients -> SUBSET Typed]

(* What a step of a session keeps: all but a handshake's or a write's end. *)
Keeps(s, u) ==
  /\ u \in Session /\ u.output = s.output /\ u.got = s.got
  /\ u.ops["write"] >= s.ops["write"]
  /\ (u.status = "open" => s.status = "open") /\ (Online(u) => Online(s))

LEMMA KeepsTwice ==
  ASSUME NEW s \in Session, NEW u, NEW v, Keeps(s, u), Keeps(u, v)
  PROVE  Keeps(s, v)
<1>1. u \in Session /\ v \in Session
  BY DEF Keeps
<1>2. s.ops["write"] \in Nat /\ u.ops["write"] \in Nat /\ v.ops["write"] \in Nat
  BY <1>1 DEF Session, Kinds
<1>3. u.ops["write"] >= s.ops["write"] /\ v.ops["write"] >= u.ops["write"]
  BY DEF Keeps
<1>4. v.ops["write"] >= s.ops["write"]
  BY <1>2, <1>3
<1>. QED
  BY <1>4 DEF Keeps

LEMMA WritesNat ==
  ASSUME NEW s \in Session
  PROVE  s.ops["write"] \in Nat /\ Keeps(s, s)
<1>1. s.ops["write"] \in Nat
  BY DEF Session, Kinds
<1>2. s.ops["write"] >= s.ops["write"]
  BY <1>1
<1>. QED
  BY <1>1, <1>2 DEF Keeps

LEMMA StartKeeps ==
  ASSUME NEW s \in Session, NEW k \in Kinds
  PROVE  /\ Keeps(s, Start(s, k)) /\ Start(s, k).status = s.status
         /\ Start(s, k).accepted = s.accepted /\ Start(s, k).frame = s.frame
         /\ Start(s, k).ops["write"] = s.ops["write"] + (IF k = "write" THEN 1 ELSE 0)
<1>. DEFINE ops == [s.ops EXCEPT ![k] = @ + 1]
            u == [s EXCEPT !.ops = ops]
<1>1. Start(s, k) = u
  BY DEF Start
<1>2. ops \in [Kinds -> Nat] /\ s.ops["write"] \in Nat
      /\ ops["write"] = s.ops["write"] + (IF k = "write" THEN 1 ELSE 0)
  BY DEF Session, Kinds
<1>. HIDE DEF ops
<1>3. u \in Session /\ u.ops = ops /\ u.output = s.output /\ u.got = s.got /\ u.status = s.status
      /\ u.accepted = s.accepted /\ u.frame = s.frame
  BY <1>2 DEF Session
<1>. HIDE DEF u
<1>4. u.ops["write"] >= s.ops["write"]
  BY <1>2, <1>3
<1>. QED
  BY <1>1, <1>2, <1>3, <1>4 DEF Keeps, Online

LEMMA ExpiresKeeps ==
  ASSUME NEW s \in Session
  PROVE  Keeps(s, ExpiresAfter(s)) /\ ExpiresAfter(s).accepted = s.accepted
<1>. DEFINE due == s.due + s.waits
            u == [s EXCEPT !.deadline = "armed", !.due = due, !.waits = 0]
<1>1. ExpiresAfter(s) = u
  BY DEF ExpiresAfter
<1>2. due \in Nat
  BY DEF Session
<1>. HIDE DEF due
<1>3. u \in Session /\ u.ops = s.ops /\ u.output = s.output /\ u.got = s.got /\ u.status = s.status
      /\ u.accepted = s.accepted
  BY <1>2 DEF Session, Deadlines
<1>. HIDE DEF u
<1>. QED
  BY <1>1, <1>3, WritesNat DEF Keeps, Online

(* Fields that are set to another value.                                   *)
LEMMA SetKeeps ==
  ASSUME NEW s \in Session, NEW cb \in TimerCbs, NEW b \in BOOLEAN,
         NEW status \in Statuses \ {"open", "closing"}
  PROVE  /\ Keeps(s, [s EXCEPT !.on_timer_cb = cb]) /\ Keeps(s, [s EXCEPT !.quiet = b])
         /\ Keeps(s, [s EXCEPT !.readable = b]) /\ Keeps(s, [s EXCEPT !.status = status])
         /\ [s EXCEPT !.quiet = b].accepted = s.accepted
<1>1. Keeps(s, [s EXCEPT !.on_timer_cb = cb])
  <2>. DEFINE u == [s EXCEPT !.on_timer_cb = cb]
  <2>1. u \in Session /\ u.ops = s.ops /\ u.output = s.output /\ u.got = s.got /\ u.status = s.status
    BY DEF Session
  <2>. HIDE DEF u
  <2>2. Keeps(s, u)
    BY <2>1, WritesNat DEF Keeps, Online
  <2>. QED
    BY <2>2 DEF u
<1>2. Keeps(s, [s EXCEPT !.quiet = b]) /\ [s EXCEPT !.quiet = b].accepted = s.accepted
  <2>. DEFINE u == [s EXCEPT !.quiet = b]
  <2>1. u \in Session /\ u.ops = s.ops /\ u.output = s.output /\ u.got = s.got /\ u.status = s.status
        /\ u.accepted = s.accepted
    BY DEF Session
  <2>. HIDE DEF u
  <2>2. Keeps(s, u)
    BY <2>1, WritesNat DEF Keeps, Online
  <2>. QED
    BY <2>1, <2>2 DEF u
<1>3. Keeps(s, [s EXCEPT !.readable = b])
  <2>. DEFINE u == [s EXCEPT !.readable = b]
  <2>1. u \in Session /\ u.ops = s.ops /\ u.output = s.output /\ u.got = s.got /\ u.status = s.status
    BY DEF Session
  <2>. HIDE DEF u
  <2>2. Keeps(s, u)
    BY <2>1, WritesNat DEF Keeps, Online
  <2>. QED
    BY <2>2 DEF u
<1>4. Keeps(s, [s EXCEPT !.status = status])
  <2>. DEFINE u == [s EXCEPT !.status = status]
  <2>1. u \in Session /\ u.ops = s.ops /\ u.output = s.output /\ u.got = s.got
        /\ u.status \notin {"open", "closing"}
    BY DEF Session
  <2>. HIDE DEF u
  <2>2. Keeps(s, u)
    BY <2>1, WritesNat DEF Keeps, Online
  <2>. QED
    BY <2>2 DEF u
<1>. QED
  BY <1>1, <1>2, <1>3, <1>4

LEMMA FrameKeeps ==
  ASSUME NEW s \in Session, s.got = "text"
  PROVE  Keeps(s, AutoFrame(s)) /\ AutoFrame(s).accepted = s.accepted
<1>. DEFINE frame == IF s.auto_frame THEN s.got ELSE s.frame
            u == [s EXCEPT !.frame = frame]
<1>1. AutoFrame(s) = u
  BY DEF AutoFrame
<1>2. frame \in Frames
  BY DEF Session, Frames
<1>. HIDE DEF frame
<1>3. u \in Session /\ u.ops = s.ops /\ u.output = s.output /\ u.got = s.got /\ u.status = s.status
      /\ u.accepted = s.accepted
  BY <1>2 DEF Session
<1>. HIDE DEF u
<1>. QED
  BY <1>1, <1>3, WritesNat DEF Keeps, Online

LEMMA ReadKeeps ==
  ASSUME NEW s \in Session
  PROVE  Keeps(s, DoRead(s))
<1>. DEFINE e == ExpiresAfter(s)
            r == [e EXCEPT !.readable = FALSE]
            u == Start(r, "read")
<1>1. Keeps(s, e) /\ e \in Session
  BY ExpiresKeeps DEF Keeps
<1>2. DoRead(s) = IF ~s.accepted \/ ~s.readable THEN s ELSE u
  BY DEF DoRead, AsyncRead
<1>. HIDE DEF e
<1>3. Keeps(e, r) /\ r \in Session
  <2>1. "none" \in TimerCbs /\ FALSE \in BOOLEAN /\ "closed" \in Statuses \ {"open", "closing"}
    BY DEF TimerCbs, Statuses
  <2>2. Keeps(e, r)
    BY <1>1, <2>1, SetKeeps
  <2>. QED
    BY <2>2 DEF Keeps
<1>. HIDE DEF r
<1>4. Keeps(r, u)
  BY <1>3, StartKeeps DEF Kinds
<1>. HIDE DEF u
<1>5. Keeps(s, u)
  BY <1>1, <1>3, <1>4, KeepsTwice
<1>. QED
  BY <1>2, <1>5, WritesNat

LEMMA WriteKeeps ==
  ASSUME NEW s \in Session
  PROVE  Keeps(s, DoWrite(s)) /\ (s.accepted => DoWrite(s).ops["write"] > 0)
<1>. DEFINE b == Start(s, "write")
            sending == [size |-> s.output, frame |-> s.frame]
            u == [b EXCEPT !.sending = sending]
<1>1. /\ Keeps(s, b) /\ b \in Session
      /\ b.ops["write"] = s.ops["write"] + 1 /\ s.ops["write"] \in Nat
  BY StartKeeps, WritesNat DEF Keeps, Kinds
<1>2. DoWrite(s) = IF ~s.accepted THEN s ELSE u
  BY DEF DoWrite, AsyncWrite
<1>3. sending \in [size : Nat, frame : Frames]
  BY DEF Session
<1>. HIDE DEF b, sending
<1>4. u \in Session /\ u.ops = b.ops /\ u.output = b.output /\ u.got = b.got /\ u.status = b.status
  BY <1>1, <1>3 DEF Session
<1>. HIDE DEF u
<1>5. Keeps(b, u)
  BY <1>1, <1>4, WritesNat DEF Keeps, Online
<1>6. Keeps(s, u) /\ u.ops["write"] > 0
  BY <1>1, <1>4, <1>5, KeepsTwice
<1>. QED
  BY <1>2, <1>6, WritesNat

LEMMA WriteOrReadKeeps ==
  ASSUME NEW s \in Session
  PROVE  /\ Keeps(s, WriteOrRead(s))
         /\ s.accepted /\ s.output > 0 => WriteOrRead(s).ops["write"] > 0
<1>1. CASE s.output > 0
  BY <1>1, WriteKeeps DEF WriteOrRead
<1>2. CASE ~(s.output > 0)
  BY <1>2, ReadKeeps, WritesNat DEF WriteOrRead
<1>. QED
  BY <1>1, <1>2

LEMMA AcceptKeeps ==
  ASSUME NEW s \in Session
  PROVE  Keeps(s, DoAccept(s))
<1>. DEFINE e == ExpiresAfter(s)
            b == Start(e, "handshake")
            u == [b EXCEPT !.status = "handshaking"]
<1>1. Keeps(s, e) /\ e \in Session
  BY ExpiresKeeps DEF Keeps
<1>2. DoAccept(s) = IF s.accepted THEN s ELSE u
  BY DEF DoAccept, AsyncHandshake
<1>. HIDE DEF e
<1>3. Keeps(e, b) /\ b \in Session
  BY <1>1, StartKeeps DEF Keeps, Kinds
<1>. HIDE DEF b
<1>4. Keeps(b, u)
  <2>1. "none" \in TimerCbs /\ FALSE \in BOOLEAN /\ "handshaking" \in Statuses \ {"open", "closing"}
    BY DEF TimerCbs, Statuses
  <2>. QED
    BY <1>3, <2>1, SetKeeps
<1>. HIDE DEF u
<1>5. Keeps(s, u)
  BY <1>1, <1>3, <1>4, KeepsTwice
<1>. QED
  BY <1>2, <1>5, WritesNat

LEMMA PingKeeps ==
  ASSUME NEW s \in Session
  PROVE  Keeps(s, DoPing(s))
<1>. DEFINE q == [s EXCEPT !.quiet = TRUE]
            e == ExpiresAfter(q)
            u == Start(e, "ping")
<1>1. Keeps(s, q) /\ q \in Session
  <2>1. "none" \in TimerCbs /\ TRUE \in BOOLEAN /\ "closed" \in Statuses \ {"open", "closing"}
    BY DEF TimerCbs, Statuses
  <2>2. Keeps(s, q)
    BY <2>1, SetKeeps
  <2>. QED
    BY <2>2 DEF Keeps
<1>2. DoPing(s) = IF ~s.accepted THEN s ELSE u
  BY DEF DoPing, AsyncPing
<1>. HIDE DEF q
<1>3. Keeps(q, e) /\ e \in Session
  BY <1>1, ExpiresKeeps DEF Keeps
<1>. HIDE DEF e
<1>4. Keeps(e, u)
  BY <1>3, StartKeeps DEF Kinds
<1>. HIDE DEF u
<1>5. Keeps(s, u)
  BY <1>1, <1>3, <1>4, KeepsTwice
<1>. QED
  BY <1>2, <1>5, WritesNat

LEMMA CloseKeeps ==
  ASSUME NEW s \in Session
  PROVE  Keeps(s, DoClose(s))
<1>. DEFINE e == ExpiresAfter(s)
            b == Start(e, "close")
            status == IF b.status = "open" THEN "closing" ELSE b.status
            u == [b EXCEPT !.status = status]
<1>1. Keeps(s, e) /\ e \in Session
  BY ExpiresKeeps DEF Keeps
<1>2. DoClose(s) = IF ~s.accepted THEN s ELSE u
  BY DEF DoClose, AsyncClose
<1>. HIDE DEF e
<1>3. Keeps(e, b) /\ b \in Session
  BY <1>1, StartKeeps DEF Keeps, Kinds
<1>. HIDE DEF b
<1>4. /\ status \in Statuses \ {"open"}
      /\ (status = "closing" => b.status \in {"open", "closing"})
  BY <1>3 DEF Session, Statuses
<1>. HIDE DEF status
<1>5. u \in Session /\ u.ops = b.ops /\ u.output = b.output /\ u.got = b.got /\ u.status = status
  BY <1>3, <1>4 DEF Session
<1>. HIDE DEF u
<1>6. Keeps(b, u)
  BY <1>3, <1>4, <1>5, WritesNat DEF Keeps, Online
<1>7. Keeps(s, u)
  BY <1>1, <1>3, <1>6, KeepsTwice
<1>. QED
  BY <1>2, <1>7, WritesNat

(* An answer: only that to a write takes one away, and only that to the    *)
(* handshake opens the stream.                                             *)
LEMMA AnswerKeeps ==
  ASSUME NEW s \in Session, NEW k \in Kinds, NEW ec, Outstanding(s, k), ec \in Answers(s, k)
  PROVE  LET u == Answer(s, k, ec)
         IN  /\ u \in Session /\ u.output = s.output /\ u.got = s.got
             /\ k # "write" => u.ops["write"] = s.ops["write"]
             /\ u.status = "open" => \/ s.status = "open" /\ (k = "write" => ec = "ok")
                                     \/ k = "handshake" /\ ec = "ok"
             /\ Online(u) => Online(s) \/ (k = "handshake" /\ ec = "ok")
<1>. DEFINE ops == [s.ops EXCEPT ![k] = @ - 1]
            status == StatusAfter(s, k, ec)
            sending == IF k = "write" THEN NoSending ELSE s.sending
            u == [s EXCEPT !.ops = ops, !.status = status, !.sending = sending]
<1>1. Answer(s, k, ec) = u
  BY DEF Answer, Session
<1>2. ops \in [Kinds -> Nat] /\ (k # "write" => ops["write"] = s.ops["write"])
  BY DEF Session, Kinds, Outstanding
<1>3. status \in Statuses /\ (status = "open" => \/ s.status = "open" /\ (k = "write" => ec = "ok")
                                                 \/ k = "handshake" /\ ec = "ok")
      /\ (status = "closing" => s.status = "closing")
  <2>1. s.status \in Statuses
    BY DEF Session
  <2>2. k = "write" /\ ec # "ok" => s.status # "open"
    BY DEF Answers
  <2>. QED
    BY <2>1, <2>2 DEF StatusAfter, Statuses
<1>4. sending \in [size : Nat, frame : Frames]
  BY DEF Session, NoSending, Frames
<1>. HIDE DEF ops, status, sending
<1>5. u \in Session /\ u.ops = ops /\ u.output = s.output /\ u.got = s.got /\ u.status = status
  BY <1>2, <1>3, <1>4 DEF Session
<1>. HIDE DEF u
<1>. QED
  BY <1>1, <1>2, <1>3, <1>5 DEF Online

LEMMA FillType ==
  ASSUME NEW s \in Session, NEW text \in Text
  PROVE  LET u == Fill(s, text)
         IN  u \in Session /\ u.output = Len(text) /\ u.got = s.got /\ u.ops = s.ops
             /\ u.status = s.status /\ u.accepted = s.accepted
<1>. DEFINE n == Len(text)
            u == [s EXCEPT !.output = n]
<1>1. Fill(s, text) = u
  BY DEF Fill
<1>2. n \in Nat
  BY EmptyText
<1>. HIDE DEF n
<1>3. u \in Session /\ u.output = n /\ u.got = s.got /\ u.ops = s.ops
      /\ u.status = s.status /\ u.accepted = s.accepted
  BY <1>2 DEF Session
<1>. QED
  BY <1>1, <1>3 DEF n
-----------------------------------------------------------------------------
(* Nothing is left in a buffer: an open session whose buffer is not empty  *)
(* writes, or one of its own handlers or a broadcast's do_write is still   *)
(* to come.                                                                *)
Unattended(c) ==
  /\ sessions[c].status = "open" /\ pc[c] \in Resting
  /\ \A d \in Clients : c \notin at[d]
  /\ buffer[c] # <<>>

LeftInv ==
  /\ \A c \in Clients : \A d, e \in at[c] : d = e
  /\ \A c \in Clients : Unattended(c) => sessions[c].ops["write"] > 0

(* Nobody who is online misses more than the news that are being told,     *)
(* and whoever is on the list was announced.                               *)
OrderInv ==
  \A c \in clients :
    /\ messages # <<>>
    /\ Online(sessions[c]) => told[c] = said \/ told[c] + 1 = said

BufferInv == TextInv /\ LeftInv /\ OrderInv

(* A step of session c to a session leaves the others alone.               *)
LEMMA SessionEffect ==
  ASSUME TextInv, NEW c \in Clients, NEW s \in Session, Step(c, s)
  PROVE  /\ sessions' \in [Clients -> Session] /\ sessions'[c] = s
         /\ \A d \in Clients \ {c} : sessions'[d] = sessions[d]
BY DEF TextInv, Step

(* A step of session c that may change its buffer: what is to be said of   *)
(* session and buffer afterwards.                                          *)
LEMMA TextStep ==
  ASSUME TextInv, NEW c \in Clients, NEW s \in Session, Step(c, s),
         buffer' \in [Clients -> Text], s.output = Len(buffer'[c]),
         \A d \in Clients \ {c} : buffer'[d] = buffer[d] /\ pc'[d] = pc[d],
         pc'[c] \in Reading => s.got = "text",
         messages' \in Seq(Typed), input' \in [Clients -> Text], told' \in [Clients -> Nat],
         shown' \in [Clients -> SUBSET Typed]
  PROVE  TextInv'
<1>1. /\ sessions' \in [Clients -> Session] /\ sessions'[c] = s
      /\ \A d \in Clients \ {c} : sessions'[d] = sessions[d]
  BY SessionEffect
<1>2. ASSUME NEW d \in Clients
      PROVE  sessions'[d].output = Len(buffer'[d]) /\ (pc'[d] \in Reading => sessions'[d].got = "text")
  <2>1. CASE d = c
    BY <1>1, <2>1
  <2>2. CASE d # c
    BY <1>1, <2>2 DEF TextInv
  <2>. QED
    BY <2>1, <2>2
<1>. QED
  BY <1>1, <1>2 DEF TextInv

LEMMA LeftStep ==
  ASSUME TextInv, LeftInv, NEW c \in Clients, NEW s \in Session, Step(c, s),
         \A d \in Clients \ {c} : buffer'[d] = buffer[d] /\ pc'[d] = pc[d],
         \A d \in Clients : \A e, f \in at'[d] : e = f,
         \A d \in Clients \ {c} : (\A e \in Clients : d \notin at'[e]) =>
                                    \A e \in Clients : d \notin at[e],
         /\ s.status = "open" /\ pc'[c] \in Resting /\ buffer'[c] # <<>>
         /\ \A e \in Clients : c \notin at'[e]
         => s.ops["write"] > 0
  PROVE  LeftInv'
<1>1. /\ sessions'[c] = s
      /\ \A d \in Clients \ {c} : sessions'[d] = sessions[d]
  BY SessionEffect
<1>2. ASSUME NEW d \in Clients, Unattended(d)' PROVE sessions'[d].ops["write"] > 0
  <2>1. CASE d = c
    BY <1>1, <1>2, <2>1 DEF Unattended
  <2>2. CASE d # c
    <3>1. Unattended(d)
      BY <1>1, <1>2, <2>2 DEF Unattended
    <3>. QED
      BY <1>1, <2>2, <3>1 DEF LeftInv
  <2>. QED
    BY <2>1, <2>2
<1>. QED
  BY <1>2 DEF LeftInv

(* A step of one session that reads no more than it had to, and puts       *)
(* nothing into a buffer.                                                  *)
LEMMA QuietStep ==
  ASSUME BufferInv, NEW c \in Clients, NEW s, Step(c, s), Keeps(sessions[c], s),
         UNCHANGED <<buffer, told>>, messages' \in Seq(Typed), input' \in [Clients -> Text],
         shown' \in [Clients -> SUBSET Typed],
         \A d \in Clients \ {c} : pc'[d] = pc[d],
         pc'[c] \in Reading => pc[c] \in Reading,
         \A d \in Clients : \A e, f \in at'[d] : e = f,
         \A d \in Clients \ {c} : (\A e \in Clients : d \notin at'[e]) =>
                                    \A e \in Clients : d \notin at[e],
         /\ pc'[c] \in Resting /\ buffer[c] # <<>> /\ s.status = "open"
         /\ \A e \in Clients : c \notin at'[e]
         => \/ s.ops["write"] > 0
            \/ pc[c] \in Resting /\ \A e \in Clients : c \notin at[e]
  PROVE  TextInv' /\ LeftInv'
<1>1. s \in Session /\ sessions[c] \in Session /\ s.output = sessions[c].output
      /\ s.got = sessions[c].got /\ (s.status = "open" => sessions[c].status = "open")
      /\ s.ops["write"] >= sessions[c].ops["write"]
  BY DEF Keeps, BufferInv, TextInv
<1>2. TextInv'
  <2>1. s.output = Len(buffer'[c]) /\ (pc'[c] \in Reading => s.got = "text")
    BY <1>1 DEF BufferInv, TextInv
  <2>2. buffer' \in [Clients -> Text] /\ told' \in [Clients -> Nat]
        /\ \A d \in Clients \ {c} : buffer'[d] = buffer[d] /\ pc'[d] = pc[d]
    BY DEF BufferInv, TextInv
  <2>. QED
    BY <1>1, <2>1, <2>2, TextStep DEF BufferInv
<1>3. /\ s.status = "open" /\ pc'[c] \in Resting /\ buffer'[c] # <<>>
      /\ \A e \in Clients : c \notin at'[e]
      => s.ops["write"] > 0
  <2>. SUFFICES ASSUME s.status = "open", pc'[c] \in Resting, buffer[c] # <<>>,
                       \A e \in Clients : c \notin at'[e],
                       pc[c] \in Resting, \A e \in Clients : c \notin at[e]
                PROVE  s.ops["write"] > 0
    OBVIOUS
  <2>1. Unattended(c)
    BY <1>1 DEF Unattended
  <2>2. sessions[c].ops["write"] > 0
    BY <2>1 DEF BufferInv, LeftInv
  <2>3. sessions[c].ops["write"] \in Nat /\ s.ops["write"] \in Nat
    BY <1>1, WritesNat
  <2>. QED
    BY <1>1, <2>2, <2>3
<1>4. LeftInv'
  <2>1. \A d \in Clients \ {c} : buffer'[d] = buffer[d] /\ pc'[d] = pc[d]
    OBVIOUS
  <2>. QED
    BY <1>1, <1>3, <2>1, LeftStep DEF BufferInv
<1>. QED
  BY <1>2, <1>4

(* A step of one session that leaves the list and the messages alone.      *)
LEMMA OrderStep ==
  ASSUME BufferInv, NEW c \in Clients, NEW s \in Session, Step(c, s),
         c \in clients => (Online(s) => Online(sessions[c])),
         clients \subseteq Clients, UNCHANGED <<clients, messages, said, told>>
  PROVE  OrderInv'
<1>1. /\ sessions'[c] = s
      /\ \A d \in Clients \ {c} : sessions'[d] = sessions[d]
  BY SessionEffect DEF BufferInv
<1>2. ASSUME NEW d \in clients
      PROVE  /\ messages # <<>>
             /\ Online(sessions'[d]) => told[d] = said \/ told[d] + 1 = said
  <2>1. d \in Clients /\ (Online(sessions'[d]) => Online(sessions[d]))
    <3>1. CASE d = c
      BY <1>1, <1>2, <3>1
    <3>2. CASE d # c
      BY <1>1, <1>2, <3>2
    <3>. QED
      BY <3>1, <3>2
  <2>. QED
    BY <2>1 DEF BufferInv, OrderInv
<1>. QED
  BY <1>2 DEF OrderInv, Online
-----------------------------------------------------------------------------
(* What the server puts into buffers and on its list.                      *)
LEMMA OneSymbol ==
  ASSUME NEW x \in Symbols
  PROVE  /\ <<x>> \in Text \ {<<>>} /\ Len(<<x>>) > 0 /\ Len(<<x>>) < Modulus
         /\ x # ":" => <<x>> \in Plain
<1>1. <<x>> \in Seq(Symbols) /\ Len(<<x>>) = 1 /\ <<x>>[1] = x
  OBVIOUS
<1>2. <<x>> # <<>>
  OBVIOUS
<1>3. \A i \in 1 .. Len(<<x>>) : <<x>>[i] = x
  BY <1>1
<1>4. 1 < Modulus
  BY ModulusAssumption
<1>. QED
  BY <1>1, <1>2, <1>3, <1>4 DEF Text, Plain

(* The fixed phrases of the server, and who joins and leaves.              *)
LEMMA Phrases ==
  /\ <<"What is your name?">> \in Text /\ Len(<<"What is your name?">>) > 0
  /\ <<"Hello ">> \in Text
  /\ <<"Input to chat room!">> \in Plain /\ <<"is leaving">> \in Text \ {<<>>}
  /\ Len(<<"is leaving">>) < Modulus
<1>1. /\ "What is your name?" \in Symbols /\ "Hello " \in Symbols
      /\ "Input to chat room!" \in Symbols /\ "is leaving" \in Symbols
  BY PhrasesAssumption
<1>. QED
  BY <1>1, OneSymbol

LEMMA Announced ==
  ASSUME NEW c \in Clients
  PROVE  /\ Question \in Text /\ Len(Question) > 0 /\ Hello(c) \in Text
         /\ Joined(c) \in Typed /\ Leaving(c) \in Typed
<1>1. NameOf[c] \in Text
  BY NamesAssumption
<1>2. Hello(c) \in Text
  BY <1>1, Phrases, JoinType DEF Hello
<1>3. Joined(c) \in Typed /\ Leaving(c) \in Typed
  BY <1>1, Phrases DEF Joined, Leaving, Message, Typed, Plain
<1>. QED
  BY <1>2, <1>3, Phrases DEF Question

LEMMA OneMessage ==
  ASSUME NEW S, NEW m \in S
  PROVE  <<m>> \in Seq(S) /\ <<m>> # <<>> /\ Len(<<m>>) = 1 /\ <<m>>[1] = m
OBVIOUS

(* What is read of a text that a client may send.                          *)
LEMMA InputReads ==
  ASSUME NEW text \in Inputs
  PROVE  text \in Text /\ Parse(text).messages \in Seq(Typed)
<1>1. text \in Text
  BY InputsAssumption
<1>. DEFINE read == Parse(text)
<1>2. read \in States
  BY <1>1, ParseType
<1>. HIDE DEF read
<1>3. read.messages \in Seq(Typed)
  BY <1>2 DEF States
<1>. QED
  BY <1>1, <1>3 DEF read

(* A client displays messages, whatever text it is given.                  *)
LEMMA HandedType ==
  ASSUME NEW c \in Clients, NEW s, NEW text \in Text
  PROVE  Handed(c, s, text) \subseteq Typed
<1>. DEFINE n == Len(Hello(c))
            chat == IF Substr(text, 0, n) = Hello(c) THEN From(text, n) ELSE text
            read == Parse(chat)
<1>1. n \in Nat
  BY Announced, EmptyText
<1>2. chat \in Text
  BY <1>1, Pieces
<1>3. Displayed(c, text) = IF read.outcome = "ok" THEN Range(read.messages) ELSE {}
  BY DEF Displayed
<1>. HIDE DEF n, chat
<1>4. read.messages \in Seq(Typed)
  <2>1. read \in States
    BY <1>2, ParseType
  <2>. QED
    BY <2>1 DEF States
<1>. HIDE DEF read
<1>5. Range(read.messages) \subseteq Typed
  <2>1. \A i \in DOMAIN read.messages : read.messages[i] \in Typed
    BY <1>4, ElementOfSeq, LenProperties
  <2>. QED
    BY <2>1 DEF Range
<1>6. Displayed(c, text) \subseteq Typed
  BY <1>3, <1>5
<1>. QED
  BY <1>6 DEF Handed

(* What a step hands to the stream is added to what the client displays.   *)
LEMMA ShownType ==
  ASSUME TextInv, NEW c \in Clients, NEW s, NEW text \in Text,
         shown' = [shown EXCEPT ![c] = @ \cup Handed(c, s, text)]
  PROVE  shown' \in [Clients -> SUBSET Typed]
<1>1. Handed(c, s, text) \subseteq Typed
  BY HandedType
<1>2. shown \in [Clients -> SUBSET Typed]
  BY DEF TextInv
<1>. QED
  BY <1>1, <1>2
-----------------------------------------------------------------------------
(* One lemma for each action.                                              *)
LEMMA InitBufferInv == Init => BufferInv
<1>. SUFFICES ASSUME Init PROVE BufferInv
  OBVIOUS
<1>1. NewSession \in Session /\ NewSession.output = 0 /\ NewSession.status = "http"
  BY DEF NewSession, Session, NoOps, NoSending, TimerCbs, Deadlines, Statuses, Frames
<1>2. <<>> \in Text /\ Len(<<>>) = 0 /\ <<>> \in Seq(Typed)
  BY EmptySeq DEF Text
<1>3. TextInv
  BY <1>1, <1>2 DEF Init, TextInv, Reading
<1>4. LeftInv /\ OrderInv
  BY DEF Init, LeftInv, Unattended, OrderInv
<1>. QED
  BY <1>3, <1>4 DEF BufferInv

(* A session that is open has been accepted.                               *)
LEMMA OpenAccepted ==
  ASSUME IInv, NEW c \in Clients, sessions[c].status = "open"
  PROVE  sessions[c].accepted
BY DEF IInv, SessionsInv, SessionInv, Waiting

(* An action that changes nothing but one session, and that quietly.       *)
LEMMA QuietAlone ==
  ASSUME IInv, BufferInv, NEW c \in Clients, NEW s, Step(c, s), Keeps(sessions[c], s),
         UNCHANGED <<buffer, clients, messages, pc, input, todo, at, crashed, said, told, shown>>
  PROVE  BufferInv'
<1>1. s \in Session /\ (Online(s) => Online(sessions[c])) /\ clients \subseteq Clients
  BY DEF Keeps, IInv, TypeInv
<1>2. OrderInv'
  BY <1>1, OrderStep
<1>3. TextInv' /\ LeftInv'
  <2>1. messages' \in Seq(Typed) /\ input' \in [Clients -> Text]
        /\ shown' \in [Clients -> SUBSET Typed]
    BY DEF BufferInv, TextInv
  <2>2. \A d \in Clients : \A e, f \in at'[d] : e = f
    BY DEF BufferInv, LeftInv
  <2>. QED
    BY <2>1, <2>2, QuietStep
<1>. QED
  BY <1>2, <1>3 DEF BufferInv

LEMMA AnswerQuiet ==
  ASSUME NEW s \in Session, NEW k \in Kinds \ {"write"}, NEW ec, Outstanding(s, k),
         ec \in Answers(s, k), k = "handshake" => ec # "ok"
  PROVE  Keeps(s, Answer(s, k, ec))
<1>. DEFINE u == Answer(s, k, ec)
<1>1. /\ u \in Session /\ u.output = s.output /\ u.got = s.got
      /\ u.ops["write"] = s.ops["write"]
      /\ u.status = "open" => s.status = "open"
      /\ Online(u) => Online(s)
  BY AnswerKeeps
<1>. HIDE DEF u
<1>2. u.ops["write"] >= s.ops["write"]
  BY <1>1, WritesNat
<1>. QED
  BY <1>1, <1>2 DEF Keeps, u

LEMMA UpgradeBuffer ==
  ASSUME IInv, BufferInv, NEW c \in Clients, Upgrade(c) PROVE BufferInv'
<1>1. sessions[c] \in Session
  BY DEF BufferInv, TextInv
<1>2. Keeps(sessions[c], DoAccept(sessions[c]))
  BY <1>1, AcceptKeeps
<1>. QED
  BY <1>2, QuietAlone DEF Upgrade

LEMMA ReadFailsBuffer ==
  ASSUME IInv, BufferInv, NEW c \in Clients, NEW ec \in {"closed", "fail"},
         Completes(c, "read", ec), Step(c, Answer(sessions[c], "read", ec)),
         UNCHANGED <<buffer, clients, messages, pc, input, todo, at, crashed, said, told, shown>>
  PROVE  BufferInv'
<1>1. sessions[c] \in Session
  BY DEF BufferInv, TextInv
<1>2. Keeps(sessions[c], Answer(sessions[c], "read", ec))
  BY <1>1, AnswerQuiet DEF Completes, Kinds
<1>. QED
  BY <1>2, QuietAlone

LEMMA OnSentBuffer ==
  ASSUME IInv, BufferInv, NEW c \in Clients, OnSent(c) PROVE BufferInv'
<1>1. sessions[c] \in Session
  BY DEF BufferInv, TextInv
<1>2. PICK k \in {"ping", "close"}, ec \in {"ok", "fail"} :
        Completes(c, k, ec) /\ Step(c, Answer(sessions[c], k, ec))
  BY DEF OnSent
<1>3. Keeps(sessions[c], Answer(sessions[c], k, ec))
  BY <1>1, <1>2, AnswerQuiet DEF Completes, Kinds
<1>. QED
  BY <1>2, <1>3, QuietAlone DEF OnSent

LEMMA OnPongBuffer ==
  ASSUME IInv, BufferInv, NEW c \in Clients, OnPong(c) PROVE BufferInv'
<1>. DEFINE s == sessions[c]
            a == [s EXCEPT !.on_timer_cb = "ping"]
            u == [a EXCEPT !.quiet = FALSE]
<1>1. s \in Session
  BY DEF BufferInv, TextInv
<1>2. "ping" \in TimerCbs /\ FALSE \in BOOLEAN /\ "closed" \in Statuses \ {"open", "closing"}
  BY DEF TimerCbs, Statuses
<1>3. Keeps(s, a) /\ a \in Session
  BY <1>1, <1>2, SetKeeps DEF Keeps
<1>4. [s EXCEPT !.on_timer_cb = "ping", !.quiet = FALSE] = u
  OBVIOUS
<1>. HIDE DEF a
<1>5. Keeps(a, u)
  BY <1>2, <1>3, SetKeeps
<1>. HIDE DEF u
<1>6. Keeps(s, u)
  BY <1>1, <1>3, <1>5, KeepsTwice
<1>. QED
  BY <1>4, <1>6, QuietAlone DEF OnPong

LEMMA OnTimerBuffer ==
  ASSUME IInv, BufferInv, NEW c \in Clients, OnTimer(c) PROVE BufferInv'
<1>. DEFINE s == sessions[c]
<1>1. s \in Session
  BY DEF BufferInv, TextInv
<1>2. Keeps(s, DoPing(s)) /\ Keeps(s, DoClose(s))
  BY <1>1, PingKeeps, CloseKeeps
<1>3. Step(c, DoPing(s)) \/ Step(c, DoClose(s))
  BY DEF OnTimer
<1>. QED
  BY <1>2, <1>3, QuietAlone DEF OnTimer

LEMMA NetworkFailsBuffer ==
  ASSUME IInv, BufferInv, NEW c \in Clients, NetworkFails(c) PROVE BufferInv'
<1>. DEFINE u == [sessions[c] EXCEPT !.status = "failed"]
<1>1. sessions[c] \in Session
  BY DEF BufferInv, TextInv
<1>2. "close" \in TimerCbs /\ FALSE \in BOOLEAN /\ "failed" \in Statuses \ {"open", "closing"}
  BY DEF TimerCbs, Statuses
<1>3. Keeps(sessions[c], u)
  BY <1>1, <1>2, SetKeeps
<1>4. Step(c, u)
  BY DEF NetworkFails
<1>. HIDE DEF u
<1>. QED
  BY <1>3, <1>4, QuietAlone DEF NetworkFails

LEMMA OnAcceptBuffer ==
  ASSUME IInv, BufferInv, NEW c \in Clients, OnAccept(c) PROVE BufferInv'
<1>. DEFINE s == sessions[c]
            a == Answer(s, "handshake", "ok")
            b == [a EXCEPT !.accepted = TRUE]
            f == Fill(b, Question)
            u == WriteOrRead(f)
<1>1. s \in Session /\ SessionInv(s) /\ TextInv /\ LeftInv
  BY DEF BufferInv, TextInv, IInv, SessionsInv
<1>2. CASE Completes(c, "handshake", "ok") /\ buffer' = [buffer EXCEPT ![c] = Question]
           /\ Step(c, u)
  <2>1. a \in Session
    BY <1>1, <1>2, AnswerKeeps DEF Completes, Kinds
  <2>2. ~s.accepted
    BY <1>1, <1>2, AcceptSucceeds DEF Completes
  <2>. HIDE DEF a
  <2>3. b \in Session /\ b.accepted
    BY <2>1 DEF Session
  <2>. HIDE DEF b
  <2>4. f \in Session /\ f.output = Len(Question) /\ f.accepted
    BY <2>3, Announced, FillType
  <2>. HIDE DEF f
  <2>5. Question \in Text /\ Len(Question) > 0
    BY Announced
  <2>6. u \in Session /\ u.output = Len(Question) /\ u.ops["write"] > 0
    BY <2>4, <2>5, WriteOrReadKeeps DEF Keeps
  <2>. HIDE DEF u
  <2>7. buffer' \in [Clients -> Text] /\ buffer'[c] = Question
        /\ \A d \in Clients \ {c} : buffer'[d] = buffer[d]
    BY <1>1, <1>2, <2>5 DEF TextInv
  <2>8. UNCHANGED <<clients, messages, pc, input, at, said, told, shown>> /\ pc[c] \notin Reading
    BY <1>2 DEF OnAccept, Completes, Starts, Reading
  <2>9. TextInv'
    <3>1. messages' \in Seq(Typed) /\ told' \in [Clients -> Nat] /\ input' \in [Clients -> Text]
          /\ shown' \in [Clients -> SUBSET Typed]
      BY <1>1, <2>8 DEF TextInv
    <3>. QED
      BY <1>1, <1>2, <2>6, <2>7, <2>8, <3>1, TextStep
  <2>10. LeftInv'
    <3>1. \A d \in Clients : \A e, g \in at'[d] : e = g
      BY <1>1, <2>8 DEF LeftInv
    <3>. QED
      BY <1>1, <1>2, <2>6, <2>7, <2>8, <3>1, LeftStep
  <2>11. c \notin clients /\ clients \subseteq Clients
    BY <2>2 DEF IInv, ListInv, TypeInv
  <2>12. OrderInv'
    BY <1>2, <2>6, <2>8, <2>11, OrderStep
  <2>. QED
    BY <2>9, <2>10, <2>12 DEF BufferInv
<1>3. CASE Completes(c, "handshake", "fail") /\ Step(c, Answer(s, "handshake", "fail"))
           /\ UNCHANGED buffer
  <2>1. Keeps(s, Answer(s, "handshake", "fail"))
    BY <1>1, <1>3, AnswerQuiet DEF Completes, Kinds
  <2>. QED
    BY <1>3, <2>1, QuietAlone DEF OnAccept
<1>. QED
  BY <1>2, <1>3 DEF OnAccept

(* on_write empties the buffer, or finds the stream broken.                *)
LEMMA OnWriteBuffer ==
  ASSUME IInv, BufferInv, NEW c \in Clients, OnWrite(c) PROVE BufferInv'
<1>. DEFINE s == sessions[c]
<1>1. s \in Session /\ TextInv /\ LeftInv
  BY DEF BufferInv, TextInv
<1>2. UNCHANGED <<clients, messages, pc, input, at, said, told, shown>> /\ pc[c] \notin Reading
  BY DEF OnWrite, Completes, Starts, Reading
<1>3. PICK u \in Session :
        /\ Step(c, u) /\ (Online(u) => Online(s))
        /\ \/ u.output = 0 /\ buffer' = [buffer EXCEPT ![c] = <<>>]
           \/ u.output = s.output /\ u.status # "open" /\ UNCHANGED buffer
  <2>1. CASE Completes(c, "write", "ok") /\ Step(c, Written(Answer(s, "write", "ok")))
             /\ buffer' = [buffer EXCEPT ![c] = <<>>]
    <3>. DEFINE a == Answer(s, "write", "ok")
                e == [a EXCEPT !.output = 0]
    <3>1. a \in Session /\ (Online(a) => Online(s))
      BY <1>1, <2>1, AnswerKeeps DEF Completes, Kinds
    <3>2. Written(a) = IF a.readable THEN DoRead(e) ELSE e
      BY DEF Written
    <3>. HIDE DEF a
    <3>3. e \in Session /\ e.output = 0 /\ (Online(e) => Online(a))
      BY <3>1 DEF Session, Online
    <3>. HIDE DEF e
    <3>4. Keeps(e, DoRead(e))
      BY <3>3, ReadKeeps
    <3>5. Written(a) \in Session /\ Written(a).output = 0 /\ (Online(Written(a)) => Online(s))
      BY <3>1, <3>2, <3>3, <3>4 DEF Keeps
    <3>. QED
      BY <2>1, <3>5 DEF a
  <2>2. CASE Completes(c, "write", "fail") /\ Step(c, Answer(s, "write", "fail"))
             /\ UNCHANGED buffer
    <3>. DEFINE a == Answer(s, "write", "fail")
    <3>1. a \in Session /\ a.output = s.output /\ a.status # "open" /\ (Online(a) => Online(s))
      BY <1>1, <2>2, AnswerKeeps DEF Completes, Kinds
    <3>. QED
      BY <2>2, <3>1
  <2>. QED
    BY <2>1, <2>2 DEF OnWrite
<1>4. /\ buffer' \in [Clients -> Text] /\ u.output = Len(buffer'[c])
      /\ u.status = "open" => buffer'[c] = <<>>
      /\ \A d \in Clients \ {c} : buffer'[d] = buffer[d]
  <2>1. <<>> \in Text /\ Len(<<>>) = 0
    BY EmptySeq DEF Text
  <2>. QED
    BY <1>1, <1>3, <2>1 DEF TextInv
<1>5. TextInv'
  <2>1. messages' \in Seq(Typed) /\ told' \in [Clients -> Nat] /\ input' \in [Clients -> Text]
        /\ shown' \in [Clients -> SUBSET Typed]
    BY <1>1, <1>2 DEF TextInv
  <2>. QED
    BY <1>1, <1>2, <1>3, <1>4, <2>1, TextStep
<1>6. LeftInv'
  <2>1. \A d \in Clients : \A e, g \in at'[d] : e = g
    BY <1>1, <1>2 DEF LeftInv
  <2>. QED
    BY <1>1, <1>2, <1>3, <1>4, <2>1, LeftStep
<1>7. OrderInv'
  <2>1. clients \subseteq Clients
    BY DEF IInv, TypeInv
  <2>. QED
    BY <1>2, <1>3, <2>1, OrderStep
<1>. QED
  BY <1>5, <1>6, <1>7 DEF BufferInv

(* When the mutex is free, everybody on the list has everything.           *)
LEMMA AllTold ==
  ASSUME IInv, NEW c \in Clients, Locks(c), NEW d \in clients, Online(sessions[d])
  PROVE  told[d] = said
<1>1. \A e \in Clients : todo[e] = {}
  BY DEF IInv, MutexInv, Locks
<1>. QED
  BY <1>1 DEF IInv, ToldInv

(* A text that is put into a buffer while a handler runs there, or a       *)
(* broadcast's do_write is to come.                                        *)
LEMMA PutKeeps ==
  ASSUME BufferInv, NEW c \in Clients, NEW h \in Session, Online(h) => Online(sessions[c]),
         NEW text \in Text, NEW n \in Nat, Put(c, text, n), Step(c, Fill(h, buffer'[c])),
         pc'[c] \in Reading => h.got = "text",
         messages' \in Seq(Typed), input' \in [Clients -> Text], UNCHANGED shown,
         \A d \in Clients \ {c} : pc'[d] = pc[d],
         \A d \in Clients : \A e, f \in at'[d] : e = f,
         \A d \in Clients \ {c} : (\A e \in Clients : d \notin at'[e]) =>
                                    \A e \in Clients : d \notin at[e],
         pc'[c] \notin Resting \/ \E e \in Clients : c \in at'[e]
  PROVE  /\ TextInv' /\ LeftInv'
         /\ told'[c] = n /\ \A d \in Clients \ {c} : told'[d] = told[d]
         /\ \A d \in Clients : Online(sessions'[d]) => Online(sessions[d])
<1>. DEFINE s == Fill(h, buffer'[c])
<1>1. TextInv /\ LeftInv
  BY DEF BufferInv
<1>2. /\ buffer'[c] \in Text /\ buffer' \in [Clients -> Text]
      /\ \A d \in Clients \ {c} : buffer'[d] = buffer[d]
  <2>1. buffer[c] \o text \in Text
    BY <1>1, JoinType DEF TextInv
  <2>. QED
    BY <1>1, <2>1 DEF TextInv, Put
<1>3. s \in Session /\ s.output = Len(buffer'[c]) /\ s.got = h.got /\ s.status = h.status
  BY <1>2, FillType
<1>. HIDE DEF s
<1>4. Step(c, s)
  BY DEF s
<1>5. /\ told' \in [Clients -> Nat] /\ told'[c] = n
      /\ \A d \in Clients \ {c} : told'[d] = told[d]
      /\ shown' \in [Clients -> SUBSET Typed]
  BY <1>1 DEF TextInv, Put
<1>6. TextInv'
  BY <1>1, <1>2, <1>3, <1>4, <1>5, TextStep
<1>7. LeftInv'
  BY <1>1, <1>2, <1>3, <1>4, LeftStep
<1>8. sessions'[c] = s /\ \A d \in Clients \ {c} : sessions'[d] = sessions[d]
  BY <1>1, <1>3, <1>4, SessionEffect
<1>. QED
  BY <1>3, <1>5, <1>6, <1>7, <1>8 DEF Online

(* on_read, up to the call of on_message.                                  *)
LEMMA HeardKeeps ==
  ASSUME NEW c \in Clients, sessions[c] \in Session, Completes(c, "read", "ok")
  PROVE  LET h == Heard(c)
         IN  h \in Session /\ h.output = sessions[c].output /\ h.got = "text"
             /\ (Online(h) => Online(sessions[c]))
<1>. DEFINE a == Answer(sessions[c], "read", "ok")
            h == [a EXCEPT !.readable = TRUE, !.got = "text", !.quiet = FALSE]
<1>1. a \in Session /\ a.output = sessions[c].output /\ (Online(a) => Online(sessions[c]))
  BY AnswerKeeps DEF Completes, Kinds
<1>2. Heard(c) = h
  BY DEF Heard
<1>. HIDE DEF a
<1>3. h \in Session /\ h.output = a.output /\ h.got = "text" /\ h.status = a.status
  BY <1>1 DEF Session, Frames
<1>. HIDE DEF h
<1>. QED
  BY <1>1, <1>2, <1>3 DEF Online

LEMMA LongerByOne ==
  ASSUME NEW m \in Typed, messages \in Seq(Typed)
  PROVE  Append(messages, m) \in Seq(Typed) /\ Append(messages, m) # <<>>
<1>. DEFINE ms == Append(messages, m)
<1>1. ms \in Seq(Typed) /\ Len(ms) = Len(messages) + 1 /\ Len(messages) \in Nat
  BY AppendProperties, LenProperties
<1>. HIDE DEF ms
<1>2. Len(ms) # 0
  BY <1>1
<1>3. ms # <<>>
  BY <1>1, <1>2, EmptySeq
<1>. QED
  BY <1>1, <1>3 DEF ms

LEMMA IntroduceBuffer ==
  ASSUME IInv, BufferInv, NEW c \in Clients, Completes(c, "read", "ok"), Locks(c), Introduce(c),
         UNCHANGED <<at, shown>>
  PROVE  BufferInv'
<1>. DEFINE h == Heard(c)
            text == Hello(c) \o Serialize(messages')
            n == said'
<1>1. TextInv /\ LeftInv /\ TypeInv
  BY DEF BufferInv, IInv
<1>2. /\ messages' = Append(messages, Joined(c)) /\ Put(c, text, n)
      /\ Step(c, Fill(h, buffer'[c])) /\ input' = input
      /\ clients' = clients \cup {c} /\ pc' = [pc EXCEPT ![c] = "introducing"]
  BY DEF Introduce
<1>3. h \in Session /\ h.got = "text" /\ (Online(h) => Online(sessions[c]))
  BY <1>1, HeardKeeps DEF TextInv
<1>4. Joined(c) \in Typed /\ Hello(c) \in Text
  BY Announced
<1>5. messages' \in Seq(Typed) /\ messages' # <<>> /\ input' \in [Clients -> Text]
  BY <1>1, <1>2, <1>4, LongerByOne DEF TextInv
<1>6. said' = said + 1 /\ n \in Nat /\ said \in Nat
  BY <1>1 DEF Introduce, TypeInv
<1>7. text \in Text
  BY <1>4, <1>5, SerializeType, JoinType
<1>8. /\ pc'[c] = "introducing" /\ \A d \in Clients \ {c} : pc'[d] = pc[d]
      /\ "introducing" \notin Resting
  BY <1>1, <1>2 DEF TypeInv, Resting
<1>9. \A d \in Clients : \A e, f \in at'[d] : e = f
  BY <1>1 DEF LeftInv
<1>. HIDE DEF h, text
<1>10. /\ TextInv' /\ LeftInv'
       /\ told'[c] = n /\ \A d \in Clients \ {c} : told'[d] = told[d]
       /\ \A d \in Clients : Online(sessions'[d]) => Online(sessions[d])
  <2>. HIDE DEF n
  <2>. QED
    BY <1>2, <1>3, <1>5, <1>6, <1>7, <1>8, <1>9, PutKeeps
<1>11. OrderInv'
  <2>. SUFFICES ASSUME NEW d \in clients', Online(sessions'[d])
                PROVE  told'[d] = n \/ told'[d] + 1 = n
    BY <1>5 DEF OrderInv, Online
  <2>1. CASE d = c
    BY <1>10, <2>1
  <2>2. CASE d # c
    <3>1. d \in clients /\ d \in Clients
      BY <1>1, <1>2, <2>2 DEF TypeInv
    <3>2. told[d] = said /\ told'[d] = told[d]
      BY <1>10, <2>2, <3>1, AllTold
    <3>. QED
      BY <1>6, <3>2
  <2>. QED
    BY <2>1, <2>2
<1>. QED
  BY <1>10, <1>11 DEF BufferInv

LEMMA SpeakBuffer ==
  ASSUME IInv, BufferInv, NEW c \in Clients, NEW text \in Inputs, Completes(c, "read", "ok"),
         Locks(c), Speak(c, text), UNCHANGED <<at, shown>>
  PROVE  BufferInv'
<1>. DEFINE h == Heard(c)
            read == Parse(text)
            n == IF c \in clients THEN said' ELSE told[c]
<1>1. TextInv /\ LeftInv /\ OrderInv /\ TypeInv /\ messages \in Seq(Typed)
  BY DEF BufferInv, IInv, TextInv
<1>2. h \in Session /\ h.got = "text" /\ (Online(h) => Online(sessions[c]))
      /\ h.output = Len(buffer[c])
  BY <1>1, HeardKeeps DEF TextInv
<1>3. text \in Text /\ read.messages \in Seq(Typed)
  BY InputReads
<1>4. clients' = clients /\ pc' = [pc EXCEPT ![c] = "speaking"] /\ clients \subseteq Clients
  BY <1>1 DEF Speak, TypeInv
<1>5. \/ /\ messages' = messages \o read.messages /\ said' = said + 1
         /\ Put(c, text, n) /\ Step(c, Fill(h, buffer'[c])) /\ input' = [input EXCEPT ![c] = text]
      \/ Step(c, DoRead(h)) /\ UNCHANGED <<messages, buffer, input, said, told>>
      \/ Step(c, h) /\ UNCHANGED <<messages, buffer, input, said, told>>
  BY DEF Speak
<1>6. /\ pc'[c] = "speaking" /\ \A d \in Clients \ {c} : pc'[d] = pc[d]
      /\ "speaking" \notin Resting
  BY <1>1, <1>4 DEF TypeInv, Resting
<1>7. \A d \in Clients : \A e, f \in at'[d] : e = f
  BY <1>1 DEF LeftInv
<1>. HIDE DEF h, read
<1>8. CASE /\ messages' = messages \o read.messages /\ said' = said + 1
           /\ Put(c, text, n) /\ Step(c, Fill(h, buffer'[c])) /\ input' = [input EXCEPT ![c] = text]
  <2>1. /\ messages' \in Seq(Typed) /\ input' \in [Clients -> Text]
        /\ messages # <<>> => messages' # <<>>
    <3>1. messages' \in Seq(Typed) /\ Len(messages') = Len(messages) + Len(read.messages)
          /\ Len(messages) \in Nat /\ Len(read.messages) \in Nat
      BY <1>1, <1>3, <1>8, ConcatProperties, LenProperties
    <3>2. messages # <<>> => Len(messages) # 0
      BY <1>1, EmptySeq
    <3>3. messages # <<>> => Len(messages') # 0
      BY <3>1, <3>2
    <3>4. messages # <<>> => messages' # <<>>
      BY <3>1, <3>3, EmptySeq
    <3>. QED
      BY <1>1, <1>3, <1>8, <3>1, <3>4 DEF TextInv
  <2>2. said \in Nat /\ said' \in Nat /\ n \in Nat
    BY <1>1, <1>8 DEF TypeInv, TextInv
  <2>3. /\ TextInv' /\ LeftInv'
        /\ told'[c] = n /\ \A d \in Clients \ {c} : told'[d] = told[d]
        /\ \A d \in Clients : Online(sessions'[d]) => Online(sessions[d])
    <3>1. messages' \in Seq(Typed) /\ input' \in [Clients -> Text] /\ UNCHANGED shown
      BY <2>1
    <3>2. Put(c, text, n) /\ Step(c, Fill(h, buffer'[c])) /\ n \in Nat
      BY <1>8, <2>2
    <3>3. /\ h \in Session /\ (Online(h) => Online(sessions[c]))
          /\ pc'[c] \in Reading => h.got = "text"
      BY <1>2
    <3>4. \A d \in Clients \ {c} : (\A e \in Clients : d \notin at'[e]) =>
                                    \A e \in Clients : d \notin at[e]
      OBVIOUS
    <3>5. /\ \A d \in Clients \ {c} : pc'[d] = pc[d]
          /\ pc'[c] \notin Resting \/ \E e \in Clients : c \in at'[e]
      BY <1>6
    <3>. HIDE DEF n
    <3>. QED
      BY <1>3, <1>7, <3>1, <3>2, <3>3, <3>4, <3>5, PutKeeps
  <2>4. OrderInv'
    <3>. SUFFICES ASSUME NEW d \in clients
                  PROVE  /\ messages # <<>>
                         /\ Online(sessions'[d]) => told'[d] = said' \/ told'[d] + 1 = said'
      BY <1>4, <2>1 DEF OrderInv, Online
    <3>1. messages # <<>> /\ d \in Clients
      BY <1>1, <1>4 DEF OrderInv
    <3>2. CASE d = c
      BY <2>3, <3>1, <3>2
    <3>3. CASE d # c
      <4>1. Online(sessions'[d]) => told[d] = said /\ told'[d] = told[d]
        BY <2>3, <3>1, <3>3, AllTold
      <4>. QED
        BY <1>8, <3>1, <4>1
    <3>. QED
      BY <3>2, <3>3
  <2>. QED
    BY <2>3, <2>4 DEF BufferInv
<1>9. ASSUME NEW s, Step(c, s), Keeps(h, s), UNCHANGED <<messages, buffer, input, said, told>>
      PROVE  BufferInv'
  <2>1. s \in Session /\ s.got = "text" /\ s.output = h.output /\ (Online(s) => Online(sessions[c]))
    BY <1>2, <1>9 DEF Keeps
  <2>2. TextInv'
    <3>1. messages' \in Seq(Typed) /\ told' \in [Clients -> Nat] /\ input' \in [Clients -> Text]
          /\ shown' \in [Clients -> SUBSET Typed] /\ buffer' \in [Clients -> Text]
          /\ \A d \in Clients \ {c} : buffer'[d] = buffer[d]
      BY <1>1, <1>9 DEF TextInv
    <3>. QED
      BY <1>1, <1>2, <1>6, <1>9, <2>1, <3>1, TextStep
  <2>3. LeftInv'
    <3>1. \A d \in Clients \ {c} : buffer'[d] = buffer[d]
      BY <1>9
    <3>. QED
      BY <1>1, <1>6, <1>7, <1>9, <2>1, <3>1, LeftStep
  <2>4. OrderInv'
    BY <1>4, <1>9, <2>1, OrderStep
  <2>. QED
    BY <2>2, <2>3, <2>4 DEF BufferInv
<1>10. Keeps(h, DoRead(h)) /\ Keeps(h, h)
  BY <1>2, ReadKeeps, WritesNat
<1>. QED
  BY <1>5, <1>8, <1>9, <1>10

LEMMA OnCloseBuffer ==
  ASSUME IInv, BufferInv, NEW c \in Clients, OnClose(c) PROVE BufferInv'
<1>. DEFINE s == [sessions[c] EXCEPT !.status = "closed"]
<1>1. TextInv /\ LeftInv /\ TypeInv /\ sessions[c] \in Session /\ messages \in Seq(Typed)
  BY DEF BufferInv, IInv, TextInv
<1>2. Keeps(sessions[c], s) /\ s.status = "closed"
  <2>1. "close" \in TimerCbs /\ FALSE \in BOOLEAN /\ "closed" \in Statuses \ {"open", "closing"}
    BY DEF TimerCbs, Statuses
  <2>. QED
    BY <1>1, <2>1, SetKeeps DEF Session
<1>3. /\ Step(c, s) /\ UNCHANGED <<buffer, clients, input, at, told, shown>> /\ Locks(c)
      /\ pc[c] = "idle"
  BY DEF OnClose, Starts
<1>. HIDE DEF s
<1>4. \/ messages' = Append(messages, Leaving(c)) /\ said' = said + 1
         /\ pc' = [pc EXCEPT ![c] = "leaving"]
      \/ UNCHANGED <<messages, said, pc>>
  BY DEF OnClose
<1>5. \A d \in Clients \ {c} : pc'[d] = pc[d]
  BY <1>1, <1>4 DEF TypeInv
<1>6. pc'[c] \notin Reading
  BY <1>1, <1>3, <1>4 DEF TypeInv, Reading
<1>7. messages' \in Seq(Typed) /\ (messages # <<>> => messages' # <<>>)
  <2>1. Leaving(c) \in Typed
    BY Announced
  <2>. QED
    BY <1>1, <1>4, <2>1, LongerByOne
<1>8. TextInv' /\ LeftInv'
  <2>1. input' \in [Clients -> Text] /\ shown' \in [Clients -> SUBSET Typed]
        /\ \A d \in Clients : \A e, f \in at'[d] : e = f
    BY <1>1, <1>3 DEF TextInv, LeftInv
  <2>. QED
    BY <1>2, <1>3, <1>5, <1>6, <1>7, <2>1, QuietStep
<1>9. OrderInv'
  <2>. SUFFICES ASSUME NEW d \in clients
                PROVE  /\ messages' # <<>>
                       /\ Online(sessions'[d]) => told[d] = said' \/ told[d] + 1 = said'
    BY <1>3 DEF OrderInv, Online
  <2>1. d \in Clients /\ messages' # <<>>
    BY <1>1, <1>7 DEF TypeInv, BufferInv, OrderInv
  <2>2. Online(sessions'[d]) => told[d] = said
    <3>1. CASE d = c
      BY <1>1, <1>2, <1>3, <3>1, SessionEffect DEF Online, Keeps
    <3>2. CASE d # c
      BY <1>1, <1>2, <1>3, <2>1, <3>2, SessionEffect, AllTold DEF Keeps
    <3>. QED
      BY <3>1, <3>2
  <2>. QED
    BY <1>4, <2>1, <2>2
<1>. QED
  BY <1>8, <1>9 DEF BufferInv

LEMMA BroadcastBuffer ==
  ASSUME IInv, BufferInv, NEW c \in Clients, NEW d \in Clients, Broadcast(c, d)
  PROVE  BufferInv'
<1>. DEFINE text == News(c)
            n == said
<1>1. TextInv /\ LeftInv /\ OrderInv /\ TypeInv /\ messages \in Seq(Typed)
      /\ sessions[d] \in Session
  BY DEF BufferInv, IInv, TextInv
<1>2. /\ at[c] = {} /\ UNCHANGED <<clients, messages, pc, input, crashed, said, shown>> /\ d \in clients
  BY DEF Broadcast, IInv, MutexInv
<1>3. text \in Text /\ n \in Nat
  <2>1. messages # <<>>
    BY <1>1, <1>2 DEF OrderInv
  <2>2. Len(messages) \in Nat \ {0}
    BY <1>1, <2>1, EmptySeq
  <2>3. messages[Len(messages)] \in Typed
    BY <1>1, <2>2, ElementOfSeq
  <2>. DEFINE last == messages[Len(messages)]
  <2>. HIDE DEF last
  <2>4. <<last>> \in Seq(Typed)
    BY <2>3, OneMessage DEF last
  <2>5. Serialize(<<last>>) \in Text
    BY <2>4, SerializeType
  <2>6. input[c] \in Text /\ said \in Nat
    BY <1>1 DEF TextInv, TypeInv
  <2>. QED
    BY <2>5, <2>6 DEF News, last
<1>. HIDE DEF text
<1>4. CASE /\ Put(d, text, n) /\ Step(d, Fill(sessions[d], buffer'[d]))
           /\ at' = [at EXCEPT ![c] = {d}]
  <2>1. at'[c] = {d} /\ \A e \in Clients \ {c} : at'[e] = at[e]
    BY <1>1, <1>4 DEF TypeInv
  <2>2. /\ \A e \in Clients : \A f, g \in at'[e] : f = g
        /\ \A e \in Clients \ {d} : (\A f \in Clients : e \notin at'[f]) =>
                                      \A f \in Clients : e \notin at[f]
        /\ \E f \in Clients : d \in at'[f]
    BY <1>1, <1>2, <2>1 DEF LeftInv
  <2>3. pc'[d] \in Reading => sessions[d].got = "text"
    BY <1>1, <1>2 DEF TextInv
  <2>4. \A e \in Clients \ {d} : pc'[e] = pc[e]
    BY <1>2
  <2>5. messages' \in Seq(Typed) /\ input' \in [Clients -> Text]
    BY <1>1, <1>2 DEF TextInv
  <2>6. /\ TextInv' /\ LeftInv'
        /\ told'[d] = n /\ \A e \in Clients \ {d} : told'[e] = told[e]
        /\ \A e \in Clients : Online(sessions'[e]) => Online(sessions[e])
    <3>. HIDE DEF n
    <3>. QED
      BY <1>1, <1>2, <1>3, <1>4, <2>2, <2>3, <2>4, <2>5, PutKeeps
  <2>7. OrderInv'
    <3>. SUFFICES ASSUME NEW e \in clients
                  PROVE  /\ messages # <<>>
                         /\ Online(sessions'[e]) => told'[e] = n \/ told'[e] + 1 = n
      BY <1>2 DEF OrderInv, Online
    <3>1. e \in Clients
      BY <1>1 DEF TypeInv
    <3>2. CASE e = d
      BY <1>1, <2>6, <3>2 DEF OrderInv
    <3>3. CASE e # d
      BY <1>1, <2>6, <3>1, <3>3 DEF OrderInv
    <3>. QED
      BY <3>2, <3>3
  <2>. QED
    BY <2>6, <2>7 DEF BufferInv
<1>5. CASE UNCHANGED <<buffer, told, sessions, at>>
  <2>1. TextInv'
    BY <1>1, <1>2, <1>5 DEF TextInv
  <2>2. LeftInv'
    BY <1>1, <1>2, <1>5 DEF LeftInv, Unattended
  <2>3. OrderInv'
    BY <1>1, <1>2, <1>5 DEF OrderInv, Online
  <2>. QED
    BY <2>1, <2>2, <2>3 DEF BufferInv
<1>. QED
  BY <1>4, <1>5 DEF Broadcast, text

LEMMA BroadcastWriteBuffer ==
  ASSUME IInv, BufferInv, NEW c \in Clients, BroadcastWrite(c) PROVE BufferInv'
<1>1. TextInv /\ LeftInv /\ TypeInv
  BY DEF BufferInv, IInv
<1>2. PICK d \in at[c] :
        /\ Step(d, DoWrite(sessions[d]))
        /\ shown' = [shown EXCEPT ![d] = @ \cup Handed(d, DoWrite(sessions[d]), buffer[d])]
  BY DEF BroadcastWrite
<1>. DEFINE s == DoWrite(sessions[d])
<1>3. d \in Clients /\ sessions[d] \in Session /\ buffer[d] \in Text
  BY <1>1, <1>2 DEF TypeInv, TextInv
<1>4. shown' \in [Clients -> SUBSET Typed]
  BY <1>1, <1>2, <1>3, ShownType
<1>5. Keeps(sessions[d], s) /\ (sessions[d].accepted => s.ops["write"] > 0)
  BY <1>3, WriteKeeps
<1>6. Step(d, s)
  BY <1>2
<1>. HIDE DEF s
<1>7. s.status = "open" => s.ops["write"] > 0
  BY <1>3, <1>5, OpenAccepted DEF Keeps
<1>8. s \in Session /\ (Online(s) => Online(sessions[d]))
  BY <1>5 DEF Keeps
<1>9. UNCHANGED <<buffer, clients, messages, pc, input, said, told>> /\ at' = [at EXCEPT ![c] = {}]
  BY DEF BroadcastWrite
<1>10. /\ \A e \in Clients : \A f, g \in at'[e] : f = g
       /\ \A e \in Clients \ {d} : (\A f \in Clients : e \notin at'[f]) =>
                                     \A f \in Clients : e \notin at[f]
  BY <1>1, <1>2, <1>9 DEF LeftInv, TypeInv
<1>11. TextInv' /\ LeftInv'
  <2>1. messages' \in Seq(Typed) /\ input' \in [Clients -> Text]
    BY <1>1, <1>9 DEF TextInv
  <2>. QED
    BY <1>3, <1>4, <1>5, <1>6, <1>7, <1>9, <1>10, <2>1, QuietStep
<1>12. OrderInv'
  BY <1>1, <1>3, <1>6, <1>8, <1>9, OrderStep DEF TypeInv
<1>. QED
  BY <1>11, <1>12 DEF BufferInv

LEMMA UnlockBuffer ==
  ASSUME IInv, BufferInv, NEW c \in Clients, Unlock(c) PROVE BufferInv'
<1>1. TextInv /\ LeftInv /\ TypeInv /\ sessions[c] \in Session
  BY DEF BufferInv, IInv, TextInv
<1>2. /\ UNCHANGED <<buffer, clients, messages, at, said, told, shown>>
      /\ input' = [input EXCEPT ![c] = <<>>] /\ pc[c] \in Holding
  BY DEF Unlock
<1>3. PICK s : /\ Step(c, s) /\ Keeps(sessions[c], s)
               /\ \/ pc[c] = "leaving" /\ pc' = [pc EXCEPT ![c] = "idle"]
                     /\ s = sessions[c] /\ at[c] = {}
                  \/ pc[c] # "leaving" /\ pc' = [pc EXCEPT ![c] = "after"]
  <2>1. CASE pc[c] = "leaving"
    <3>1. Step(c, sessions[c]) /\ Keeps(sessions[c], sessions[c])
      BY <1>1, <2>1, WritesNat DEF Unlock, Step, TextInv
    <3>. QED
      BY <2>1, <3>1 DEF Unlock
  <2>2. CASE pc[c] # "leaving"
    <3>. DEFINE s == [sessions[c] EXCEPT !.on_timer_cb = "ping"]
    <3>1. Keeps(sessions[c], s)
      <4>1. "ping" \in TimerCbs /\ FALSE \in BOOLEAN /\ "closed" \in Statuses \ {"open", "closing"}
        BY DEF TimerCbs, Statuses
      <4>. QED
        BY <1>1, <4>1, SetKeeps
    <3>2. Step(c, s) /\ pc' = [pc EXCEPT ![c] = "after"]
      BY <2>2 DEF Unlock
    <3>. HIDE DEF s
    <3>. QED
      BY <2>2, <3>1, <3>2
  <2>. QED
    BY <2>1, <2>2
<1>4. \A d \in Clients \ {c} : pc'[d] = pc[d]
  BY <1>1, <1>3 DEF TypeInv
<1>5. /\ pc'[c] \in Reading => pc[c] \in Reading
      /\ pc'[c] \in Resting => pc[c] \in Resting
  BY <1>1, <1>2, <1>3 DEF TypeInv, Reading, Resting, Holding
<1>6. \A d \in Clients : \A e, f \in at'[d] : e = f
  BY <1>1, <1>2 DEF LeftInv
<1>7. TextInv' /\ LeftInv'
  <2>1. messages' \in Seq(Typed) /\ input' \in [Clients -> Text]
        /\ shown' \in [Clients -> SUBSET Typed]
    BY <1>1, <1>2, EmptySeq DEF TextInv, Text
  <2>. QED
    BY <1>2, <1>3, <1>4, <1>5, <1>6, <2>1, QuietStep
<1>8. OrderInv'
  BY <1>1, <1>2, <1>3, OrderStep DEF Keeps, TypeInv
<1>. QED
  BY <1>7, <1>8 DEF BufferInv

LEMMA ReadEndBuffer ==
  ASSUME IInv, BufferInv, NEW c \in Clients, ReadEnd(c) PROVE BufferInv'
<1>. DEFINE f == AutoFrame(sessions[c])
            s == WriteOrRead(f)
<1>1. TextInv /\ LeftInv /\ TypeInv /\ sessions[c] \in Session /\ buffer[c] \in Text
  BY DEF BufferInv, IInv, TextInv
<1>2. /\ pc[c] = "after" /\ pc' = [pc EXCEPT ![c] = "idle"] /\ Step(c, s)
      /\ shown' = [shown EXCEPT ![c] = @ \cup Handed(c, s, buffer[c])]
      /\ UNCHANGED <<buffer, clients, messages, input, at, said, told>>
  BY DEF ReadEnd
<1>3. shown' \in [Clients -> SUBSET Typed]
  <2>. HIDE DEF s
  <2>. QED
    BY <1>1, <1>2, ShownType
<1>4. Keeps(sessions[c], f) /\ f \in Session /\ f.accepted = sessions[c].accepted
  BY <1>1, <1>2, FrameKeeps DEF TextInv, Reading, Keeps
<1>. HIDE DEF f
<1>5. Keeps(f, s) /\ (f.accepted /\ f.output > 0 => s.ops["write"] > 0)
  BY <1>4, WriteOrReadKeeps
<1>. HIDE DEF s
<1>6. Keeps(sessions[c], s)
  BY <1>1, <1>4, <1>5, KeepsTwice
<1>7. s.status = "open" /\ buffer[c] # <<>> => s.ops["write"] > 0
  <2>. SUFFICES ASSUME s.status = "open", buffer[c] # <<>> PROVE s.ops["write"] > 0
    OBVIOUS
  <2>1. f.accepted
    BY <1>4, <1>6, OpenAccepted DEF Keeps
  <2>2. f.output = Len(buffer[c])
    BY <1>1, <1>4 DEF TextInv, Keeps
  <2>3. Len(buffer[c]) \in Nat /\ Len(buffer[c]) # 0
    BY <1>1, EmptyText
  <2>. QED
    BY <1>5, <2>1, <2>2, <2>3
<1>8. /\ pc'[c] = "idle" /\ "idle" \notin Reading /\ \A d \in Clients \ {c} : pc'[d] = pc[d]
  BY <1>1, <1>2 DEF TypeInv, Reading
<1>9. \A d \in Clients : \A e, g \in at'[d] : e = g
  BY <1>1, <1>2 DEF LeftInv
<1>10. TextInv' /\ LeftInv'
  <2>1. messages' \in Seq(Typed) /\ input' \in [Clients -> Text]
    BY <1>1, <1>2 DEF TextInv
  <2>. QED
    BY <1>2, <1>3, <1>6, <1>7, <1>8, <1>9, <2>1, QuietStep
<1>11. OrderInv'
  BY <1>1, <1>2, <1>6, OrderStep DEF Keeps, TypeInv
<1>. QED
  BY <1>10, <1>11 DEF BufferInv
-----------------------------------------------------------------------------
LEMMA NextBufferInv == IInv /\ BufferInv /\ [Next]_vars => BufferInv'
<1>. SUFFICES ASSUME IInv, BufferInv, [Next]_vars PROVE BufferInv'
  OBVIOUS
<1>1. CASE UNCHANGED vars
  <2>1. TextInv' /\ LeftInv' /\ OrderInv'
    BY <1>1 DEF vars, BufferInv, TextInv, LeftInv, Unattended, OrderInv, Online
  <2>. QED
    BY <2>1 DEF BufferInv
<1>2. ASSUME NEW c \in Clients, OnRead(c) PROVE BufferInv'
  <2>1. CASE Completes(c, "read", "ok") /\ Locks(c) /\ Introduce(c) /\ UNCHANGED <<at, shown>>
    BY <2>1, IntroduceBuffer
  <2>2. CASE /\ Completes(c, "read", "ok") /\ Locks(c)
             /\ \E text \in Inputs : Speak(c, text)
             /\ UNCHANGED <<at, shown>>
    <3>1. PICK text \in Inputs : Speak(c, text)
      BY <2>2
    <3>. QED
      BY <2>2, <3>1, SpeakBuffer
  <2>3. CASE \E ec \in {"closed", "fail"} :
               /\ Completes(c, "read", ec)
               /\ Step(c, Answer(sessions[c], "read", ec))
               /\ UNCHANGED <<buffer, clients, messages, pc, input, todo, at, crashed, said, told, shown>>
    BY <2>3, ReadFailsBuffer
  <2>. QED
    BY <1>2, <2>1, <2>2, <2>3 DEF OnRead
<1>. QED
  BY <1>1, <1>2, UpgradeBuffer, OnAcceptBuffer, OnCloseBuffer, BroadcastBuffer,
     BroadcastWriteBuffer, UnlockBuffer, ReadEndBuffer, OnWriteBuffer, OnSentBuffer, OnPongBuffer,
     OnTimerBuffer, NetworkFailsBuffer DEF Next, Ended

LEMMA BufferInvariant == Spec => []BufferInv
<1>. QED
  BY InitBufferInv, NextBufferInv, Invariant, PTL DEF Spec
-----------------------------------------------------------------------------
(* Every session is a session and every buffer a text, whose size is the   *)
(* session's "output"; what is stored and displayed are messages.          *)
THEOREM TypeCorrect == Spec => []TypeOK
<1>1. IInv /\ BufferInv => TypeOK
  <2>. SUFFICES ASSUME IInv, BufferInv PROVE TypeOK
    OBVIOUS
  <2>1. TextInv /\ TypeInv
    BY DEF BufferInv, IInv
  <2>. QED
    BY <2>1 DEF TypeOK, TextInv, TypeInv, Typed
<1>. QED
  BY <1>1, Invariant, BufferInvariant, PTL

(* on_write empties the buffer without the mutex, and broadcasts append to *)
(* it under the mutex: still nothing waits in the buffer of an open        *)
(* session without a write whose end will empty it.                        *)
THEOREM BuffersAreSent == Spec => []NothingLeft
<1>1. IInv /\ BufferInv => NothingLeft
  <2>. SUFFICES ASSUME BufferInv PROVE NothingLeft
    OBVIOUS
  <2>1. \A c \in Clients : Unattended(c) => sessions[c].ops["write"] > 0
    BY DEF BufferInv, LeftInv
  <2>. QED
    BY <2>1 DEF NothingLeft, Unattended, Resting
<1>. QED
  BY <1>1, Invariant, BufferInvariant, PTL

(* The history is readable if nobody's name is empty or has a colon, and   *)
(* nobody sends a chat message that cannot be serialized.  The server      *)
(* checks neither, so these are conditions on the clients.                 *)
Readable ==
  /\ \A c \in Clients : NameOf[c] \in Plain \ {<<>>} /\ Len(NameOf[c]) < Modulus
  /\ \A text \in Inputs :
       Parse(text).outcome = "ok" => Parse(text).messages \in Seq(Sendable)

StoredInv == Readable => messages \in Seq(Sendable)

LEMMA AnnouncedReadable ==
  ASSUME NEW c \in Clients, Readable
  PROVE  Joined(c) \in Sendable /\ Leaving(c) \in Sendable
<1>1. NameOf[c] \in Plain \ {<<>>} /\ Len(NameOf[c]) < Modulus /\ NameOf[c] \in Text
  BY DEF Readable, Plain
<1>2. /\ Len(<<"is leaving">>) < Modulus /\ <<"is leaving">> \in Text \ {<<>>}
      /\ <<"Input to chat room!">> \in Plain
  BY Phrases
<1>. QED
  BY <1>1, <1>2 DEF Joined, Leaving, Message, Sendable, Wire

(* What a step does to the messages stored.                                *)
LEMMA MessagesStep ==
  ASSUME [Next]_vars
  PROVE  \/ messages' = messages
         \/ \E c \in Clients : messages' \in {Append(messages, Joined(c)), Append(messages, Leaving(c))}
         \/ \E text \in Inputs :
              Parse(text).outcome = "ok" /\ messages' = messages \o Parse(text).messages
<1>1. ASSUME NEW c \in Clients, OnRead(c)
      PROVE  \/ messages' = messages
             \/ messages' = Append(messages, Joined(c))
             \/ \E text \in Inputs :
                  Parse(text).outcome = "ok" /\ messages' = messages \o Parse(text).messages
  BY <1>1 DEF OnRead, Introduce, Speak
<1>2. ASSUME NEW c \in Clients, OnClose(c)
      PROVE  messages' = messages \/ messages' = Append(messages, Leaving(c))
  BY <1>2 DEF OnClose
<1>3. ASSUME NEW c \in Clients, ~OnRead(c), ~OnClose(c),
             \/ Upgrade(c) \/ OnAccept(c) \/ OnRead(c) \/ OnClose(c)
             \/ \E d \in Clients : Broadcast(c, d)
             \/ BroadcastWrite(c) \/ Unlock(c) \/ ReadEnd(c)
             \/ OnWrite(c) \/ OnSent(c) \/ OnPong(c) \/ OnTimer(c) \/ NetworkFails(c)
      PROVE  messages' = messages
  BY <1>3 DEF Upgrade, OnAccept, Broadcast, BroadcastWrite, Unlock, ReadEnd, OnWrite, OnSent,
              OnPong, OnTimer, NetworkFails
<1>. QED
  BY <1>1, <1>2, <1>3 DEF Next, Ended, vars

LEMMA StoredInvariant == Spec => []StoredInv
<1>1. Init => StoredInv
  BY EmptySeq DEF Init, StoredInv
<1>2. StoredInv /\ [Next]_vars => StoredInv'
  <2>. SUFFICES ASSUME [Next]_vars, Readable, messages \in Seq(Sendable)
                PROVE  messages' \in Seq(Sendable)
    BY DEF StoredInv, Readable
  <2>1. CASE messages' = messages
    BY <2>1
  <2>2. ASSUME NEW c \in Clients,
               messages' \in {Append(messages, Joined(c)), Append(messages, Leaving(c))}
        PROVE  messages' \in Seq(Sendable)
    BY <2>2, AnnouncedReadable, AppendProperties
  <2>3. ASSUME NEW text \in Inputs,
               Parse(text).outcome = "ok" /\ messages' = messages \o Parse(text).messages
        PROVE  messages' \in Seq(Sendable)
    <3>. DEFINE read == Parse(text).messages
    <3>1. read \in Seq(Sendable)
      BY <2>3 DEF Readable
    <3>. HIDE DEF read
    <3>. QED
      BY <2>3, <3>1, ConcatProperties DEF read
  <2>. QED
    BY <2>1, <2>2, <2>3, MessagesStep
<1>. QED
  BY <1>1, <1>2, PTL DEF Spec

(* Then, and until their number no longer fits a uint32_t, Inv::serialize  *)
(* of whatever the server has stored is read back by Inv::parse as what    *)
(* was stored, whatever the order of handlers and broadcasts.              *)
THEOREM HistoryReadsBack == Spec => [](Readable /\ Len(messages) < Modulus => HistoryReadable)
<1>1. StoredInv => (Readable /\ Len(messages) < Modulus => HistoryReadable)
  BY SerializedReadsBack DEF StoredInv, HistoryReadable
<1>. QED
  BY <1>1, StoredInvariant, PTL

(* Only a handler with the mutex tells anybody anything: the owner of a    *)
(* session when everybody has everything, or a broadcast of what is new.   *)
LEMMA OneMore ==
  ASSUME IInv, BufferInv, [Next]_vars, NEW c \in clients, Connected(c)
  PROVE  told'[c] \in {told[c], told[c] + 1}
<1>1. c \in Clients /\ Online(sessions[c]) /\ told \in [Clients -> Nat]
      /\ Total(told) /\ said \in Nat
  BY DEF IInv, TypeInv, BufferInv, TextInv, Connected, Online
<1>2. ASSUME NEW d \in Clients, NEW n, NEW text, Locks(d), Put(d, text, n),
             d \in clients => n = said + 1
      PROVE  told'[c] \in {told[c], told[c] + 1}
  <2>1. CASE c = d
    <3>1. told[c] = said
      BY <1>1, <1>2, AllTold
    <3>. QED
      BY <1>1, <1>2, <2>1, <3>1 DEF Put
  <2>2. CASE c # d
    BY <1>1, <1>2, <2>2 DEF Put
  <2>. QED
    BY <2>1, <2>2
<1>3. ASSUME NEW d \in Clients, Introduce(d), Locks(d)
      PROVE  told'[c] \in {told[c], told[c] + 1}
  <2>1. said' = said + 1 /\ Put(d, Hello(d) \o Serialize(messages'), said')
    BY <1>3 DEF Introduce
  <2>. QED
    BY <1>2, <1>3, <2>1, Zenon
<1>4. ASSUME NEW d \in Clients, NEW text, Speak(d, text), Locks(d)
      PROVE  told'[c] \in {told[c], told[c] + 1}
  <2>. DEFINE n == IF d \in clients THEN said' ELSE told[d]
  <2>1. \/ said' = said + 1 /\ Put(d, text, n)
        \/ told' = told
    BY <1>4 DEF Speak
  <2>2. CASE said' = said + 1 /\ Put(d, text, n)
    <3>1. d \in clients => n = said + 1
      BY <2>2
    <3>. HIDE DEF n
    <3>. QED
      BY <1>2, <1>4, <2>2, <3>1, Zenon
  <2>. QED
    BY <2>1, <2>2
<1>5. ASSUME NEW d \in Clients, NEW e \in Clients, Broadcast(d, e)
      PROVE  told'[c] \in {told[c], told[c] + 1}
  <2>1. CASE c = e /\ told' = [told EXCEPT ![e] = said]
    <3>1. told[c] = said \/ told[c] + 1 = said
      BY <1>1 DEF BufferInv, OrderInv
    <3>. QED
      BY <1>1, <2>1, <3>1
  <2>2. CASE c # e /\ told' = [told EXCEPT ![e] = said]
    BY <1>1, <2>2
  <2>. QED
    BY <1>5, <2>1, <2>2 DEF Broadcast, Put
<1>6. ASSUME NEW d \in Clients, OnRead(d) PROVE told'[c] \in {told[c], told[c] + 1}
  BY <1>3, <1>4, <1>6 DEF OnRead
<1>7. CASE \E d \in Clients :
             \/ Upgrade(d) \/ OnAccept(d) \/ OnClose(d)
             \/ BroadcastWrite(d) \/ Unlock(d) \/ ReadEnd(d)
             \/ OnWrite(d) \/ OnSent(d) \/ OnPong(d) \/ OnTimer(d) \/ NetworkFails(d)
  <2>1. told' = told
    BY <1>7 DEF Upgrade, OnAccept, OnClose, BroadcastWrite, Unlock, ReadEnd, OnWrite, OnSent,
                OnPong, OnTimer, NetworkFails
  <2>. QED
    BY <2>1
<1>8. CASE UNCHANGED vars
  BY <1>8 DEF vars
<1>. QED
  BY <1>5, <1>6, <1>7, <1>8 DEF Next, Ended

(* Everybody who is connected and on the list is told what was stored      *)
(* handler by handler: what handler n + 2 stored is not appended to a      *)
(* buffer that lacks what handler n + 1 stored.                            *)
THEOREM ToldOneByOne == Spec => ToldInOrder
<1>1. IInv /\ BufferInv /\ [Next]_vars
        => [\A c \in clients : Connected(c) => told'[c] \in {told[c], told[c] + 1}]_vars
  BY OneMore DEF Connected
<1>. QED
  BY <1>1, Invariant, BufferInvariant, PTL DEF Spec, ToldInOrder
=============================================================================
