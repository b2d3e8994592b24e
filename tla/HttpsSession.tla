---------------------------- MODULE HttpsSession ----------------------------
(***************************************************************************)
(* One HTTPS server session, session<true, Body> of include/ssl.hpp: it    *)
(* reads requests, routes each to the application's handlers and writes    *)
(* their responses in order from a queue, reading ahead (pipelining) while *)
(* the queue is not full.  All its completion handlers run on the          *)
(* connection's strand and are one action each.  The timer whose deadline  *)
(* do_read moves is waited for by nobody and is left out.                  *)
(***************************************************************************)
EXTENDS Naturals, Sequences

CONSTANTS
  Limit,      \* queue::limit, 8 in the code
  Requests,   \* the requests a client may send, see RequestType
  MaxRequests \* bound: requests read from one connection

(* A response keeps the connection, or ends it (need_eof).                 *)
Kinds == {"keep_alive", "need_eof"}

(* What routing makes of a request: whether a route with its method        *)
(* matches, and the responses written by the handlers of those routes, or, *)
(* if there is none, of the routes for any method.                         *)
RequestType ==
  [routed : BOOLEAN, by_method : Seq(Kinds), by_resource : Seq(Kinds)]

ASSUME LimitAssumption == Limit \in Nat \ {0} /\ MaxRequests \in Nat
ASSUME RequestsAssumption == Requests \subseteq RequestType

VARIABLES
  handshake,  \* the member of that name
  items,      \* the queue: for each response its request and its kind
  handshakes, \* outstanding operations of each kind
  reads,
  writes,
  shutdowns,
  tls,        \* the stream: "new", "handshaking", "up", "half", "failed"
  received,   \* history: requests read so far
  ended       \* history: a response that needs eof was written

vars == <<handshake, items, handshakes, reads, writes, shutdowns, tls,
          received, ended>>

Work == [of : Nat, kind : Kinds]

TypeOK ==
  /\ handshake \in BOOLEAN
  /\ items \in Seq(Work)
  /\ handshakes \in Nat /\ reads \in Nat /\ writes \in Nat /\ shutdowns \in Nat
  /\ tls \in {"new", "handshaking", "up", "half", "failed"}
  /\ received \in Nat
  /\ ended \in BOOLEAN

Init ==
  /\ handshake = FALSE
  /\ items = <<>>
  /\ handshakes = 0 /\ reads = 0 /\ writes = 0 /\ shutdowns = 0
  /\ tls = "new"
  /\ received = 0
  /\ ended = FALSE

-----------------------------------------------------------------------------

IsFull(q) == Len(q) >= Limit

(* do_read and do_close, as what they add to the operations in flight.     *)
DoRead  == reads' = IF handshake THEN reads + 1 ELSE reads
DoClose == shutdowns' = shutdowns + 1

(* queue::operator() for each response: all are queued, and the first is   *)
(* started if there was no previous work.                                  *)
DoWrite(responses) ==
  /\ items' = items \o [i \in DOMAIN responses |->
                          [of |-> received + 1, kind |-> responses[i]]]
  /\ writes' = IF items = <<>> /\ responses # <<>> THEN writes + 1 ELSE writes

Responses(req) == IF req.routed THEN req.by_method ELSE req.by_resource

-----------------------------------------------------------------------------
(* session::on_accept: the user's on_accept calls do_handshake.            *)
OnAccept ==
  /\ tls = "new"
  /\ tls' = "handshaking"
  /\ handshakes' = handshakes + 1
  /\ UNCHANGED <<handshake, items, reads, writes, shutdowns, received, ended>>

OnHandshake ==
  /\ handshakes > 0
  /\ handshakes' = handshakes - 1
  /\ \/ /\ tls = "handshaking"
        /\ tls' = "up"
        /\ handshake' = TRUE
        /\ reads' = reads + 1
     \/ /\ tls' = "failed"
        /\ UNCHANGED <<handshake, reads>>
  /\ UNCHANGED <<items, writes, shutdowns, received, ended>>

(* Mutant: it looks at the queue before the handlers have filled it.       *)
ProcessRequestLooksEarly(req) ==
  /\ DoWrite(Responses(req))
  /\ IF IsFull(items) THEN reads' = reads - 1 ELSE reads' = reads

(* process_request: the handlers run, then the next request is read if the *)
(* queue is not full.  The read that brought this one is over.             *)
ProcessRequest(req) ==
  /\ DoWrite(Responses(req))
  /\ IF IsFull(items') THEN reads' = reads - 1 ELSE reads' = reads

(* on_read.  A read on a stream that is being shut down may still succeed. *)
OnRead ==
  /\ reads > 0
  /\ UNCHANGED <<handshake, handshakes, ended>>
  /\ \/ /\ tls = "up"
        /\ received < MaxRequests
        /\ \E req \in Requests : ProcessRequest(req)
        /\ received' = received + 1
        /\ UNCHANGED <<shutdowns, tls>>
     \/ /\ tls \in {"up", "half"} \* end_of_stream: the peer sends no more
        /\ tls' = "half"
        /\ reads' = reads - 1
        /\ DoClose
        /\ UNCHANGED <<items, writes, received>>
     \/ /\ tls = "failed" \/ shutdowns > 0
        /\ reads' = reads - 1
        /\ UNCHANGED <<items, writes, shutdowns, tls, received>>

(* queue::on_write: drop what was written, start the next, and tell        *)
(* whether the queue was full.                                             *)
QueueOnWrite ==
  /\ items' = Tail(items)
  /\ writes' = IF Tail(items) = <<>> THEN writes - 1 ELSE writes
  /\ IF IsFull(items) THEN DoRead ELSE UNCHANGED reads

OnWrite ==
  /\ writes > 0
  /\ UNCHANGED <<handshake, handshakes, tls, received>>
  /\ \/ /\ tls \in {"up", "half"}
        /\ items # <<>>
        /\ IF Head(items).kind = "need_eof"
           THEN /\ DoClose
                /\ writes' = writes - 1
                /\ ended' = TRUE
                /\ UNCHANGED <<items, reads>>
           ELSE QueueOnWrite /\ UNCHANGED <<shutdowns, ended>>
     \/ /\ tls = "failed" \/ shutdowns > 0
        /\ writes' = writes - 1
        /\ UNCHANGED <<items, reads, shutdowns, ended>>

(* Mutant: a shutdown that failed is tried again.                          *)
OnShutdownRetries ==
  /\ shutdowns > 0
  /\ shutdowns' = IF tls = "failed" THEN shutdowns ELSE shutdowns - 1
  /\ tls' = "failed"
  /\ UNCHANGED <<handshake, items, handshakes, reads, writes, received, ended>>

OnShutdown ==
  /\ shutdowns > 0
  /\ shutdowns' = shutdowns - 1
  /\ tls' = "failed" \* whatever the answer, the stream is of no more use
  /\ UNCHANGED <<handshake, items, handshakes, reads, writes, received, ended>>

(* The network or the peer breaks the connection.                          *)
NetworkFails ==
  /\ tls \in {"handshaking", "up", "half"}
  /\ tls' = "failed"
  /\ UNCHANGED <<handshake, items, handshakes, reads, writes, shutdowns,
                 received, ended>>

(* Only outstanding operations hold the session.                           *)
Released == tls # "new" /\ handshakes + reads + writes + shutdowns = 0

Ended == Released /\ UNCHANGED vars

Next ==
  \/ OnAccept \/ OnHandshake \/ OnRead \/ OnWrite \/ OnShutdown
  \/ NetworkFails \/ Ended

Spec == Init /\ [][Next]_vars

(* On a failed stream every operation is answered.                         *)
Fairness ==
  /\ WF_vars(tls = "failed" /\ OnHandshake) /\ WF_vars(tls = "failed" /\ OnRead)
  /\ WF_vars(tls = "failed" /\ OnWrite)     /\ WF_vars(tls = "failed" /\ OnShutdown)

LiveSpec == Spec /\ Fairness
-----------------------------------------------------------------------------
(* Neither read nor written to an end, nor broken.                         *)
Alive == handshake /\ tls = "up" /\ shutdowns = 0 /\ ~ended

(* "Returns true if the caller should initiate a read": no read is started *)
(* while one is outstanding; both would parse into the same request.       *)
ReadsAreSingle == reads <= 1

(* The queue holds no more than its limit, whatever the client pipelines.  *)
QueueBounded == Len(items) <= Limit

(* A session reads exactly while there is room for a response: it neither  *)
(* stops reading for ever nor reads what it cannot queue.                  *)
ReadsIfRoom == Alive => (reads = 1 <=> ~IsFull(items))

(* Responses are written one at a time, and only while there is one: the   *)
(* assertion in queue::on_write holds.                                     *)
OneWrite == writes <= 1 /\ (writes = 1 => items # <<>>)

(* A queued response is being written while the session is alive.          *)
QueueMoves == Alive /\ items # <<>> => writes = 1

(* Requests are answered in the order they came, each at most once.        *)
AnswersInOrder ==
  /\ \A i, j \in 1 .. Len(items) : i < j => items[i].of < items[j].of
  /\ \A i \in 1 .. Len(items) : items[i].of <= received

(* After a response that needs eof nothing is written any more.            *)
EofIsLast == ended => writes = 0

(* What else holds of the stages of a session, and with it the invariant   *)
(* that is inductive.                                                      *)
StagesInv ==
  /\ ~handshake => /\ items = <<>> /\ reads = 0 /\ writes = 0 /\ shutdowns = 0
                   /\ tls # "up" /\ tls # "half" /\ ~ended
  /\ handshakes > 0 => ~handshake
  /\ handshakes <= 1
  /\ reads = 1 => ~IsFull(items)
  /\ ended => items # <<>>
  /\ tls = "new" => handshakes = 0 /\ ~handshake

QueueInv ==
  /\ TypeOK
  /\ ReadsAreSingle /\ QueueBounded /\ ReadsIfRoom /\ OneWrite
  /\ QueueMoves /\ AnswersInOrder /\ EofIsLast /\ StagesInv

(* A broken session is destroyed in the end.                               *)
BrokenIsReleased == tls = "failed" ~> Released
=============================================================================
