------------------------- MODULE HttpsSessionProofs -------------------------
(***************************************************************************)
(* The pipeline of session<true, Body> is right for every queue limit and  *)
(* every client, if at most one handler answers a request.                 *)
(***************************************************************************)
EXTENDS HttpsSession, SequenceTheorems, TLAPS

OneAnswerEach == \A req \in Requests : Len(Responses(req)) <= 1

LEMMA ResponsesType ==
  ASSUME OneAnswerEach, NEW req \in Requests
  PROVE  \/ Responses(req) = <<>>
         \/ \E b \in Kinds : Responses(req) = <<b>>
<1>1. Responses(req) \in Seq(Kinds) /\ Len(Responses(req)) <= 1
  BY RequestsAssumption DEF OneAnswerEach, Responses, RequestType
<1>2. CASE Len(Responses(req)) = 0
  BY <1>1, <1>2, EmptySeq
<1>3. CASE Len(Responses(req)) = 1
  <2>1. Responses(req)[1] \in Kinds
    BY <1>1, <1>3, ElementOfSeq
  <2>2. Responses(req) = <<Responses(req)[1]>>
    BY <1>1, <1>3, <2>1, SeqEqual
  <2>. QED
    BY <2>1, <2>2
<1>4. Len(Responses(req)) = 0 \/ Len(Responses(req)) = 1
  <2>. DEFINE n == Len(Responses(req))
  <2>1. n \in Nat /\ n <= 1
    BY <1>1, LenProperties
  <2>. HIDE DEF n
  <2>2. n = 0 \/ n = 1
    BY <2>1
  <2>. QED
    BY <2>2 DEF n
<1>. QED
  BY <1>1, <1>2, <1>3, <1>4

LEMMA QueuedType ==
  ASSUME TypeOK
  PROVE  \A i \in 1 .. Len(items) : items[i].of \in Nat
<1>1. \A i \in 1 .. Len(items) : items[i] \in Work
  BY ElementOfSeq DEF TypeOK
<1>. QED
  BY <1>1 DEF Work

(* What one request adds to the queue.                                     *)
LEMMA DoWriteOne ==
  ASSUME TypeOK, NEW r, DoWrite(r),
         r = <<>> \/ \E b \in Kinds : r = <<b>>
  PROVE  \/ items' = items /\ writes' = writes
         \/ /\ \E b \in Kinds : items' = Append(items, [of |-> received + 1, kind |-> b])
            /\ writes' = IF items = <<>> THEN writes + 1 ELSE writes
<1>1. CASE r = <<>>
  <2>1. [i \in DOMAIN r |-> [of |-> received + 1, kind |-> r[i]]] = <<>>
    BY <1>1
  <2>. QED
    BY <1>1, <2>1 DEF DoWrite, TypeOK
<1>2. ASSUME NEW b \in Kinds, r = <<b>>
      PROVE  /\ items' = Append(items, [of |-> received + 1, kind |-> b])
             /\ writes' = IF items = <<>> THEN writes + 1 ELSE writes
  <2>1. [i \in DOMAIN r |-> [of |-> received + 1, kind |-> r[i]]]
          = <<[of |-> received + 1, kind |-> b]>>
    BY <1>2
  <2>2. [of |-> received + 1, kind |-> b] \in Work
    BY DEF Work, TypeOK
  <2>. QED
    BY <1>2, <2>1, <2>2 DEF DoWrite, TypeOK
<1>. QED
  BY <1>1, <1>2

LEMMA InitQueueInv == Init => QueueInv
<1>. SUFFICES ASSUME Init PROVE QueueInv
  OBVIOUS
<1>1. items \in Seq(Work) /\ Len(items) = 0
  BY EmptySeq DEF Init
<1>2. TypeOK
  BY <1>1 DEF Init, TypeOK
<1>3. AnswersInOrder /\ QueueBounded
  BY <1>1, LimitAssumption DEF AnswersInOrder, QueueBounded
<1>4. ReadsAreSingle /\ ReadsIfRoom /\ OneWrite /\ QueueMoves /\ EofIsLast /\ StagesInv
  BY DEF Init, ReadsAreSingle, ReadsIfRoom, OneWrite, QueueMoves, EofIsLast,
         StagesInv, Alive
<1>. QED
  BY <1>2, <1>3, <1>4 DEF QueueInv

(* A request is read while there is room for its response.                 *)
LEMMA ProcessRequestQueueInv ==
  ASSUME QueueInv, OneAnswerEach, reads > 0, tls = "up",
         NEW req \in Requests, ProcessRequest(req), received' = received + 1,
         UNCHANGED <<handshake, handshakes, ended, shutdowns, tls>>
  PROVE  QueueInv'
<1>1. TypeOK /\ reads = 1 /\ ~IsFull(items) /\ handshake
  BY DEF QueueInv, TypeOK, ReadsAreSingle, StagesInv
<1>2. Len(items) < Limit /\ Len(items) \in Nat
  BY <1>1, LimitAssumption DEF IsFull, TypeOK
<1>3. CASE items' = items /\ writes' = writes
  <2>1. reads' = reads
    BY <1>1, <1>3 DEF ProcessRequest, IsFull
  <2>2. AnswersInOrder'
    <3>1. \A i \in 1 .. Len(items) : items[i].of \in Nat
      BY <1>1, QueuedType
    <3>. QED
      BY <1>1, <1>3, <3>1 DEF QueueInv, AnswersInOrder, TypeOK
  <2>3. TypeOK'
    BY <1>1, <1>3, <2>1 DEF TypeOK
  <2>. QED
    BY <1>3, <2>1, <2>2, <2>3 DEF QueueInv, ReadsAreSingle, QueueBounded,
       ReadsIfRoom, OneWrite, QueueMoves, EofIsLast, StagesInv, IsFull, Alive
<1>4. ASSUME NEW b \in Kinds,
             items' = Append(items, [of |-> received + 1, kind |-> b]),
             writes' = IF items = <<>> THEN writes + 1 ELSE writes
      PROVE  QueueInv'
  <2>. DEFINE w == [of |-> received + 1, kind |-> b]
  <2>1. w \in Work /\ w.of = received + 1
    BY <1>1 DEF Work, TypeOK
  <2>. HIDE DEF w
  <2>2. items' = Append(items, w)
    BY <1>4 DEF w
  <2>3. items' \in Seq(Work) /\ Len(items') = Len(items) + 1 /\ items' # <<>>
    BY <1>1, <2>1, <2>2, AppendProperties DEF TypeOK
  <2>4. reads' = IF Len(items) + 1 >= Limit THEN 0 ELSE 1
    BY <1>1, <2>3 DEF ProcessRequest, IsFull
  <2>6. writes' <= 1 /\ writes' \in Nat
    BY <1>1, <1>4 DEF QueueInv, OneWrite, TypeOK
  <2>7. TypeOK'
    BY <1>1, <2>3, <2>4, <2>6 DEF TypeOK
  <2>8. AnswersInOrder'
    <3>1. \A i \in 1 .. Len(items) : items'[i] = items[i]
      BY <1>1, <2>1, <2>2, AppendProperties DEF TypeOK
    <3>2. items'[Len(items) + 1] = w
      BY <1>1, <2>1, <2>2, AppendProperties DEF TypeOK
    <3>3. \A i \in 1 .. Len(items) : items[i].of \in Nat
      BY <1>1, QueuedType
    <3>4. AnswersInOrder /\ received \in Nat
      BY <1>1 DEF QueueInv, TypeOK
    <3>5. \A i \in 1 .. Len(items') : items'[i].of <= received'
      BY <1>2, <2>1, <2>3, <3>1, <3>2, <3>3, <3>4 DEF AnswersInOrder
    <3>6. ASSUME NEW i \in 1 .. Len(items'), NEW j \in 1 .. Len(items'), i < j
          PROVE  items'[i].of < items'[j].of
      <4>1. i \in 1 .. Len(items)
        BY <1>2, <2>3, <3>6
      <4>2. CASE j \in 1 .. Len(items)
        BY <3>1, <3>4, <3>6, <4>1, <4>2 DEF AnswersInOrder
      <4>3. CASE j = Len(items) + 1
        BY <2>1, <3>1, <3>2, <3>3, <3>4, <4>1, <4>3 DEF AnswersInOrder
      <4>. QED
        BY <1>2, <2>3, <4>2, <4>3
    <3>. QED
      BY <3>5, <3>6 DEF AnswersInOrder
  <2>9. EofIsLast'
    BY <1>4 DEF QueueInv, EofIsLast, StagesInv
  <2>10. QueueMoves' /\ OneWrite'
    BY <1>1, <1>4, <2>3, <2>6 DEF QueueInv, QueueMoves, OneWrite, Alive, TypeOK
  <2>11. ReadsAreSingle' /\ QueueBounded' /\ ReadsIfRoom'
    BY <1>2, <2>3, <2>4, LimitAssumption DEF ReadsAreSingle, QueueBounded, ReadsIfRoom, IsFull
  <2>12. StagesInv'
    BY <1>1, <2>3, <2>4 DEF QueueInv, StagesInv, IsFull
  <2>. QED
    BY <2>7, <2>8, <2>9, <2>10, <2>11, <2>12 DEF QueueInv
<1>. QED
  BY <1>1, <1>3, <1>4, ResponsesType, DoWriteOne DEF ProcessRequest

(* A response was written.                                                 *)
LEMMA QueueOnWriteQueueInv ==
  ASSUME QueueInv, writes > 0, items # <<>>, tls \in {"up", "half"},
         QueueOnWrite,
         UNCHANGED <<handshake, handshakes, shutdowns, tls, received, ended>>
  PROVE  QueueInv'
<1>1. TypeOK /\ writes = 1 /\ handshake /\ ~ended
  BY DEF QueueInv, TypeOK, OneWrite, StagesInv, EofIsLast
<1>2. items' \in Seq(Work) /\ Len(items') = Len(items) - 1
      /\ Len(items) \in Nat \ {0}
      /\ \A i \in 1 .. Len(items') : items'[i] = items[i + 1]
  BY <1>1, HeadTailProperties, LenProperties, EmptySeq DEF QueueOnWrite, TypeOK
<1>3. items' = <<>> <=> Len(items') = 0
  BY <1>2
<1>4. writes' = IF items' = <<>> THEN 0 ELSE 1
  BY <1>1 DEF QueueOnWrite
<1>5. reads' = IF Len(items) >= Limit THEN reads + 1 ELSE reads
  BY <1>1 DEF QueueOnWrite, IsFull, DoRead
<1>6. Len(items) >= Limit => reads = 0 /\ Len(items) = Limit
  BY <1>1, <1>2, LimitAssumption DEF QueueInv, StagesInv, IsFull, QueueBounded,
     ReadsAreSingle, TypeOK
<1>7. reads \in Nat /\ reads <= 1 /\ Len(items) <= Limit
  BY <1>1 DEF QueueInv, TypeOK, ReadsAreSingle, QueueBounded
<1>8. TypeOK'
  BY <1>1, <1>2, <1>4, <1>5 DEF TypeOK
<1>9. ReadsAreSingle' /\ QueueBounded'
  BY <1>2, <1>5, <1>6, <1>7, LimitAssumption DEF ReadsAreSingle, QueueBounded
<1>10. ReadsIfRoom'
  BY <1>2, <1>5, <1>6, <1>7, LimitAssumption
  DEF QueueInv, ReadsIfRoom, Alive, IsFull
<1>11. OneWrite' /\ QueueMoves' /\ EofIsLast'
  BY <1>1, <1>4 DEF OneWrite, QueueMoves, EofIsLast
<1>12. AnswersInOrder'
  <2>1. AnswersInOrder
    BY DEF QueueInv
  <2>2. \A i \in 1 .. Len(items') : i + 1 \in 1 .. Len(items)
    BY <1>2
  <2>3. ASSUME NEW i \in 1 .. Len(items'), NEW j \in 1 .. Len(items'), i < j
        PROVE  items'[i].of < items'[j].of
    <3>1. i + 1 < j + 1
      BY <1>2, <2>3
    <3>. QED
      BY <1>2, <2>1, <2>2, <3>1 DEF AnswersInOrder
  <2>. QED
    BY <1>2, <2>1, <2>2, <2>3 DEF AnswersInOrder
<1>13. StagesInv'
  BY <1>1, <1>2, <1>5, <1>6, <1>7, LimitAssumption DEF QueueInv, StagesInv, IsFull
<1>. QED
  BY <1>8, <1>9, <1>10, <1>11, <1>12, <1>13 DEF QueueInv

LEMMA NextQueueInv ==
  ASSUME QueueInv, OneAnswerEach, [Next]_vars
  PROVE  QueueInv'
<1>. USE DEF ReadsAreSingle, OneWrite
<1>1. TypeOK /\ StagesInv /\ EofIsLast /\ writes <= 1 /\ reads <= 1
  BY DEF QueueInv
<1>2. ASSUME UNCHANGED <<items, received>>, QueueBounded', AnswersInOrder',
             TypeOK', ReadsAreSingle', ReadsIfRoom', OneWrite', QueueMoves',
             EofIsLast', StagesInv'
      PROVE  QueueInv'
  BY <1>2 DEF QueueInv
<1>3. UNCHANGED <<items, received>> => QueueBounded' /\ AnswersInOrder'
  BY DEF QueueInv, QueueBounded, AnswersInOrder
<1>4. CASE OnAccept
  <2>1. handshakes = 0 /\ ~handshake
    BY <1>1, <1>4 DEF OnAccept, StagesInv
  <2>2. handshakes' = 1 /\ tls' = "handshaking"
        /\ UNCHANGED <<handshake, items, reads, writes, shutdowns, received, ended>>
    BY <1>4, <2>1 DEF OnAccept
  <2>3. TypeOK' /\ EofIsLast'
    BY <1>1, <2>1, <2>2 DEF TypeOK, EofIsLast
  <2>4. ~IsFull(items)' <=> ~IsFull(items)
    BY <2>2 DEF IsFull
  <2>5. StagesInv'
    BY <1>1, <2>1, <2>2, <2>4 DEF StagesInv
  <2>. QED
    BY <1>1, <1>2, <1>3, <2>1, <2>2, <2>3, <2>5 DEF QueueInv, ReadsIfRoom, QueueMoves, Alive
<1>5. CASE OnHandshake
  <2>1. items = <<>> /\ ~handshake /\ reads = 0 /\ writes = 0
    BY <1>1, <1>5 DEF OnHandshake, StagesInv
  <2>2. UNCHANGED <<items, received>> /\ handshakes' = handshakes - 1
        /\ handshakes \in Nat \ {0}
    BY <1>1, <1>5 DEF OnHandshake, TypeOK
  <2>3. Len(items) = 0 /\ ~IsFull(items) /\ ~IsFull(items)'
    BY <2>1, <2>2, EmptySeq, LimitAssumption DEF IsFull
  <2>4. \/ reads' = 1 /\ tls' = "up" /\ handshake'
        \/ reads' = 0 /\ tls' = "failed" /\ ~handshake'
    BY <1>5, <2>1 DEF OnHandshake
  <2>5. UNCHANGED <<items, writes, shutdowns, received, ended>>
        /\ handshake' \in BOOLEAN
    BY <1>1, <1>5 DEF OnHandshake, TypeOK
  <2>6. TypeOK'
    BY <1>1, <2>2, <2>4, <2>5 DEF TypeOK
  <2>7. handshakes' = 0
    BY <1>1, <2>2 DEF StagesInv
  <2>8. StagesInv' /\ EofIsLast'
    BY <1>1, <2>1, <2>3, <2>4, <2>5, <2>7 DEF StagesInv, EofIsLast
  <2>. QED
    BY <1>1, <1>2, <1>3, <2>1, <2>3, <2>4, <2>5, <2>6, <2>8
    DEF QueueInv, ReadsIfRoom, QueueMoves, Alive
<1>6. CASE OnRead
  <2>1. ASSUME NEW req \in Requests, ProcessRequest(req), tls = "up",
               received' = received + 1, UNCHANGED <<shutdowns, tls>>
        PROVE  QueueInv'
    BY <1>6, <2>1, ProcessRequestQueueInv DEF OnRead
  <2>2. ASSUME UNCHANGED <<items, writes, received>>, reads' = reads - 1,
               shutdowns' \in Nat, tls' \in {"up", "half", "failed"} \cup {tls},
               tls' = "up" => shutdowns' > 0
        PROVE  QueueInv'
    <3>1. reads \in Nat /\ reads = 1 /\ handshake /\ handshake' = handshake
          /\ ended' = ended /\ handshakes' = handshakes
      BY <1>1, <1>6 DEF OnRead, TypeOK, StagesInv
    <3>. QED
      BY <1>1, <1>2, <1>3, <2>2, <3>1
      DEF QueueInv, TypeOK, ReadsIfRoom, QueueMoves, EofIsLast, StagesInv, IsFull, Alive
  <2>. QED
    BY <1>1, <1>6, <2>1, <2>2 DEF OnRead, DoClose, TypeOK
<1>7. CASE OnWrite
  <2>1. CASE tls \in {"up", "half"} /\ items # <<>> /\ Head(items).kind # "need_eof"
             /\ QueueOnWrite /\ UNCHANGED <<shutdowns, ended>>
    BY <1>7, <2>1, QueueOnWriteQueueInv DEF OnWrite
  <2>2. ASSUME UNCHANGED <<items, reads>>, writes' = writes - 1,
               shutdowns' \in Nat, ended' \in BOOLEAN,
               tls = "up" => shutdowns' > 0, ended' = ended \/ items # <<>>
        PROVE  QueueInv'
    <3>1. writes = 1 /\ handshake /\ handshake' = handshake /\ tls' = tls
          /\ handshakes' = handshakes /\ received' = received /\ items # <<>>
      BY <1>1, <1>7 DEF OnWrite, TypeOK, StagesInv, QueueInv
    <3>. QED
      BY <1>1, <1>2, <1>3, <2>2, <3>1
      DEF QueueInv, TypeOK, ReadsIfRoom, QueueMoves, EofIsLast, StagesInv, IsFull, Alive
  <2>3. CASE tls \in {"up", "half"} /\ Head(items).kind = "need_eof" /\ DoClose
             /\ writes' = writes - 1 /\ ended' = TRUE /\ UNCHANGED <<items, reads>>
    <3>1. items # <<>>
      BY <1>1, <1>7, OneWrite DEF OnWrite, TypeOK, QueueInv
    <3>. QED
      BY <1>1, <2>2, <2>3, <3>1 DEF DoClose, TypeOK
  <2>4. CASE (tls = "failed" \/ shutdowns > 0) /\ writes' = writes - 1
             /\ UNCHANGED <<items, reads, shutdowns, ended>>
    BY <1>1, <2>2, <2>4 DEF TypeOK
  <2>. QED
    BY <1>7, <2>1, <2>3, <2>4 DEF OnWrite
<1>8. CASE OnShutdown
  BY <1>1, <1>2, <1>3, <1>8
  DEF OnShutdown, QueueInv, TypeOK, ReadsIfRoom, QueueMoves, EofIsLast, StagesInv, IsFull, Alive
<1>9. CASE NetworkFails
  BY <1>1, <1>2, <1>3, <1>9
  DEF NetworkFails, QueueInv, TypeOK, ReadsIfRoom, QueueMoves, EofIsLast, StagesInv, IsFull, Alive
<1>10. CASE UNCHANGED vars
  BY <1>10 DEF vars, QueueInv, TypeOK, QueueBounded, ReadsIfRoom, QueueMoves,
     AnswersInOrder, EofIsLast, StagesInv, IsFull, Alive
<1>. QED
  BY <1>4, <1>5, <1>6, <1>7, <1>8, <1>9, <1>10 DEF Next, Ended

(* Whatever a client pipelines, the session reads exactly while there is   *)
(* room in the queue, writes one response at a time, in order, and stops   *)
(* after one that ends the connection.                                     *)
THEOREM PipelineCorrect ==
  ASSUME OneAnswerEach
  PROVE  Spec => []QueueInv
<1>1. QueueInv /\ [Next]_vars => QueueInv'
  BY NextQueueInv
<1>. QED
  BY <1>1, InitQueueInv, PTL DEF Spec

(* "Returns true if the caller should initiate a read", and only then: no  *)
(* two reads parse into the same request.                                  *)
THEOREM SingleReads ==
  ASSUME OneAnswerEach
  PROVE  Spec => []ReadsAreSingle
BY PipelineCorrect, PTL DEF QueueInv

=============================================================================
