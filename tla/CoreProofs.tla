----------------------------- MODULE CoreProofs -----------------------------
(***************************************************************************)
(* Proofs about the ingestion service oracle-core, for any payloads, any   *)
(* finite number of handlers and any length of the queue.                  *)
(***************************************************************************)
EXTENDS OracleCore, FiniteSetTheorems, TLAPS

USE CoreAssumption

-----------------------------------------------------------------------------
(* Counting.                                                               *)

\* The handlers that work on p and the places of the queue where p waits.
Holding(f, p) == {h \in Handlers : f[h] = p}
Places(q, p) == {i \in DOMAIN q : q[i] = p}

\* g is f but for handler h, which works on x.
Takes(f, g, h, x) == \A k \in Handlers : g[k] = IF k = h THEN x ELSE f[k]

\* One handler takes another payload: the count of each payload follows.
LEMMA OneHandlerCounts ==
    ASSUME NEW f, NEW g, NEW h \in Handlers, NEW x, NEW p,
           Takes(f, g, h, x)
    PROVE  /\ Cardinality(Holding(f, p)) \in Nat
           /\ Cardinality(Holding(g, p))
                = Cardinality(Holding(f, p)) - (IF f[h] = p THEN 1 ELSE 0)
                                             + (IF x = p THEN 1 ELSE 0)
<1> DEFINE S == Holding(f, p) \ {h}
<1>1. IsFiniteSet(Holding(f, p))
  BY FS_Subset DEF Holding
<1>2. /\ IsFiniteSet(S) /\ Cardinality(S) \in Nat
      /\ Cardinality(Holding(f, p)) \in Nat
      /\ Cardinality(S) = Cardinality(Holding(f, p))
                            - (IF f[h] = p THEN 1 ELSE 0)
  <2>1. h \in Holding(f, p) <=> f[h] = p
    BY DEF Holding
  <2>2. /\ IsFiniteSet(S)
        /\ Cardinality(S) = IF h \in Holding(f, p)
                              THEN Cardinality(Holding(f, p)) - 1
                              ELSE Cardinality(Holding(f, p))
    BY <1>1, FS_RemoveElement
  <2>3. Cardinality(Holding(f, p)) \in Nat /\ Cardinality(S) \in Nat
    BY <1>1, <2>2, FS_CardinalityType
  <2> QED
    BY <2>1, <2>2, <2>3
<1>3. h \notin S
  OBVIOUS
<1>4. Cardinality(Holding(g, p)) = Cardinality(S) + (IF x = p THEN 1 ELSE 0)
  <2>1. CASE x = p
    <3>1. Holding(g, p) = S \cup {h}
      BY <2>1 DEF Holding, Takes
    <3>2. Cardinality(S \cup {h}) = Cardinality(S) + 1
      BY <1>2, <1>3, FS_AddElement
    <3> QED
      BY <2>1, <3>1, <3>2
  <2>2. CASE x # p
    <3>1. Holding(g, p) = S
      BY <2>2 DEF Holding, Takes
    <3> QED
      BY <1>2, <2>2, <3>1
  <2> QED
    BY <2>1, <2>2
<1> HIDE DEF S
<1> QED
  BY <1>2, <1>4

\* The places of a queue are finitely many.
LEMMA PlacesFinite ==
    ASSUME NEW q \in Seq(Payloads), NEW p
    PROVE  /\ IsFiniteSet(Places(q, p))
           /\ Cardinality(Places(q, p)) \in Nat
<1>1. IsFiniteSet(1 .. Len(q))
  BY FS_Interval
<1>2. Places(q, p) \in SUBSET (1 .. Len(q))
  BY DEF Places
<1> QED
  BY <1>1, <1>2, FS_Subset, FS_CardinalityType

\* A payload that joins the queue adds one place for itself.
LEMMA AppendCounts ==
    ASSUME NEW q \in Seq(Payloads), NEW x \in Payloads, NEW p
    PROVE  Cardinality(Places(Append(q, x), p))
             = Cardinality(Places(q, p)) + (IF x = p THEN 1 ELSE 0)
<1> DEFINE n == Len(q) + 1
<1>1. IsFiniteSet(Places(q, p)) /\ Cardinality(Places(q, p)) \in Nat
  BY PlacesFinite
<1>2. /\ DOMAIN Append(q, x) = 1 .. n /\ DOMAIN q = 1 .. Len(q)
      /\ n \in Nat \ {0} /\ Len(q) \in Nat
      /\ \A i \in 1 .. n : Append(q, x)[i] = IF i = n THEN x ELSE q[i]
  OBVIOUS
<1>3. n \notin Places(q, p)
  BY <1>2 DEF Places
<1>4. CASE x = p
  <2>1. Places(Append(q, x), p) = Places(q, p) \cup {n}
    BY <1>2, <1>4 DEF Places
  <2> QED
    BY <1>1, <1>3, <1>4, <2>1, FS_AddElement
<1>5. CASE x # p
  <2>1. Places(Append(q, x), p) = Places(q, p)
    BY <1>2, <1>5 DEF Places
  <2> QED
    BY <1>1, <1>5, <2>1
<1> QED
  BY <1>4, <1>5

\* The payload that leaves the queue takes one place with it.
LEMMA TailCounts ==
    ASSUME NEW q \in Seq(Payloads), q # <<>>, NEW p
    PROVE  Cardinality(Places(Tail(q), p))
             = Cardinality(Places(q, p)) - (IF Head(q) = p THEN 1 ELSE 0)
<1> DEFINE S == Places(Tail(q), p)
           T == Places(q, p) \ {1}
           f == [i \in S |-> i + 1]
<1>1. IsFiniteSet(Places(q, p)) /\ Cardinality(Places(q, p)) \in Nat
  BY PlacesFinite
<1>2. /\ DOMAIN q = 1 .. Len(q) /\ DOMAIN Tail(q) = 1 .. (Len(q) - 1)
      /\ Len(q) \in Nat \ {0} /\ Head(q) = q[1]
      /\ \A i \in 1 .. (Len(q) - 1) : Tail(q)[i] = q[i + 1]
  OBVIOUS
<1>3. f \in Bijection(S, T)
  <2>1. f \in [S -> T]
    BY <1>2 DEF Places
  <2>2. \A a, b \in S : f[a] = f[b] => a = b
    BY <1>2 DEF Places
  <2>3. \A t \in T : \E s \in S : f[s] = t
    <3> SUFFICES ASSUME NEW t \in T
                 PROVE  t - 1 \in S /\ f[t - 1] = t
      OBVIOUS
    <3> QED
      BY <1>2 DEF Places
  <2> HIDE DEF S, T, f
  <2> QED
    BY <2>1, <2>2, <2>3
    DEF Bijection, Injection, Surjection, IsInjective
<1>4. S \in SUBSET (1 .. (Len(q) - 1))
  BY <1>2 DEF Places
<1>5. IsFiniteSet(S) /\ Cardinality(S) = Cardinality(T)
  <2>1. IsFiniteSet(1 .. (Len(q) - 1))
    BY <1>2, FS_Interval
  <2>2. IsFiniteSet(S)
    BY <1>4, <2>1, FS_Subset
  <2>3. ExistsBijection(S, T)
    BY <1>3 DEF ExistsBijection
  <2> HIDE DEF S, T, f
  <2> QED
    BY <2>2, <2>3, FS_Bijection
<1>6. 1 \in Places(q, p) <=> Head(q) = p
  BY <1>2 DEF Places
<1>7. Cardinality(T) = IF 1 \in Places(q, p) THEN Cardinality(Places(q, p)) - 1
                                             ELSE Cardinality(Places(q, p))
  BY <1>1, FS_RemoveElement
<1> QED
  BY <1>1, <1>5, <1>6, <1>7

-----------------------------------------------------------------------------
(* Types.                                                                  *)

\* Every reachable state is well typed: a handler has a payload exactly while
\* it is at work, and the queue never outgrows its capacity.
THEOREM TypeCorrect == Spec => []TypeOK
<1>1. Init => TypeOK
  BY DEF Init, TypeOK
<1>2. TypeOK /\ [Next]_vars => TypeOK'
  <2> SUFFICES ASSUME TypeOK, [Next]_vars
               PROVE  TypeOK'
    OBVIOUS
  <2> USE DEF TypeOK
  <2>1. ASSUME NEW h \in Handlers, NEW p \in Payloads, SetNx(h, p)
        PROVE  TypeOK'
    BY <2>1 DEF SetNx, past
  <2>2. ASSUME NEW h \in Handlers, Expire(h)
        PROVE  TypeOK'
    BY <2>2 DEF Expire, past
  <2>3. ASSUME NEW h \in Handlers, ExpireFails(h)
        PROVE  TypeOK'
    BY <2>3 DEF ExpireFails
  <2>4. ASSUME NEW h \in Handlers, Send(h)
        PROVE  TypeOK'
    <3>1. payload[h] \in Payloads
      BY <2>4 DEF Send
    <3>2. queue' \in Seq(Payloads) /\ Len(queue') <= QueueCap
      BY <2>4, <3>1 DEF Send
    <3> QED
      BY <2>4, <3>1, <3>2 DEF Send, Leave
  <2>5. ASSUME NEW h \in Handlers, ClientLeaves(h)
        PROVE  TypeOK'
    BY <2>5 DEF ClientLeaves, Leave
  <2>6. ASSUME NEW p \in Payloads, SetNxUnanswered(p)
        PROVE  TypeOK'
    BY <2>6 DEF SetNxUnanswered, handling
  <2>7. ASSUME NEW p \in Payloads, KeyExpires(p)
        PROVE  TypeOK'
    BY <2>7 DEF KeyExpires, handling
  <2>8. CASE Receive
    BY <2>8 DEF Receive, handling, past
  <2>9. CASE Insert
    BY <2>9 DEF Insert, handling, past
  <2>10. CASE Reject
    BY <2>10 DEF Reject, handling, past
  <2>11. CASE InsertFails
    BY <2>11 DEF InsertFails, handling
  <2>12. CASE Restart
    BY <2>12 DEF Restart, Queued
  <2>13. CASE UNCHANGED vars
    BY <2>13 DEF vars, handling, past
  <2> QED
    BY <2>1, <2>2, <2>3, <2>4, <2>5, <2>6, <2>7, <2>8, <2>9, <2>10, <2>11,
       <2>12, <2>13 DEF Next
<1> QED
  BY <1>1, <1>2, PTL DEF Spec

-----------------------------------------------------------------------------
(* How each step moves a payload along.                                    *)

\* The counts of the specification are those of the lemmas above.
LEMMA CountsAre ==
    ASSUME TypeOK, NEW p \in Payloads
    PROVE  /\ Held(p) = Cardinality(Holding(payload, p))
           /\ Waiting(p) = Cardinality(Places(queue, p))
           /\ Held(p) \in Nat /\ Waiting(p) \in Nat
<1>1. IsFiniteSet(Holding(payload, p))
  BY FS_Subset DEF Holding
<1>2. Cardinality(Holding(payload, p)) \in Nat
  BY <1>1, FS_CardinalityType
<1>3. Cardinality(Places(queue, p)) \in Nat
  BY PlacesFinite DEF TypeOK
<1>4. Held(p) = Cardinality(Holding(payload, p))
  BY DEF Held, Holding
<1>5. Waiting(p) = Cardinality(Places(queue, p))
  BY DEF Waiting, Places
<1> QED
  BY <1>2, <1>3, <1>4, <1>5

\* What the counting below needs of the types.
LEMMA Kinds ==
    ASSUME TypeOK, NEW p \in Payloads
    PROVE  /\ rows[p] \in Nat /\ expired[p] \in Nat
           /\ Held(p) \in Nat /\ Waiting(p) \in Nat
           /\ rows \in [Payloads -> Nat]
           /\ expired \in [Payloads -> 0 .. MaxExpiries]
           /\ payload \in [Handlers -> Payloads \cup {None}]
           /\ queue \in Seq(Payloads) /\ worker \in Payloads \cup {None}
           /\ nonceKey \in [Payloads -> {"free", "kept", "expiring"}]
<1>1. Held(p) \in Nat /\ Waiting(p) \in Nat
  BY CountsAre
<1>2. rows[p] \in Nat /\ expired[p] \in 0 .. MaxExpiries
  BY DEF TypeOK
<1>3. expired[p] \in Nat
  BY <1>2
<1> QED
  BY <1>1, <1>2, <1>3 DEF TypeOK

\* A handler that takes a payload holds it, one that leaves holds it no more.
LEMMA HandlerMoves ==
    ASSUME TypeOK, NEW h \in Handlers, NEW x,
           Takes(payload, payload', h, x), NEW p \in Payloads
    PROVE  Held(p)' = Held(p) - (IF payload[h] = p THEN 1 ELSE 0)
                              + (IF x = p THEN 1 ELSE 0)
<1>1. Cardinality(Holding(payload', p))
        = Cardinality(Holding(payload, p)) - (IF payload[h] = p THEN 1 ELSE 0)
                                           + (IF x = p THEN 1 ELSE 0)
  BY OneHandlerCounts
<1> QED
  BY <1>1 DEF Held, Holding

\* The queue gains the payload that is sent and loses the one that is received.
LEMMA QueueMoves ==
    ASSUME TypeOK, NEW p \in Payloads
    PROVE  /\ \A x \in Payloads :
                queue' = Append(queue, x)
                  => Waiting(p)' = Waiting(p) + (IF x = p THEN 1 ELSE 0)
           /\ queue # <<>> /\ queue' = Tail(queue)
                => Waiting(p)' = Waiting(p) - (IF Head(queue) = p THEN 1 ELSE 0)
<1>1. queue \in Seq(Payloads)
  BY DEF TypeOK
<1>2. ASSUME NEW x \in Payloads, queue' = Append(queue, x)
      PROVE  Waiting(p)' = Waiting(p) + (IF x = p THEN 1 ELSE 0)
  <2>1. Cardinality(Places(queue', p))
          = Cardinality(Places(queue, p)) + (IF x = p THEN 1 ELSE 0)
    BY <1>1, <1>2, AppendCounts
  <2> QED
    BY <2>1 DEF Waiting, Places
<1>3. ASSUME queue # <<>>, queue' = Tail(queue)
      PROVE  Waiting(p)' = Waiting(p) - (IF Head(queue) = p THEN 1 ELSE 0)
  <2>1. Cardinality(Places(queue', p))
          = Cardinality(Places(queue, p)) - (IF Head(queue) = p THEN 1 ELSE 0)
    BY <1>1, <1>3, TailCounts
  <2> QED
    BY <2>1 DEF Waiting, Places
<1> QED
  BY <1>2, <1>3

\* Nobody holds a payload and nothing waits once the process is gone.
LEMMA EmptyCounts ==
    ASSUME NEW p \in Payloads,
           payload' = [h \in Handlers |-> None], queue' = <<>>
    PROVE  Held(p)' = 0 /\ Waiting(p)' = 0
<1>1. {h \in Handlers : payload'[h] = p} = {}
  OBVIOUS
<1>2. {i \in DOMAIN queue' : queue'[i] = p} = {}
  OBVIOUS
<1> QED
  BY <1>1, <1>2, FS_EmptySet DEF Held, Waiting

-----------------------------------------------------------------------------
(* One row per reservation.                                                *)

\* The rows of p and what is on its way to one, against its reservations.
OnceFor(p) ==
    rows[p] + UnderWay(p) <= expired[p] + (IF nonceKey[p] = "free" THEN 0 ELSE 1)

\* A handler's step moves its payload along or drops it; only SETNX adds one,
\* and the key was free.
LEMMA OnceByHandlers ==
    ASSUME TypeOK, TypeOK', NEW h \in Handlers, NEW p \in Payloads, OnceFor(p),
           \/ \E q \in Payloads : SetNx(h, q)
           \/ Expire(h) \/ ExpireFails(h) \/ Send(h) \/ ClientLeaves(h)
    PROVE  OnceFor(p)'
<1>1. /\ rows[p] \in Nat /\ expired[p] \in Nat
      /\ Held(p) \in Nat /\ Waiting(p) \in Nat
      /\ payload \in [Handlers -> Payloads \cup {None}]
      /\ nonceKey \in [Payloads -> {"free", "kept", "expiring"}]
  BY Kinds
<1>2. ASSUME NEW q \in Payloads, SetNx(h, q)
      PROVE  OnceFor(p)'
  <2>1. /\ payload[h] = None /\ nonceKey[q] = "free"
        /\ payload' = [payload EXCEPT ![h] = q]
        /\ nonceKey' = [nonceKey EXCEPT ![q] = "kept"]
        /\ UNCHANGED <<queue, worker, rows, expired>>
    BY <1>2 DEF SetNx, TypeOK, past
  <2>0. Takes(payload, payload', h, q) /\ payload[h] # p
    BY <1>1, <2>1 DEF Takes
  <2>2. Held(p)' = Held(p) + (IF q = p THEN 1 ELSE 0)
    BY <2>0, HandlerMoves, <1>1
  <2>3. Waiting(p)' = Waiting(p)
    BY <2>1 DEF Waiting
  <2> QED
    BY <1>1, <2>1, <2>2, <2>3 DEF OnceFor, UnderWay
<1>3. CASE Expire(h)
  <2>1. /\ nonceKey' = [nonceKey EXCEPT ![payload[h]] = "expiring"]
        /\ UNCHANGED <<payload, queue, worker, rows, expired>>
    BY <1>3 DEF Expire, past
  <2>2. Held(p)' = Held(p) /\ Waiting(p)' = Waiting(p)
    BY <2>1 DEF Held, Waiting
  <2> QED
    BY <1>1, <2>1, <2>2 DEF OnceFor, UnderWay
<1>4. CASE ExpireFails(h)
  <2>1. UNCHANGED <<nonceKey, payload, queue, worker, rows, expired>>
    BY <1>4 DEF ExpireFails
  <2>2. Held(p)' = Held(p) /\ Waiting(p)' = Waiting(p)
    BY <2>1 DEF Held, Waiting
  <2> QED
    BY <2>1, <2>2 DEF OnceFor, UnderWay
<1>5. CASE Send(h)
  <2>1. /\ payload[h] \in Payloads /\ payload' = [payload EXCEPT ![h] = None]
        /\ queue' = Append(queue, payload[h])
        /\ UNCHANGED <<nonceKey, worker, rows, expired>>
    BY <1>1, <1>5 DEF Send, Leave, TypeOK
  <2>0. Takes(payload, payload', h, None) /\ p # None
    BY <1>1, <2>1 DEF Takes
  <2>2. Held(p)' = Held(p) - (IF payload[h] = p THEN 1 ELSE 0)
    BY <2>0, HandlerMoves, <1>1
  <2>3. Waiting(p)' = Waiting(p) + (IF payload[h] = p THEN 1 ELSE 0)
    BY <2>1, QueueMoves
  <2> QED
    BY <1>1, <2>1, <2>2, <2>3 DEF OnceFor, UnderWay
<1>6. CASE ClientLeaves(h)
  <2>1. /\ payload' = [payload EXCEPT ![h] = None]
        /\ UNCHANGED <<nonceKey, queue, worker, rows, expired>>
    BY <1>6 DEF ClientLeaves, Leave
  <2>0. Takes(payload, payload', h, None) /\ p # None
    BY <1>1, <2>1 DEF Takes
  <2>2. Held(p)' = Held(p) - (IF payload[h] = p THEN 1 ELSE 0)
    BY <2>0, HandlerMoves, <1>1
  <2>3. Waiting(p)' = Waiting(p)
    BY <2>1 DEF Waiting
  <2> QED
    BY <1>1, <2>1, <2>2, <2>3 DEF OnceFor, UnderWay
<1> QED
  BY <1>2, <1>3, <1>4, <1>5, <1>6

\* Redis, the worker and the kill: a key that expires is counted, and the
\* worker makes at most one row of what it received.
LEMMA OnceByTheRest ==
    ASSUME TypeOK, NEW p \in Payloads, OnceFor(p),
           \/ \E q \in Payloads : SetNxUnanswered(q) \/ KeyExpires(q)
           \/ Receive \/ Insert \/ Reject \/ InsertFails \/ Restart
    PROVE  OnceFor(p)'
<1>1. /\ rows[p] \in Nat /\ expired[p] \in Nat /\ rows \in [Payloads -> Nat]
      /\ expired \in [Payloads -> 0 .. MaxExpiries]
      /\ Held(p) \in Nat /\ Waiting(p) \in Nat
      /\ queue \in Seq(Payloads) /\ worker \in Payloads \cup {None}
      /\ nonceKey \in [Payloads -> {"free", "kept", "expiring"}]
  BY Kinds
<1>2. ASSUME UNCHANGED <<payload, queue>>
      PROVE  Held(p)' = Held(p) /\ Waiting(p)' = Waiting(p)
  BY <1>2 DEF Held, Waiting
<1>3. ASSUME NEW q \in Payloads, SetNxUnanswered(q)
      PROVE  OnceFor(p)'
  BY <1>1, <1>2, <1>3
  DEF SetNxUnanswered, handling, OnceFor, UnderWay
<1>4. ASSUME NEW q \in Payloads, KeyExpires(q)
      PROVE  OnceFor(p)'
  BY <1>1, <1>2, <1>4
  DEF KeyExpires, handling, OnceFor, UnderWay
<1>5. CASE Receive
  <2>1. /\ worker = None /\ worker' = Head(queue) /\ Head(queue) \in Payloads
        /\ queue # <<>> /\ queue' = Tail(queue)
        /\ UNCHANGED <<nonceKey, payload, rows, expired>>
    BY <1>1, <1>5 DEF Receive, handling, past
  <2>2. Held(p)' = Held(p)
    BY <2>1 DEF Held
  <2>3. Waiting(p)' = Waiting(p) - (IF Head(queue) = p THEN 1 ELSE 0)
    BY <2>1, QueueMoves
  <2>4. UnderWay(p)' = UnderWay(p)
    <3> DEFINE x == Head(queue)
    <3>1. worker = None /\ worker' = x /\ p # None
      BY <2>1
    <3>2. Waiting(p)' = Waiting(p) - (IF x = p THEN 1 ELSE 0)
      BY <2>3
    <3> HIDE DEF x
    <3> QED
      BY <1>1, <2>2, <3>1, <3>2 DEF UnderWay
  <2> QED
    BY <2>1, <2>4 DEF OnceFor
<1>6. CASE Insert
  BY <1>1, <1>2, <1>6
  DEF Insert, handling, past, OnceFor, UnderWay
<1>7. CASE Reject
  BY <1>1, <1>2, <1>7
  DEF Reject, handling, past, OnceFor, UnderWay
<1>8. CASE InsertFails
  BY <1>1, <1>2, <1>8
  DEF InsertFails, handling, OnceFor, UnderWay
<1>9. CASE Restart
  <2>1. Held(p)' = 0 /\ Waiting(p)' = 0
    BY <1>9, EmptyCounts DEF Restart
  <2> QED
    BY <1>1, <1>9, <2>1 DEF Restart, OnceFor, UnderWay
<1> QED
  BY <1>3, <1>4, <1>5, <1>6, <1>7, <1>8, <1>9

\* A payload has one row, or is on its way to one, for each time its nonce was
\* free (main.rs:469).
THEOREM RowsPerReservation == Spec => []OncePerReservation
<1> DEFINE Inv == \A p \in Payloads : OnceFor(p)
<1>1. Init => Inv
  <2> SUFFICES ASSUME Init, NEW p \in Payloads
               PROVE  OnceFor(p)
    OBVIOUS
  <2>1. /\ {h \in Handlers : payload[h] = p} = {}
        /\ {i \in DOMAIN queue : queue[i] = p} = {}
    BY DEF Init
  <2>2. Held(p) = 0 /\ Waiting(p) = 0
    BY <2>1, FS_EmptySet DEF Held, Waiting
  <2> QED
    BY <2>2 DEF Init, OnceFor, UnderWay
<1>2. TypeOK /\ TypeOK' /\ Inv /\ [Next]_vars => Inv'
  <2> SUFFICES ASSUME TypeOK, TypeOK', [Next]_vars, NEW p \in Payloads,
                      OnceFor(p)
               PROVE  OnceFor(p)'
    OBVIOUS
  <2>1. CASE UNCHANGED vars
    BY <2>1 DEF vars, handling, past, OnceFor, UnderWay, Held, Waiting
  <2>2. CASE Next
    BY <2>2, OnceByHandlers, OnceByTheRest DEF Next
  <2> QED
    BY <2>1, <2>2
<1>3. Inv <=> OncePerReservation
  BY DEF OnceFor, OncePerReservation
<1> HIDE DEF Inv
<1> QED
  BY <1>1, <1>2, <1>3, TypeCorrect, PTL DEF Spec

-----------------------------------------------------------------------------
(* What was accepted.                                                      *)

\* The 202s for p, against its rows and what the queue and the worker have.
KeptFor(p) ==
    p \in Sound \ failed =>
        accepted[p] = rows[p] + Waiting(p) + (IF worker = p THEN 1 ELSE 0)

\* A send and its 202 come together; the worker's steps keep the sum, and one
\* that fails is remembered, as a kill remembers all that waited.
LEMMA KeptStep ==
    ASSUME TypeOK, [Next]_vars, NEW p \in Payloads, KeptFor(p)
    PROVE  KeptFor(p)'
<1>1. /\ rows[p] \in Nat /\ Waiting(p) \in Nat /\ rows \in [Payloads -> Nat]
      /\ queue \in Seq(Payloads) /\ worker \in Payloads \cup {None}
      /\ accepted \in [Payloads -> Nat]
  BY Kinds DEF TypeOK
<1>2. ASSUME UNCHANGED <<queue, worker, rows, accepted, failed>>
      PROVE  KeptFor(p)'
  BY <1>2 DEF KeptFor, Waiting
<1>3. ASSUME NEW h \in Handlers, NEW q \in Payloads, SetNx(h, q)
      PROVE  KeptFor(p)'
  BY <1>2, <1>3 DEF SetNx, past
<1>4. ASSUME NEW h \in Handlers, Expire(h) \/ ExpireFails(h) \/ ClientLeaves(h)
      PROVE  KeptFor(p)'
  BY <1>2, <1>4 DEF Expire, ExpireFails, ClientLeaves, past
<1>5. ASSUME NEW h \in Handlers, Send(h)
      PROVE  KeptFor(p)'
  <2>1. /\ payload[h] \in Payloads /\ queue' = Append(queue, payload[h])
        /\ accepted' = [accepted EXCEPT ![payload[h]] = @ + 1]
        /\ UNCHANGED <<worker, rows, failed>>
    BY <1>5 DEF Send, TypeOK
  <2>2. Waiting(p)' = Waiting(p) + (IF payload[h] = p THEN 1 ELSE 0)
    BY <2>1, QueueMoves
  <2>3. accepted'[p] = accepted[p] + (IF payload[h] = p THEN 1 ELSE 0)
    BY <1>1, <2>1
  <2> QED
    BY <1>1, <2>1, <2>2, <2>3 DEF KeptFor
<1>6. ASSUME NEW q \in Payloads, SetNxUnanswered(q) \/ KeyExpires(q)
      PROVE  KeptFor(p)'
  BY <1>2, <1>6 DEF SetNxUnanswered, KeyExpires
<1>7. CASE Receive
  <2> DEFINE x == Head(queue)
  <2>1. /\ worker = None /\ worker' = x /\ p # None
        /\ queue # <<>> /\ queue' = Tail(queue)
        /\ UNCHANGED <<rows, accepted, failed>>
    BY <1>7 DEF Receive, past
  <2>2. Waiting(p)' = Waiting(p) - (IF x = p THEN 1 ELSE 0)
    BY <2>1, QueueMoves
  <2> HIDE DEF x
  <2> QED
    BY <1>1, <2>1, <2>2 DEF KeptFor
<1>8. CASE Insert
  BY <1>1, <1>8 DEF Insert, past, KeptFor, Waiting
<1>9. CASE Reject
  BY <1>1, <1>9 DEF Reject, past, KeptFor, Waiting
<1>10. CASE InsertFails
  BY <1>1, <1>10 DEF InsertFails, KeptFor, Waiting
<1>11. CASE Restart
  <2> SUFFICES ASSUME p \in Sound, p \notin failed'
               PROVE  KeptFor(p)'
    BY DEF KeptFor
  <2>1. /\ failed' = failed \cup Queued \cup ({worker} \ {None})
        /\ payload' = [h \in Handlers |-> None] /\ queue' = <<>>
        /\ worker' = None /\ UNCHANGED <<rows, accepted>>
    BY <1>11 DEF Restart
  <2>2. p \notin failed /\ p \notin Queued /\ worker # p
    BY <2>1
  <2>3. {i \in DOMAIN queue : queue[i] = p} = {}
    BY <2>2 DEF Queued
  <2>4. Waiting(p) = 0 /\ Waiting(p)' = 0
    BY <2>1, <2>3, EmptyCounts, FS_EmptySet DEF Waiting
  <2> QED
    BY <1>1, <2>1, <2>2, <2>4 DEF KeptFor
<1>12. CASE UNCHANGED vars
  BY <1>2, <1>12 DEF vars, past
<1> QED
  BY <1>3, <1>4, <1>5, <1>6, <1>7, <1>8, <1>9, <1>10, <1>11, <1>12 DEF Next

\* An accepted payload whose proof is sound is queued, under verification or
\* in the table, unless an INSERT failed or the process was killed meanwhile.
THEOREM AcceptedIsKept == Spec => []AcceptedIsNotLost
<1> DEFINE Inv == \A p \in Payloads : KeptFor(p)
<1>1. Init => Inv
  <2> SUFFICES ASSUME Init, NEW p \in Payloads
               PROVE  KeptFor(p)
    OBVIOUS
  <2>1. {i \in DOMAIN queue : queue[i] = p} = {}
    BY DEF Init
  <2>2. Waiting(p) = 0
    BY <2>1, FS_EmptySet DEF Waiting
  <2> QED
    BY <2>2 DEF Init, KeptFor
<1>2. TypeOK /\ Inv /\ [Next]_vars => Inv'
  BY KeptStep
<1>3. Inv => AcceptedIsNotLost
  BY DEF KeptFor, AcceptedIsNotLost
<1> HIDE DEF Inv
<1> QED
  BY <1>1, <1>2, <1>3, TypeCorrect, PTL DEF Spec
=============================================================================
