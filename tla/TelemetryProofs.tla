-------------------------- MODULE TelemetryProofs --------------------------
(***************************************************************************)
(* Theorems about TelemetryPipeline for any number of handlers, bodies and *)
(* agents, any channel capacity and batch size, with crashes and outages.  *)
(***************************************************************************)
EXTENDS TelemetryPipeline, FiniteSetTheorems, FunctionTheorems,
        WellFoundedInduction, TLAPS

-----------------------------------------------------------------------------
(* Arithmetic and counting.                                                *)

\* The order of the natural numbers as the relation the library's
\* well-foundedness theorems speak of.
LEMMA LessThanPairs ==
    ASSUME NEW m \in Nat, NEW n \in Nat, m < n
    PROVE  <<m, n>> \in OpToRel(<, Nat)
BY DEF OpToRel

\* A nonempty set of natural numbers has a least element.
LEMMA LeastElement ==
    ASSUME NEW S \in SUBSET Nat, S # {}
    PROVE  \E x \in S : \A y \in S : x <= y
<1>1. PICK x \in S : \A y \in S : <<y, x>> \notin OpToRel(<, Nat)
  BY WFMin, NatLessThanWellFounded
<1>2. ASSUME NEW y \in S PROVE x <= y
  <2>1. ~(y < x)
    <3>1. SUFFICES ASSUME y < x PROVE FALSE
      OBVIOUS
    <3>2. x \in Nat /\ y \in Nat
      OBVIOUS
    <3>3. <<y, x>> \in OpToRel(<, Nat)
      BY <3>1, <3>2, LessThanPairs
    <3>. QED
      BY <3>3, <1>1
  <2>. QED
    BY <2>1
<1>. QED
  BY <1>2

\* A nonempty set of natural numbers that has a bound has a greatest element.
LEMMA GreatestElement ==
    ASSUME NEW n \in Nat, NEW S \in SUBSET (1..n), S # {}
    PROVE  \E x \in S : \A y \in S : y <= x
<1>. DEFINE T == {n - x : x \in S}
<1>1. T \in SUBSET Nat
  OBVIOUS
<1>2. T # {}
  <2>1. PICK x \in S : TRUE
    OBVIOUS
  <2>2. n - x \in T
    OBVIOUS
  <2>. QED
    BY <2>2
<1>3. PICK t \in T : \A u \in T : t <= u
  BY <1>1, <1>2, LeastElement
<1>4. PICK x \in S : t = n - x
  OBVIOUS
<1>5. ASSUME NEW y \in S PROVE y <= x
  <2>1. n - y \in T
    OBVIOUS
  <2>2. t <= n - y
    BY <2>1, <1>3
  <2>3. x \in 1..n /\ y \in 1..n
    OBVIOUS
  <2>. QED
    BY <2>2, <2>3, <1>4
<1>. QED
  BY <1>5

\* The tasks of an account in the writer's buffer can be counted.
LEMMA TasksAreFinite ==
    ASSUME buffer \in Seq(Submissions), NEW a
    PROVE  /\ TasksOf(a) \subseteq 1..Len(buffer)
           /\ IsFiniteSet(TasksOf(a))
           /\ Cardinality(TasksOf(a)) \in Nat
<1>1. TasksOf(a) \subseteq 1..Len(buffer)
  BY DEF TasksOf
<1>2. IsFiniteSet(1..Len(buffer))
  BY FS_Interval
<1>. QED
  BY <1>1, <1>2, FS_Subset, FS_CardinalityType

\* A batch none of whose statements fails adds to the log one row per task:
\* the rows of an account grow by the number of its tasks.
LEMMA CleanBatchCounts ==
    ASSUME buffer \in Seq(Submissions), IsFiniteSet(rows),
           ~DuplicateIn(buffer), NEW a,
           NEW R, R = {r \in rows \cup Elements(buffer) : Account(r) = a}
    PROVE  /\ IsFiniteSet(R)
           /\ Cardinality(R) = Cardinality(RowsOf(a)) + Cardinality(TasksOf(a))
<1>. DEFINE B == {buffer[i] : i \in TasksOf(a)}
            f == [i \in TasksOf(a) |-> buffer[i]]
<1>1. f \in Bijection(TasksOf(a), B)
  <2>1. f \in [TasksOf(a) -> B]
    OBVIOUS
  <2>2. ASSUME NEW i \in TasksOf(a), NEW j \in TasksOf(a), f[i] = f[j]
        PROVE  i = j
    <3>1. i \in DOMAIN buffer /\ j \in DOMAIN buffer /\ buffer[i] = buffer[j]
      BY <2>2 DEF TasksOf
    <3>. QED
      BY <3>1 DEF DuplicateIn
  <2>3. \A b \in B : \E i \in TasksOf(a) : f[i] = b
    OBVIOUS
  <2>. QED
    BY <2>1, <2>2, <2>3, Fun_IsBij
<1>2. IsFiniteSet(B) /\ Cardinality(B) = Cardinality(TasksOf(a))
  <2>1. ExistsBijection(TasksOf(a), B)
    BY <1>1 DEF ExistsBijection
  <2>. HIDE DEF B
  <2>. QED
    BY <2>1, TasksAreFinite, FS_Bijection
<1>3. IsFiniteSet(RowsOf(a))
  <2>1. RowsOf(a) \in SUBSET rows
    BY DEF RowsOf
  <2>. QED
    BY <2>1, FS_Subset
<1>4. R = RowsOf(a) \cup B
  BY DEF RowsOf, TasksOf, Elements
<1>5. RowsOf(a) \cap B = {}
  <2>1. SUFFICES ASSUME NEW r \in rows, NEW i \in DOMAIN buffer, r = buffer[i]
                 PROVE  FALSE
    BY DEF RowsOf, TasksOf
  <2>2. HashOf[r] \in HashesOf(rows) /\ HashOf[r] \in HashesOf(Elements(buffer))
    BY <2>1 DEF HashesOf, Elements
  <2>. QED
    BY <2>2 DEF DuplicateIn
<1>6. Cardinality(RowsOf(a) \cap B) = 0
  BY <1>5, FS_EmptySet
<1>7. Cardinality(RowsOf(a)) \in Nat /\ Cardinality(B) \in Nat
  BY <1>2, <1>3, FS_CardinalityType
<1>. HIDE DEF B
<1>8. /\ IsFiniteSet(RowsOf(a) \cup B)
      /\ Cardinality(RowsOf(a) \cup B) =
            Cardinality(RowsOf(a)) + Cardinality(B) - Cardinality(RowsOf(a) \cap B)
  BY <1>2, <1>3, FS_Union
<1>9. Cardinality(RowsOf(a) \cup B) = Cardinality(RowsOf(a)) + Cardinality(B)
  BY <1>6, <1>7, <1>8
<1>10. IsFiniteSet(R) /\ Cardinality(R) = Cardinality(RowsOf(a)) + Cardinality(B)
  BY <1>4, <1>8, <1>9, Zenon
<1>. QED
  BY <1>2, <1>10, Zenon

-----------------------------------------------------------------------------
(* Type correctness.                                                       *)

\* Every submission is reported for an account of the system.
LEMMA AccountType == \A s \in Submissions : Account(s) \in Accounts
BY PipelineAssumption DEF Account, Accounts

\* The score a flush computes for an account with a task is that of one of its
\* tasks.
LEMMA ScoreOfTask ==
    ASSUME buffer \in Seq(Submissions), NEW a \in Accounts, TasksOf(a) # {}
    PROVE  \E i \in TasksOf(a) : AisAfter[a] = AisOf[buffer[i]]
<1>1. TasksOf(a) \in SUBSET (1..Len(buffer)) /\ Len(buffer) \in Nat
  BY TasksAreFinite
<1>2. \E i \in TasksOf(a) : \A j \in TasksOf(a) : j <= i
  BY <1>1, GreatestElement
<1>3. PICK last : /\ last = (CHOOSE i \in TasksOf(a) :
                               \A j \in TasksOf(a) : j <= i)
                  /\ last \in TasksOf(a)
  BY <1>2
<1>4. AisAfter[a] = AisOf[buffer[last]]
  BY <1>3 DEF AisAfter
<1>. QED
  BY <1>3, <1>4

\* What one flush computes has the types of the tables it is written to; the
\* settlements never exceed the BIDDED tasks.
LEMMA FlushTypes ==
    ASSUME TypeOK
    PROVE  /\ AisAfter \in [Accounts -> Nat]
           /\ TxCountAfter \in [Accounts -> Nat]
           /\ \A a \in Accounts : Settlements(a) \in 0..openBids[a]
<1>. USE DEF TypeOK
<1>1. ASSUME NEW a \in Accounts
      PROVE  /\ AisAfter[a] \in Nat
             /\ TxCountAfter[a] \in Nat
             /\ Settlements(a) \in 0..openBids[a]
  <2>1. /\ TasksOf(a) \in SUBSET (1..Len(buffer))
        /\ Cardinality(TasksOf(a)) \in Nat
    BY TasksAreFinite
  <2>2. AisAfter[a] \in Nat
    <3>1. CASE TasksOf(a) = {}
      BY <3>1 DEF AisAfter
    <3>2. CASE TasksOf(a) # {}
      <4>1. PICK i \in TasksOf(a) : AisAfter[a] = AisOf[buffer[i]]
        BY <3>2, ScoreOfTask
      <4>2. buffer[i] \in Submissions
        BY <2>1
      <4>. QED
        BY <4>1, <4>2, PipelineAssumption
    <3>. QED
      BY <3>1, <3>2
  <2>3. TxCountAfter[a] \in Nat
    BY <2>1 DEF TxCountAfter
  <2>4. Settlements(a) \in 0..openBids[a]
    BY <2>1 DEF Settlements
  <2>. QED
    BY <2>2, <2>3, <2>4
<1>2. /\ AisAfter = [a \in Accounts |-> AisAfter[a]]
      /\ TxCountAfter = [a \in Accounts |-> TxCountAfter[a]]
  BY DEF AisAfter, TxCountAfter
<1>. QED
  BY <1>1, <1>2

\* The initial state has the right types.
LEMMA TypeInit == Init => TypeOK
BY PipelineAssumption DEF Init, TypeOK, Labels, NoScore, Accounts

\* Every step of a handler, of the writer and of main() keeps them.
LEMMA TypeStep == TypeOK /\ [Next]_vars => TypeOK'
<1>. SUFFICES ASSUME TypeOK, [Next]_vars PROVE TypeOK'
  OBVIOUS
<1>. USE DEF TypeOK, Labels, memVars, handlerVars, logTables
<1>1. ASSUME NEW h \in Handlers, Receive(h) PROVE TypeOK'
  BY <1>1 DEF Receive
<1>2. ASSUME NEW h \in Handlers, FindAgent(h) PROVE TypeOK'
  BY <1>2 DEF FindAgent, Goto
<1>3. ASSUME NEW h \in Handlers, AutoRegister(h) PROVE TypeOK'
  <2>1. Account(body[h]) \in Accounts
    BY <1>3, AccountType DEF AutoRegister
  <2>. QED
    BY <1>3, <2>1 DEF AutoRegister, Goto, Finish
<1>4. ASSUME NEW h \in Handlers, CheckReplay(h) PROVE TypeOK'
  BY <1>4 DEF CheckReplay, Goto, Finish
<1>5. ASSUME NEW h \in Handlers, Reserve(h) PROVE TypeOK'
  <2>1. HashOf[body[h]] \in Hashes
    BY <1>5, PipelineAssumption DEF Reserve
  <2>. QED
    BY <1>5, <2>1 DEF Reserve, Goto
<1>6. ASSUME NEW h \in Handlers, Enqueue(h) PROVE TypeOK'
  <2>1. /\ channel' \in Seq(Submissions)
        /\ Len(channel') <= ChannelCap
    BY <1>6, PipelineAssumption DEF Enqueue
  <2>. QED
    BY <1>6, <2>1 DEF Enqueue, Finish
<1>7. ASSUME NEW h \in Handlers, Abandon(h) PROVE TypeOK'
  BY <1>7 DEF Abandon, Finish
<1>8. ASSUME Recv PROVE TypeOK'
  <2>1. /\ buffer' \in Seq(Submissions)
        /\ channel' \in Seq(Submissions)
        /\ Len(channel') <= ChannelCap
    BY <1>8, PipelineAssumption DEF Recv
  <2>. QED
    BY <1>8, <2>1 DEF Recv
<1>9. ASSUME Timeout PROVE TypeOK'
  BY <1>9 DEF Timeout
<1>10. ASSUME BeginFails PROVE TypeOK'
  BY <1>10 DEF BeginFails
<1>11. ASSUME FlushCommits PROVE TypeOK'
  <2>1. /\ AisAfter \in [Accounts -> Nat]
        /\ TxCountAfter \in [Accounts -> Nat]
        /\ \A a \in Accounts : Settlements(a) \in 0..openBids[a]
    BY FlushTypes
  <2>2. openBids' \in [Accounts -> Nat] /\ settled' \in [Accounts -> Nat]
    BY <1>11, <2>1 DEF FlushCommits, SettleBids
  <2>3. Elements(buffer) \subseteq Submissions
    BY DEF Elements
  <2>. QED
    BY <1>11, <2>1, <2>2, <2>3 DEF FlushCommits, Drain
<1>12. ASSUME FlushRollsBack PROVE TypeOK'
  <2>1. Elements(buffer) \subseteq Submissions
    BY DEF Elements
  <2>. QED
    BY <1>12, <2>1 DEF FlushRollsBack, Drain
<1>13. ASSUME Restart PROVE TypeOK'
  <2>1. Queued \subseteq Submissions
    BY DEF Queued, Elements
  <2>2. HashesOf(rows) \subseteq Hashes
    BY PipelineAssumption DEF HashesOf
  <2>3. cache' \subseteq Hashes /\ cacheLoaded' \in BOOLEAN
    BY <1>13, <2>2 DEF Restart
  <2>4. /\ pc' = [h \in Handlers |-> "idle"]
        /\ body' = [h \in Handlers |-> NoBody]
    BY <1>13 DEF Restart
  <2>5. /\ pc' \in [Handlers -> Labels]
        /\ body' \in [Handlers -> Submissions \cup {NoBody}]
        /\ \A h \in Handlers : pc'[h] # "idle" => body'[h] \in Submissions
    BY <2>4
  <2>6. /\ channel' = <<>> /\ buffer' = <<>> /\ writer' = "recv"
        /\ lost' \subseteq Submissions
        /\ UNCHANGED <<agents, ais, rows, txCount, openBids, settled>>
    BY <1>13, <2>1 DEF Restart
  <2>7. channel' \in Seq(Submissions) /\ buffer' \in Seq(Submissions) /\ Len(channel') = 0
    BY <2>6
  <2>8. Len(channel') <= ChannelCap
    BY <2>7, PipelineAssumption
  <2>. QED
    BY <2>3, <2>5, <2>6, <2>7, <2>8
<1>14. CASE UNCHANGED vars
  BY <1>14 DEF vars
<1>. QED
  BY <1>1, <1>2, <1>3, <1>4, <1>5, <1>6, <1>7, <1>8, <1>9, <1>10, <1>11,
     <1>12, <1>13, <1>14 DEF Next, HandlerStep, WriterStep

\* Type correctness: every variable of the pipeline keeps its type, so no
\* agent's market tasks are settled more often than they were BIDDED.
THEOREM TypeCorrect == Spec => []TypeOK
BY TypeInit, TypeStep, PTL DEF Spec

-----------------------------------------------------------------------------
(* The replay cache.                                                       *)

\* At the start nothing is queued.
LEMMA ReplaysInit == Init => ReplaysRefused
BY DEF Init, ReplaysRefused, HashesOf, Queued, Elements

\* No step queues or writes a hash the replay cache does not hold, and none
\* removes a hash from it but a restart, which also empties the queues.
LEMMA ReplaysStep == TypeOK /\ ReplaysRefused /\ [Next]_vars => ReplaysRefused'
<1>. SUFFICES ASSUME TypeOK, ReplaysRefused, [Next]_vars
              PROVE  ReplaysRefused'
  OBVIOUS
<1>. USE DEF ReplaysRefused, HashesOf, memVars, handlerVars, logTables
<1>1. ASSUME NEW h \in Handlers, Receive(h) \/ FindAgent(h) \/ AutoRegister(h)
             \/ CheckReplay(h) \/ Abandon(h)
      PROVE  ReplaysRefused'
  <2>1. UNCHANGED <<cache, channel, buffer, cacheLoaded, rows>>
    BY <1>1 DEF Receive, FindAgent, AutoRegister, CheckReplay, Abandon
  <2>2. \A g \in Handlers : pc'[g] = "send" => pc[g] = "send" /\ body'[g] = body[g]
    BY <1>1 DEF Receive, FindAgent, AutoRegister, CheckReplay, Abandon, Goto,
                Finish, TypeOK
  <2>. QED
    BY <2>1, <2>2 DEF Queued, Elements
<1>2. ASSUME NEW h \in Handlers, Reserve(h) PROVE ReplaysRefused'
  BY <1>2 DEF Reserve, Goto, TypeOK, Queued, Elements
<1>3. ASSUME NEW h \in Handlers, Enqueue(h) PROVE ReplaysRefused'
  <2>1. Queued' = Queued \cup {body[h]}
    <3>1. /\ channel \in Seq(Submissions) /\ channel' = Append(channel, body[h])
          /\ body[h] \in Submissions
      BY <1>3 DEF Enqueue, TypeOK
    <3>2. Elements(channel') = Elements(channel) \cup {body[h]}
      BY <3>1 DEF Elements
    <3>. QED
      BY <1>3, <3>2 DEF Enqueue, Queued
  <2>2. \A g \in Handlers : pc'[g] = "send" => pc[g] = "send" /\ body'[g] = body[g]
    BY <1>3 DEF Enqueue, Finish, TypeOK
  <2>. QED
    BY <1>3, <2>1, <2>2 DEF Enqueue
<1>4. ASSUME Recv PROVE ReplaysRefused'
  <2>1. Queued' \subseteq Queued
    BY <1>4 DEF Recv, Queued, Elements, TypeOK
  <2>. QED
    BY <1>4, <2>1 DEF Recv
<1>5. ASSUME Timeout \/ BeginFails PROVE ReplaysRefused'
  BY <1>5 DEF Timeout, BeginFails, Queued, Elements
<1>6. ASSUME FlushCommits \/ FlushRollsBack PROVE ReplaysRefused'
  <2>1. /\ Queued' \subseteq Queued
        /\ UNCHANGED <<pc, body, cache, cacheLoaded>>
        /\ rows' \subseteq rows \cup Queued
    BY <1>6 DEF FlushCommits, FlushRollsBack, Drain, Queued, Elements
  <2>. QED
    BY <2>1
<1>7. ASSUME Restart PROVE ReplaysRefused'
  <2>1. Queued' = {} /\ UNCHANGED rows
    BY <1>7 DEF Restart, Queued, Elements
  <2>2. \A h \in Handlers : pc'[h] # "send"
    BY <1>7 DEF Restart
  <2>3. cacheLoaded' => cache' = HashesOf(rows)
    BY <1>7 DEF Restart
  <2>. QED
    BY <2>1, <2>2, <2>3
<1>8. CASE UNCHANGED vars
  BY <1>8 DEF vars, Queued, Elements
<1>. QED
  BY <1>1, <1>2, <1>3, <1>4, <1>5, <1>6, <1>7, <1>8 DEF Next, HandlerStep, WriterStep

\* A request that comes after the answer to one with the same hash is
\* refused, across flushes, outages and restarts that load the cache.
THEOREM ReplaysAreRefused == Spec => []ReplaysRefused
BY ReplaysInit, ReplaysStep, TypeCorrect, PTL DEF Spec

-----------------------------------------------------------------------------
(* The tables one flush writes agree with one another.                     *)

\* The rows and what is counted from them: inductive with TypeOK.
LogInv ==
    /\ IsFiniteSet(rows)
    /\ OneRowPerHash
    /\ SnapshotCountsLog
    /\ SettledByLog

\* The log starts empty, and so do the tables that follow it.
LEMMA LogInit == Init => LogInv
<1>. SUFFICES ASSUME Init PROVE LogInv
  OBVIOUS
<1>1. \A a \in Accounts : RowsOf(a) = {}
  BY DEF Init, RowsOf
<1>2. IsFiniteSet({}) /\ Cardinality({}) = 0
  BY FS_EmptySet
<1>3. SnapshotCountsLog
  BY <1>1, <1>2 DEF Init, SnapshotCountsLog
<1>4. SettledByLog
  <2>1. \A a \in Accounts : Bids[a] \in Nat
    BY PipelineAssumption
  <2>2. \A a \in Accounts : settled[a] = 0 /\ openBids[a] = Bids[a] /\ Cardinality(RowsOf(a)) = 0
    BY <1>1, <1>2 DEF Init
  <2>3. SUFFICES ASSUME NEW a \in Accounts
                 PROVE  /\ settled[a] + openBids[a] = Bids[a]
                        /\ settled[a] <= Cardinality(RowsOf(a))
                        /\ openBids[a] > 0 => settled[a] = Cardinality(RowsOf(a))
    BY DEF SettledByLog
  <2>. QED
    BY <2>1, <2>2
<1>. QED
  BY <1>2, <1>3, <1>4 DEF Init, LogInv, OneRowPerHash

\* Only a commit writes the tables of the log.
LEMMA LogTablesWriter ==
    [Next]_vars => FlushCommits \/ UNCHANGED logTables
BY DEF Next, HandlerStep, WriterStep, Receive, FindAgent, AutoRegister,
       CheckReplay, Reserve, Enqueue, Abandon, Recv, Timeout, BeginFails,
       FlushRollsBack, Restart, vars, logTables

\* A commit keeps the log and the tables that follow it in agreement.
LEMMA LogStep == TypeOK /\ LogInv /\ [Next]_vars => LogInv'
<1>. SUFFICES ASSUME TypeOK, LogInv, [Next]_vars PROVE LogInv'
  OBVIOUS
<1>1. ASSUME FlushCommits PROVE LogInv'
  <2>1. /\ buffer \in Seq(Submissions)
        /\ ~DuplicateIn(buffer)
        /\ rows' = rows \cup Elements(buffer)
    BY <1>1 DEF FlushCommits, StatementFails, TypeOK
  <2>2. ASSUME NEW a \in Accounts
        PROVE  /\ Cardinality(RowsOf(a))' = Cardinality(RowsOf(a)) + Cardinality(TasksOf(a))
               /\ Cardinality(TasksOf(a)) \in Nat
    <3>1. RowsOf(a)' = {r \in rows \cup Elements(buffer) : Account(r) = a}
      BY <2>1 DEF RowsOf
    <3>2. IsFiniteSet(rows)
      BY DEF LogInv
    <3>3. Cardinality(TasksOf(a)) \in Nat
      BY <2>1, TasksAreFinite
    <3>. QED
      BY <2>1, <3>1, <3>2, <3>3, CleanBatchCounts
  <2>3. IsFiniteSet(rows)'
    <3>1. Elements(buffer) = {buffer[i] : i \in 1..Len(buffer)}
      BY <2>1 DEF Elements
    <3>2. IsFiniteSet(Elements(buffer))
      <4>. DEFINE f == [i \in 1..Len(buffer) |-> buffer[i]]
      <4>1. f \in Surjection(1..Len(buffer), Elements(buffer))
        BY <3>1 DEF Surjection
      <4>2. IsFiniteSet(1..Len(buffer))
        BY <2>1, FS_Interval
      <4>. QED
        BY <4>1, <4>2, FS_Surjection
    <3>. QED
      BY <2>1, <3>2, FS_Union DEF LogInv
  <2>4. OneRowPerHash'
    <3>1. SUFFICES ASSUME NEW r \in rows', NEW t \in rows', HashOf[r] = HashOf[t]
                   PROVE  r = t
      BY DEF OneRowPerHash
    <3>2. CASE r \in rows /\ t \in rows
      BY <3>1, <3>2 DEF LogInv, OneRowPerHash
    <3>3. CASE r \in Elements(buffer) /\ t \in Elements(buffer)
      BY <3>1, <3>3, <2>1 DEF Elements, DuplicateIn
    <3>4. CASE r \in rows /\ t \in Elements(buffer)
      BY <3>1, <3>4, <2>1 DEF DuplicateIn, HashesOf
    <3>5. CASE r \in Elements(buffer) /\ t \in rows
      BY <3>1, <3>5, <2>1 DEF DuplicateIn, HashesOf
    <3>. QED
      BY <2>1, <3>2, <3>3, <3>4, <3>5
  <2>5. SnapshotCountsLog'
    <3>1. SUFFICES ASSUME NEW a \in Accounts
                   PROVE  txCount'[a] = Cardinality(RowsOf(a))'
      BY DEF SnapshotCountsLog
    <3>2. txCount'[a] = txCount[a] + Cardinality(TasksOf(a))
      BY <1>1 DEF FlushCommits, TxCountAfter
    <3>3. txCount[a] = Cardinality(RowsOf(a))
      BY DEF LogInv, SnapshotCountsLog
    <3>. QED
      BY <2>2, <3>2, <3>3
  <2>6. SettledByLog'
    <3>1. SUFFICES ASSUME NEW a \in Accounts
                   PROVE  /\ settled'[a] + openBids'[a] = Bids[a]
                          /\ settled'[a] <= Cardinality(RowsOf(a))'
                          /\ openBids'[a] > 0 => settled'[a] = Cardinality(RowsOf(a))'
      BY DEF SettledByLog
    <3>. DEFINE n == Cardinality(TasksOf(a))
                c == Cardinality(RowsOf(a))
    <3>2. /\ settled'[a] = settled[a] + Settlements(a)
          /\ openBids'[a] = openBids[a] - Settlements(a)
      BY <1>1 DEF FlushCommits, SettleBids
    <3>3. Settlements(a) = IF n <= openBids[a] THEN n ELSE openBids[a]
      BY DEF Settlements
    <3>4. /\ settled[a] \in Nat /\ openBids[a] \in Nat /\ txCount[a] \in Nat
          /\ c = txCount[a]
      BY DEF TypeOK, LogInv, SnapshotCountsLog
    <3>5. /\ settled[a] + openBids[a] = Bids[a]
          /\ settled[a] <= c
          /\ openBids[a] > 0 => settled[a] = c
      BY DEF LogInv, SettledByLog
    <3>6. Cardinality(RowsOf(a))' = c + n /\ n \in Nat
      BY <2>2
    <3>. HIDE DEF n, c
    <3>. QED
      BY <3>2, <3>3, <3>4, <3>5, <3>6
  <2>. QED
    BY <2>3, <2>4, <2>5, <2>6 DEF LogInv
<1>2. ASSUME UNCHANGED logTables PROVE LogInv'
  BY <1>2 DEF LogInv, OneRowPerHash, SnapshotCountsLog, SettledByLog, RowsOf, logTables
<1>. QED
  BY <1>1, <1>2, LogTablesWriter

\* The tables that follow the log agree with it in every reachable state.
THEOREM LogInvariant == Spec => []LogInv
BY LogInit, LogStep, TypeCorrect, PTL DEF Spec

\* One integrity hash has at most one row, whatever requests race and
\* however often the process restarts with an empty cache.
THEOREM HashesAreUnique == Spec => []OneRowPerHash
<1>1. LogInv => OneRowPerHash
  BY DEF LogInv
<1>. QED
  BY <1>1, LogInvariant, PTL

\* The daily snapshot counts exactly the rows of the log.
THEOREM SnapshotsCount == Spec => []SnapshotCountsLog
<1>1. LogInv => SnapshotCountsLog
  BY DEF LogInv
<1>. QED
  BY <1>1, LogInvariant, PTL

\* Market tasks are settled only by rows of the log, one per row.
THEOREM SettlementsAreBacked == Spec => []SettledByLog
<1>1. LogInv => SettledByLog
  BY DEF LogInv
<1>. QED
  BY <1>1, LogInvariant, PTL

\* A commit writes no score but that of a task it adds to the log, and no row
\* that backs a score is ever taken back.
LEMMA ScoreStep ==
    TypeOK /\ ScoreBackedByLog /\ [Next]_vars => ScoreBackedByLog'
<1>. SUFFICES ASSUME TypeOK, ScoreBackedByLog, [Next]_vars,
                     NEW a \in Accounts, ais'[a] # NoScore
              PROVE  \E r \in RowsOf(a)' : AisOf[r] = ais'[a]
  BY DEF ScoreBackedByLog
<1>1. CASE UNCHANGED logTables
  BY <1>1 DEF ScoreBackedByLog, RowsOf, logTables
<1>2. CASE FlushCommits
  <2>1. rows' = rows \cup Elements(buffer) /\ ais'[a] = AisAfter[a]
    BY <1>2 DEF FlushCommits
  <2>2. CASE TasksOf(a) = {}
    <3>1. ais'[a] = ais[a]
      BY <2>1, <2>2 DEF AisAfter
    <3>. QED
      BY <2>1, <3>1 DEF ScoreBackedByLog, RowsOf
  <2>3. CASE TasksOf(a) # {}
    <3>1. PICK i \in TasksOf(a) : AisAfter[a] = AisOf[buffer[i]]
      BY <2>3, ScoreOfTask DEF TypeOK
    <3>2. buffer[i] \in Elements(buffer) /\ Account(buffer[i]) = a
      BY DEF TasksOf, Elements
    <3>. QED
      BY <2>1, <3>1, <3>2 DEF RowsOf
  <2>. QED
    BY <2>2, <2>3
<1>. QED
  BY <1>1, <1>2, LogTablesWriter

\* An agent's current score is the score of one of its rows in the log.
THEOREM ScoresAreBacked == Spec => []ScoreBackedByLog
<1>1. Init => ScoreBackedByLog
  BY DEF Init, ScoreBackedByLog
<1>. QED
  BY <1>1, ScoreStep, TypeCorrect, PTL DEF Spec

-----------------------------------------------------------------------------
(* One step, and the abstract log.                                         *)

\* A commit adds exactly its batch, and nothing of it was in the log before.
LEMMA CommitAddsBatch ==
    FlushCommits => /\ rows' = rows \cup Elements(buffer)
                    /\ rows \cap Elements(buffer) = {}
<1>. SUFFICES ASSUME FlushCommits PROVE rows \cap Elements(buffer) = {}
  BY DEF FlushCommits
<1>1. ~DuplicateIn(buffer)
  BY DEF FlushCommits, StatementFails
<1>. QED
  BY <1>1 DEF DuplicateIn, HashesOf

\* No row of the log is ever taken back, and a step that writes rows writes
\* the whole batch.
THEOREM BatchesAreAtomic == Spec => BatchIsAtomic
<1>1. [Next]_vars => [/\ rows \subseteq rows'
                      /\ rows' # rows => rows' \ rows = Elements(buffer)]_vars
  BY LogTablesWriter, CommitAddsBatch DEF logTables
<1>. QED
  BY <1>1, PTL DEF Spec, BatchIsAtomic

\* A task appended to a queue joins the queue's elements.
LEMMA AppendAdds ==
    ASSUME NEW S, NEW q \in Seq(S), NEW e \in S
    PROVE  {Append(q, e)[i] : i \in DOMAIN Append(q, e)} = {q[i] : i \in DOMAIN q} \cup {e}
<1>1. DOMAIN Append(q, e) = 1 .. Len(q) + 1 /\ DOMAIN q = 1 .. Len(q) /\ Len(q) \in Nat
  OBVIOUS
<1>2. /\ \A i \in 1 .. Len(q) : Append(q, e)[i] = q[i]
      /\ Append(q, e)[Len(q) + 1] = e
  OBVIOUS
<1>. QED
  BY <1>1, <1>2

\* Every step of the pipeline is a step of the abstract log, or none.
LEMMA LogSimulation ==
    ASSUME TypeOK, LogInv, LogInv', [Next]_vars
    PROVE  [Log!Next]_(Log!logVars)
<1>. USE DEF Log!logVars, memVars, handlerVars, logTables
<1>1. ASSUME FlushCommits PROVE Log!Next
  <2>1. /\ Elements(buffer) \in SUBSET Queued
        /\ rows' = rows \cup Elements(buffer)
        /\ Queued' \subseteq Queued
    BY <1>1 DEF FlushCommits, Drain, Queued, Elements
  <2>2. Log!OneRowPerHash(rows')
    BY DEF LogInv, OneRowPerHash, Log!OneRowPerHash
  <2>3. Log!Persist(Elements(buffer))
    BY <2>1, <2>2 DEF Log!Persist
  <2>. QED
    BY <2>1, <2>3 DEF Log!Next
<1>2. ASSUME NEW h \in Handlers, Enqueue(h) PROVE Log!Next
  <2>1. /\ channel \in Seq(Submissions) /\ channel' = Append(channel, body[h])
        /\ body[h] \in Submissions
    BY <1>2 DEF Enqueue, TypeOK
  <2>2. Elements(channel') = Elements(channel) \cup {body[h]}
    BY <2>1, AppendAdds DEF Elements
  <2>3. Log!Accept(body[h])
    BY <1>2, <2>2 DEF Enqueue, Queued, Log!Accept
  <2>. QED
    BY <2>1, <2>3 DEF Log!Next
<1>3. ASSUME FlushRollsBack \/ Restart PROVE Log!Next
  <2>1. Queued' \subseteq Queued /\ UNCHANGED rows
    BY <1>3 DEF FlushRollsBack, Drain, Restart, Queued, Elements
  <2>. QED
    BY <2>1 DEF Log!Next, Log!Forget
<1>4. ASSUME Recv PROVE UNCHANGED Queued /\ UNCHANGED rows
  <2>1. /\ channel \in Seq(Submissions) /\ buffer \in Seq(Submissions)
        /\ channel # <<>>
        /\ channel' = Tail(channel)
        /\ buffer' = Append(buffer, Head(channel))
    BY <1>4 DEF Recv, TypeOK
  <2>2. Elements(buffer') = Elements(buffer) \cup {Head(channel)}
    <3>1. PICK s \in Submissions : s = Head(channel)
      BY <2>1
    <3>2. buffer \in Seq(Submissions) /\ buffer' = Append(buffer, s)
      BY <2>1, <3>1
    <3>3. Elements(buffer') = Elements(buffer) \cup {s}
      BY <3>2, AppendAdds DEF Elements
    <3>. QED
      BY <3>1, <3>3
  <2>3. Elements(channel) = Elements(channel') \cup {Head(channel)}
    <3>1. \A i \in DOMAIN channel : i = 1 \/ i - 1 \in DOMAIN channel'
      BY <2>1
    <3>2. \A i \in DOMAIN channel' : i + 1 \in DOMAIN channel
      BY <2>1
    <3>3. Head(channel) = channel[1] /\ 1 \in DOMAIN channel
      BY <2>1
    <3>4. /\ \A i \in DOMAIN channel' : channel'[i] = channel[i + 1]
          /\ \A i \in DOMAIN channel : i # 1 => channel[i] = channel'[i - 1]
      BY <2>1
    <3>. QED
      BY <3>1, <3>2, <3>3, <3>4 DEF Elements
  <2>. QED
    BY <1>4, <2>2, <2>3 DEF Queued, Recv
<1>5. ASSUME \/ \E h \in Handlers : \/ Receive(h) \/ FindAgent(h) \/ AutoRegister(h)
                                    \/ CheckReplay(h) \/ Reserve(h) \/ Abandon(h)
             \/ Timeout \/ BeginFails \/ UNCHANGED vars
      PROVE  UNCHANGED Queued /\ UNCHANGED rows
  BY <1>5 DEF Receive, FindAgent, AutoRegister, CheckReplay, Reserve, Abandon,
              Timeout, BeginFails, vars, Queued, Elements
<1>. QED
  BY <1>1, <1>2, <1>3, <1>4, <1>5 DEF Next, HandlerStep, WriterStep

\* The pipeline implements the abstract log: what is queued is written at
\* most once per hash, or forgotten, and what is written stays.
THEOREM PipelineImplementsLog == Spec => ImplementsLog
<1>1. Init => Log!Init
  BY DEF Init, Log!Init, Queued, Elements
<1>2. TypeOK /\ LogInv /\ LogInv' /\ [Next]_vars => [Log!Next]_(Log!logVars)
  BY LogSimulation
<1>. QED
  BY <1>1, <1>2, TypeCorrect, LogInvariant, PTL DEF Spec, ImplementsLog, Log!Spec

=============================================================================
