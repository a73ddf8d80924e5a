---------------------------- MODULE RollupProofs ----------------------------
(***************************************************************************)
(* Proofs about Rollup, for any set of rows and any number of callers, and *)
(* about MerkleTree, for any number of leaves and any depth.               *)
(***************************************************************************)
EXTENDS Rollup, MerkleTree, WellFoundedInduction, TLAPS

\* The initial state has the right types.
LEMMA TypeInit == Init => TypeOK
BY DEF Init, TypeOK, Phases, Several

\* Every statement of a commit, every row that arrives and every call that
\* breaks off keeps the types.
LEMMA TypeStep == TypeOK /\ [Next]_vars => TypeOK'
<1>. SUFFICES ASSUME TypeOK, [Next]_vars PROVE TypeOK'
  OBVIOUS
<1>. USE DEF TypeOK, Phases, Pending, Leave
<1>1. ASSUME NEW S \in SUBSET Rows, Log(S) PROVE TypeOK'
  BY <1>1 DEF Log
<1>2. ASSUME NEW c \in Committers, Select(c) PROVE TypeOK'
  BY <1>2 DEF Select
<1>3. ASSUME NEW c \in Committers, InsertBatch(c) PROVE TypeOK'
  <2>1. recorded' \in [Rows -> 0 .. Several]
    BY <1>3 DEF InsertBatch, OneMore, Several
  <2>. QED
    BY <1>3, <2>1 DEF InsertBatch
<1>4. ASSUME NEW c \in Committers, UpdateRows(c) PROVE TypeOK'
  BY <1>4 DEF UpdateRows
<1>5. ASSUME NEW c \in Committers, Anchor(c) PROVE TypeOK'
  BY <1>5 DEF Anchor
<1>6. ASSUME NEW c \in Committers, BreakOff(c) PROVE TypeOK'
  BY <1>6 DEF BreakOff
<1>7. CASE UNCHANGED vars
  BY <1>7 DEF vars
<1>. QED
  BY <1>1, <1>2, <1>3, <1>4, <1>5, <1>6, <1>7 DEF Next

\* The variables keep their types, and no commit runs with an empty tree.
THEOREM TypeCorrect == Spec => []TypeOK
BY TypeInit, TypeStep, PTL DEF Spec

-----------------------------------------------------------------------------
(* What each phase of a commit knows about the rows it picked.             *)

PhaseInv ==
    /\ \A r \in Rows : status[r] = "absent" => recorded[r] = 0
    /\ \A c \in Committers : \A r \in picked[c] :
         /\ status[r] # "absent"
         /\ pc[c] \in {"update", "anchor"} => recorded[r] > 0
         /\ pc[c] = "anchor" => status[r] = "COMMITTED"
    /\ AnsweredIsCommitted

\* At the start no row is logged and no commit runs.
LEMMA PhaseInit == Init => PhaseInv
BY DEF Init, PhaseInv, AnsweredIsCommitted

\* A row once picked stays logged, a row once recorded stays recorded, and
\* the UPDATE of any commit commits the picked rows of all of them.
LEMMA PhaseStep == TypeOK /\ PhaseInv /\ [Next]_vars => PhaseInv'
<1>. SUFFICES ASSUME TypeOK, PhaseInv, [Next]_vars PROVE PhaseInv'
  OBVIOUS
<1>. USE DEF TypeOK, PhaseInv, AnsweredIsCommitted, Pending, Leave
<1>1. ASSUME NEW S \in SUBSET Rows, Log(S) PROVE PhaseInv'
  BY <1>1 DEF Log
<1>2. ASSUME NEW c \in Committers, Select(c) PROVE PhaseInv'
  BY <1>2 DEF Select
<1>3. ASSUME NEW c \in Committers, InsertBatch(c) PROVE PhaseInv'
  <2>1. \A r \in Rows : recorded[r] \in 0 .. Several
    OBVIOUS
  <2>2. /\ \A r \in picked[c] : recorded'[r] > 0
        /\ \A r \in Rows : recorded[r] > 0 => recorded'[r] > 0
        /\ \A r \in Rows \ picked[c] : recorded'[r] = recorded[r]
    BY <1>3, <2>1 DEF InsertBatch, OneMore, Several
  <2>3. /\ pc' = [pc EXCEPT ![c] = "update"]
        /\ UNCHANGED <<status, picked, answered>>
    BY <1>3 DEF InsertBatch
  <2>4. (\A r \in Rows : status[r] = "absent" => recorded[r] = 0)'
    BY <2>2, <2>3
  <2>5. ASSUME NEW d \in Committers, NEW r \in picked[d]
        PROVE  /\ status'[r] # "absent"
               /\ pc'[d] \in {"update", "anchor"} => recorded'[r] > 0
               /\ pc'[d] = "anchor" => status'[r] = "COMMITTED"
    BY <2>2, <2>3
  <2>6. AnsweredIsCommitted'
    BY <2>2, <2>3
  <2>. QED
    BY <2>3, <2>4, <2>5, <2>6
<1>4. ASSUME NEW c \in Committers, UpdateRows(c) PROVE PhaseInv'
  BY <1>4 DEF UpdateRows
<1>5. ASSUME NEW c \in Committers, Anchor(c) PROVE PhaseInv'
  BY <1>5 DEF Anchor
<1>6. ASSUME NEW c \in Committers, BreakOff(c) PROVE PhaseInv'
  BY <1>6 DEF BreakOff
<1>7. CASE UNCHANGED vars
  BY <1>7 DEF vars
<1>. QED
  BY <1>1, <1>2, <1>3, <1>4, <1>5, <1>6, <1>7 DEF Next

\* What was answered with 200 is committed and recorded, with any number of
\* overlapping and broken-off commits.
THEOREM AnswersHold == Spec => []AnsweredIsCommitted
<1>1. PhaseInv => AnsweredIsCommitted
  BY DEF PhaseInv
<1>2. Spec => []PhaseInv
  BY PhaseInit, PhaseStep, TypeCorrect, PTL DEF Spec
<1>. QED
  BY <1>1, <1>2, PTL

-----------------------------------------------------------------------------
(* Commits that do not overlap.                                            *)

SerialInv ==
    serial => /\ \A c, d \in Committers : pc[c] # "idle" /\ pc[d] # "idle" => c = d
              /\ \A r \in Rows : recorded[r] < Several
              /\ \A c \in Committers : \A r \in picked[c] :
                   pc[c] = "insert" => recorded[r] = 0
              /\ \A r \in Pending : recorded[r] > 0 =>
                   \E c \in Committers : pc[c] = "update" /\ r \in picked[c]

\* At the start there is no batch.
LEMMA SerialInit == Init => SerialInv
BY DEF Init, SerialInv, Pending, Several

\* While commits are serial, a waiting row is in a batch only between the
\* INSERT and the UPDATE of the one commit that runs.
LEMMA SerialStep == TypeOK /\ PhaseInv /\ SerialInv /\ [Next]_vars => SerialInv'
<1>. SUFFICES ASSUME TypeOK, PhaseInv, SerialInv, [Next]_vars, serial'
              PROVE  /\ \A c, d \in Committers : pc'[c] # "idle" /\ pc'[d] # "idle" => c = d
                     /\ \A r \in Rows : recorded'[r] < Several
                     /\ \A c \in Committers : \A r \in picked'[c] :
                          pc'[c] = "insert" => recorded'[r] = 0
                     /\ \A r \in Pending' : recorded'[r] > 0 =>
                          \E c \in Committers : pc'[c] = "update" /\ r \in picked'[c]
  BY DEF SerialInv
<1>0. serial
  BY DEF Next, Log, Select, InsertBatch, UpdateRows, Anchor, BreakOff, vars
<1>. USE <1>0 DEF TypeOK, SerialInv, Pending, Leave
<1>1. ASSUME NEW S \in SUBSET Rows, Log(S) PROVE SerialInv'
  BY <1>1 DEF Log, PhaseInv
<1>2. ASSUME NEW c \in Committers, Select(c) PROVE SerialInv'
  <2>1. /\ pc' = [pc EXCEPT ![c] = "insert"]
        /\ picked' = [picked EXCEPT ![c] = Pending]
        /\ \A d \in Committers : pc[d] = "idle"
        /\ UNCHANGED <<status, recorded>>
    BY <1>2, serial' DEF Select
  <2>2. \A r \in Pending : recorded[r] = 0
    <3>1. \A r \in Rows : recorded[r] \in 0 .. Several
      OBVIOUS
    <3>. QED
      BY <2>1, <3>1 DEF Several
  <2>3. \A d \in Committers : picked'[d] # {} => d = c
    BY <2>1
  <2>4. \A d, e \in Committers : pc'[d] # "idle" /\ pc'[e] # "idle" => d = e
    BY <2>1
  <2>. QED
    BY <2>1, <2>2, <2>3, <2>4
<1>3. ASSUME NEW c \in Committers, InsertBatch(c) PROVE SerialInv'
  <2>1. /\ pc[c] = "insert" /\ pc' = [pc EXCEPT ![c] = "update"]
        /\ UNCHANGED <<status, picked, serial>>
        /\ \A r \in picked[c] : recorded[r] = 0
        /\ \A d \in Committers : pc[d] # "idle" => d = c
    BY <1>3 DEF InsertBatch
  <2>2. /\ \A r \in picked[c] : recorded'[r] = 1
        /\ \A r \in Rows \ picked[c] : recorded'[r] = recorded[r]
    BY <1>3, <2>1 DEF InsertBatch, OneMore
  <2>3. \A r \in Rows : recorded'[r] < Several
    BY <2>2 DEF Several
  <2>4. \A d \in Committers : pc'[d] # "insert"
    BY <2>1
  <2>5. ASSUME NEW r \in Pending', recorded'[r] > 0 PROVE r \in picked[c]
    BY <2>1, <2>2, <2>5
  <2>. QED
    BY <2>1, <2>3, <2>4, <2>5
<1>4. ASSUME NEW c \in Committers, UpdateRows(c) PROVE SerialInv'
  <2>1. Pending' = {}
    BY <1>4 DEF UpdateRows
  <2>. QED
    BY <1>4, <2>1 DEF UpdateRows
<1>5. ASSUME NEW c \in Committers, Anchor(c) PROVE SerialInv'
  BY <1>5 DEF Anchor
<1>6. ASSUME NEW c \in Committers, BreakOff(c) PROVE FALSE
  BY <1>6 DEF BreakOff
<1>7. CASE UNCHANGED vars
  BY <1>7 DEF vars
<1>. QED
  BY <1>1, <1>2, <1>3, <1>4, <1>5, <1>6, <1>7 DEF Next

\* Commits that run one at a time and do not break off count every row once,
\* however many rows arrive while they run.
THEOREM SerialCounts == Spec => []SerialCommitsCountOnce
<1>1. SerialInv => SerialCommitsCountOnce
  BY DEF SerialInv, SerialCommitsCountOnce
<1>2. TypeOK /\ TypeOK' /\ PhaseInv /\ SerialInv /\ [Next]_vars => SerialInv'
  BY SerialStep
<1>3. Spec => []PhaseInv
  BY PhaseInit, PhaseStep, TypeCorrect, PTL DEF Spec
<1>. QED
  BY <1>1, <1>2, <1>3, SerialInit, TypeCorrect, PTL DEF Spec

-----------------------------------------------------------------------------
(* Rows that are committed in no batch.                                    *)

\* Between its SELECT and its UPDATE a commit has picked every waiting row that
\* did not arrive late.
LateInv ==
    /\ UnbatchedCameLate
    /\ \A c \in Committers : pc[c] \in {"insert", "update"} =>
         Pending \subseteq picked[c] \cup late

\* At the start no row is committed and no commit runs.
LEMMA LateInit == Init => LateInv
BY DEF Init, LateInv, UnbatchedCameLate, Committed

\* A row that arrives while a commit is under way is late; the others wait
\* to be picked, and what the UPDATE finds beyond the picked rows is late.
LEMMA LateStep == TypeOK /\ PhaseInv /\ LateInv /\ [Next]_vars => LateInv'
<1>. SUFFICES ASSUME TypeOK, PhaseInv, LateInv, [Next]_vars PROVE LateInv'
  OBVIOUS
<1>. USE DEF TypeOK, LateInv, UnbatchedCameLate, Pending, Committed, Leave
<1>1. ASSUME NEW S \in SUBSET Rows, Log(S) PROVE LateInv'
  <2>1. CASE \E c \in Committers : pc[c] \in {"insert", "update"}
    BY <1>1, <2>1 DEF Log
  <2>2. CASE \A c \in Committers : pc[c] \notin {"insert", "update"}
    BY <1>1, <2>2 DEF Log
  <2>. QED
    BY <2>1, <2>2
<1>2. ASSUME NEW c \in Committers, Select(c) PROVE LateInv'
  BY <1>2 DEF Select
<1>3. ASSUME NEW c \in Committers, InsertBatch(c) PROVE LateInv'
  <2>1. \A r \in Rows : recorded'[r] = 0 => recorded[r] = 0
    BY <1>3 DEF InsertBatch, OneMore, Several
  <2>2. /\ pc[c] = "insert" /\ pc' = [pc EXCEPT ![c] = "update"]
        /\ UNCHANGED <<status, picked, late>>
    BY <1>3 DEF InsertBatch
  <2>. QED
    BY <2>1, <2>2
<1>4. ASSUME NEW c \in Committers, UpdateRows(c) PROVE LateInv'
  <2>1. \A r \in picked[c] : recorded[r] # 0
    BY <1>4 DEF UpdateRows, PhaseInv
  <2>2. Pending' = {} /\ Committed' = Committed \cup Pending
    BY <1>4 DEF UpdateRows
  <2>3. pc[c] = "update" /\ UNCHANGED <<recorded, late>>
    BY <1>4 DEF UpdateRows
  <2>4. UnbatchedCameLate'
    BY <2>1, <2>2, <2>3
  <2>. QED
    BY <2>2, <2>4
<1>5. ASSUME NEW c \in Committers, Anchor(c) PROVE LateInv'
  BY <1>5 DEF Anchor
<1>6. ASSUME NEW c \in Committers, BreakOff(c) PROVE LateInv'
  BY <1>6 DEF BreakOff
<1>7. CASE UNCHANGED vars
  BY <1>7 DEF vars
<1>. QED
  BY <1>1, <1>2, <1>3, <1>4, <1>5, <1>6, <1>7 DEF Next

\* A row that is committed in no batch arrived between the SELECT and the
\* UPDATE of some commit, however many calls overlap and break off.
THEOREM OnlyLateOnesAreLeftOut == Spec => []UnbatchedCameLate
<1>1. LateInv => UnbatchedCameLate
  BY DEF LateInv
<1>2. Spec => []PhaseInv
  BY PhaseInit, PhaseStep, TypeCorrect, PTL DEF Spec
<1>. QED
  BY <1>1, <1>2, LateInit, LateStep, TypeCorrect, PTL DEF Spec

-----------------------------------------------------------------------------
(* Induction and the model's recursive functions.                          *)

\* A set of numbers that has zero, and with a number the next, has them all.
LEMMA UpTo ==
    ASSUME NEW n \in Nat, NEW S, 0 \in S,
           \A k \in 0 .. n : k \in S /\ k < n => k + 1 \in S
    PROVE  0 .. n \subseteq S
<1> DEFINE Out == {k \in Nat : k <= n /\ k \notin S}
<1>1. Out = {}
  <2> SUFFICES ASSUME Out # {} PROVE FALSE
    OBVIOUS
  <2>1. PICK x \in Out : \A y \in Out : <<y, x>> \notin OpToRel(<, Nat)
    BY WFMin, NatLessThanWellFounded
  <2>2. x \in Nat /\ x <= n /\ x # 0
    OBVIOUS
  <2>3. x - 1 \in Nat /\ x - 1 < x /\ x - 1 + 1 = x
    BY <2>2
  <2>4. <<x - 1, x>> \in OpToRel(<, Nat)
    BY <2>2, <2>3 DEF OpToRel
  <2>5. x - 1 \notin Out
    BY <2>1, <2>4
  <2>6. x - 1 \in S /\ x - 1 \in 0 .. n /\ x - 1 < n
    BY <2>2, <2>3, <2>5
  <2> QED
    BY <2>2, <2>3, <2>6
<1> QED
  BY <1>1

\* The halving of an index level by level.
Up(f, idx, n) == f = [k \in 0 .. n |-> IF k = 0 THEN idx ELSE f[k - 1] \div 2]

LEMMA UpExists ==
    ASSUME NEW idx, NEW n \in Nat
    PROVE  \E f : Up(f, idx, n)
<1> DEFINE S == {m \in Nat : \E f : Up(f, idx, m)}
<1>1. 0 \in S
  <2> DEFINE f == [k \in 0 .. 0 |-> idx]
  <2>1. Up(f, idx, 0)
    BY DEF Up
  <2> QED
    BY <2>1, Zenon
<1>2. ASSUME NEW m \in Nat, NEW f, Up(f, idx, m)
      PROVE  \E g : Up(g, idx, m + 1)
  <2> DEFINE g == [k \in 0 .. m + 1 |-> IF k = m + 1 THEN f[m] \div 2 ELSE f[k]]
  <2>1. \A k \in 0 .. m : f[k] = IF k = 0 THEN idx ELSE f[k - 1] \div 2
    BY <1>2 DEF Up
  <2>2. \A k \in 0 .. m + 1 : g[k] = IF k = 0 THEN idx ELSE g[k - 1] \div 2
    BY <2>1
  <2>3. Up(g, idx, m + 1)
    BY <2>2 DEF Up
  <2> QED
    BY <2>3, Zenon
<1>3. \A k \in 0 .. n : k \in S /\ k < n => k + 1 \in S
  BY <1>2
<1> HIDE DEF S
<1>4. n \in S
  BY <1>1, <1>3, UpTo
<1> QED
  BY <1>4 DEF S

LEMMA UpAgrees ==
    ASSUME NEW idx, NEW n \in Nat, NEW m \in Nat, n <= m,
           NEW f, Up(f, idx, n), NEW g, Up(g, idx, m)
    PROVE  \A k \in 0 .. n : f[k] = g[k]
<1> DEFINE S == {k \in 0 .. n : f[k] = g[k]}
<1>1. /\ \A k \in 0 .. n : f[k] = IF k = 0 THEN idx ELSE f[k - 1] \div 2
      /\ \A k \in 0 .. m : g[k] = IF k = 0 THEN idx ELSE g[k - 1] \div 2
  BY DEF Up
<1>2. 0 \in S /\ \A k \in 0 .. n : k \in S /\ k < n => k + 1 \in S
  BY <1>1
<1> HIDE DEF S
<1>3. 0 .. n \subseteq S
  BY <1>2, UpTo
<1> QED
  BY <1>3 DEF S

\* An ancestor's index is half of the one below.
LEMMA Ancestors ==
    ASSUME NEW idx, NEW h \in Nat
    PROVE  /\ AncestorOf(idx, 0) = idx
           /\ AncestorOf(idx, h + 1) = AncestorOf(idx, h) \div 2
<1>1. ASSUME NEW n \in Nat
      PROVE  \E f : Up(f, idx, n) /\ AncestorOf(idx, n) = f[n]
  <2> DEFINE f == CHOOSE f : Up(f, idx, n)
  <2>1. Up(f, idx, n)
    BY UpExists, Zenon
  <2>2. AncestorOf(idx, n) = f[n]
    BY DEF AncestorOf, Up
  <2> QED
    BY <2>1, <2>2, Zenon
<1>2. AncestorOf(idx, 0) = idx
  BY <1>1 DEF Up
<1>3. PICK f : Up(f, idx, h) /\ AncestorOf(idx, h) = f[h]
  BY <1>1
<1>4. PICK g : Up(g, idx, h + 1) /\ AncestorOf(idx, h + 1) = g[h + 1]
  BY <1>1
<1>5. f[h] = g[h]
  BY <1>3, <1>4, UpAgrees
<1>6. g[h + 1] = g[h] \div 2
  BY <1>4 DEF Up
<1> QED
  BY <1>2, <1>3, <1>4, <1>5, <1>6

\* The width of the levels.
Halved(f, n) == f = [k \in 0 .. n |-> IF k = 0 THEN Len(leaves) ELSE (f[k - 1] + 1) \div 2]

LEMMA HalvedExists ==
    ASSUME NEW n \in Nat
    PROVE  \E f : Halved(f, n)
<1> DEFINE S == {m \in Nat : \E f : Halved(f, m)}
<1>1. 0 \in S
  <2> DEFINE f == [k \in 0 .. 0 |-> Len(leaves)]
  <2>1. Halved(f, 0)
    BY DEF Halved
  <2> QED
    BY <2>1, Zenon
<1>2. ASSUME NEW m \in Nat, NEW f, Halved(f, m)
      PROVE  \E g : Halved(g, m + 1)
  <2> DEFINE g == [k \in 0 .. m + 1 |-> IF k = m + 1 THEN (f[m] + 1) \div 2 ELSE f[k]]
  <2>1. \A k \in 0 .. m : f[k] = IF k = 0 THEN Len(leaves) ELSE (f[k - 1] + 1) \div 2
    BY <1>2 DEF Halved
  <2>2. \A k \in 0 .. m + 1 : g[k] = IF k = 0 THEN Len(leaves) ELSE (g[k - 1] + 1) \div 2
    BY <2>1
  <2>3. Halved(g, m + 1)
    BY <2>2 DEF Halved
  <2> QED
    BY <2>3, Zenon
<1>3. \A k \in 0 .. n : k \in S /\ k < n => k + 1 \in S
  BY <1>2
<1> HIDE DEF S
<1>4. n \in S
  BY <1>1, <1>3, UpTo
<1> QED
  BY <1>4 DEF S

LEMMA HalvedAgrees ==
    ASSUME NEW n \in Nat, NEW m \in Nat, n <= m,
           NEW f, Halved(f, n), NEW g, Halved(g, m)
    PROVE  \A k \in 0 .. n : f[k] = g[k]
<1> DEFINE S == {k \in 0 .. n : f[k] = g[k]}
<1>1. /\ \A k \in 0 .. n : f[k] = IF k = 0 THEN Len(leaves) ELSE (f[k - 1] + 1) \div 2
      /\ \A k \in 0 .. m : g[k] = IF k = 0 THEN Len(leaves) ELSE (g[k - 1] + 1) \div 2
  BY DEF Halved
<1>2. 0 \in S /\ \A k \in 0 .. n : k \in S /\ k < n => k + 1 \in S
  BY <1>1
<1> HIDE DEF S
<1>3. 0 .. n \subseteq S
  BY <1>2, UpTo
<1> QED
  BY <1>3 DEF S

\* A level is half as wide as the one below, rounded up.
LEMMA Widths ==
    ASSUME NEW h \in Nat
    PROVE  /\ WidthOf(0) = Len(leaves)
           /\ WidthOf(h + 1) = (WidthOf(h) + 1) \div 2
<1>1. ASSUME NEW n \in Nat
      PROVE  \E f : Halved(f, n) /\ WidthOf(n) = f[n]
  <2> DEFINE f == CHOOSE f : Halved(f, n)
  <2>1. Halved(f, n)
    BY HalvedExists, Zenon
  <2>2. WidthOf(n) = f[n]
    BY DEF WidthOf, Halved
  <2> QED
    BY <2>1, <2>2, Zenon
<1>2. WidthOf(0) = Len(leaves)
  BY <1>1 DEF Halved
<1>3. PICK f : Halved(f, h) /\ WidthOf(h) = f[h]
  BY <1>1
<1>4. PICK g : Halved(g, h + 1) /\ WidthOf(h + 1) = g[h + 1]
  BY <1>1
<1>5. f[h] = g[h]
  BY <1>3, <1>4, HalvedAgrees
<1>6. g[h + 1] = (g[h] + 1) \div 2
  BY <1>4 DEF Halved
<1> QED
  BY <1>2, <1>3, <1>4, <1>5, <1>6

\* The length that the agents' leaves are padded to.
Doubled(f, n) == f = [k \in 0 .. n |-> IF k = 0 THEN 1 ELSE 2 * f[k - 1]]

LEMMA DoubledExists ==
    ASSUME NEW n \in Nat
    PROVE  \E f : Doubled(f, n)
<1> DEFINE S == {m \in Nat : \E f : Doubled(f, m)}
<1>1. 0 \in S
  <2> DEFINE f == [k \in 0 .. 0 |-> 1]
  <2>1. Doubled(f, 0)
    BY DEF Doubled
  <2> QED
    BY <2>1, Zenon
<1>2. ASSUME NEW m \in Nat, NEW f, Doubled(f, m)
      PROVE  \E g : Doubled(g, m + 1)
  <2> DEFINE g == [k \in 0 .. m + 1 |-> IF k = m + 1 THEN 2 * f[m] ELSE f[k]]
  <2>1. \A k \in 0 .. m : f[k] = IF k = 0 THEN 1 ELSE 2 * f[k - 1]
    BY <1>2 DEF Doubled
  <2>2. \A k \in 0 .. m + 1 : g[k] = IF k = 0 THEN 1 ELSE 2 * g[k - 1]
    BY <2>1
  <2>3. Doubled(g, m + 1)
    BY <2>2 DEF Doubled
  <2> QED
    BY <2>3, Zenon
<1>3. \A k \in 0 .. n : k \in S /\ k < n => k + 1 \in S
  BY <1>2
<1> HIDE DEF S
<1>4. n \in S
  BY <1>1, <1>3, UpTo
<1> QED
  BY <1>4 DEF S

LEMMA DoubledAgrees ==
    ASSUME NEW n \in Nat, NEW m \in Nat, n <= m,
           NEW f, Doubled(f, n), NEW g, Doubled(g, m)
    PROVE  \A k \in 0 .. n : f[k] = g[k]
<1> DEFINE S == {k \in 0 .. n : f[k] = g[k]}
<1>1. /\ \A k \in 0 .. n : f[k] = IF k = 0 THEN 1 ELSE 2 * f[k - 1]
      /\ \A k \in 0 .. m : g[k] = IF k = 0 THEN 1 ELSE 2 * g[k - 1]
  BY DEF Doubled
<1>2. 0 \in S /\ \A k \in 0 .. n : k \in S /\ k < n => k + 1 \in S
  BY <1>1
<1> HIDE DEF S
<1>3. 0 .. n \subseteq S
  BY <1>2, UpTo
<1> QED
  BY <1>3 DEF S

\* It doubles with every level.
LEMMA Lengths ==
    ASSUME NEW h \in Nat
    PROVE  /\ TargetLen(0) = 1
           /\ TargetLen(h + 1) = 2 * TargetLen(h)
<1>1. ASSUME NEW n \in Nat
      PROVE  \E f : Doubled(f, n) /\ TargetLen(n) = f[n]
  <2> DEFINE f == CHOOSE f : Doubled(f, n)
  <2>1. Doubled(f, n)
    BY DoubledExists, Zenon
  <2>2. TargetLen(n) = f[n]
    BY DEF TargetLen, Doubled
  <2> QED
    BY <2>1, <2>2, Zenon
<1>2. TargetLen(0) = 1
  BY <1>1 DEF Doubled
<1>3. PICK f : Doubled(f, h) /\ TargetLen(h) = f[h]
  BY <1>1
<1>4. PICK g : Doubled(g, h + 1) /\ TargetLen(h + 1) = g[h + 1]
  BY <1>1
<1>5. f[h] = g[h]
  BY <1>3, <1>4, DoubledAgrees
<1>6. g[h + 1] = 2 * g[h]
  BY <1>4 DEF Doubled
<1> QED
  BY <1>2, <1>3, <1>4, <1>5, <1>6

-----------------------------------------------------------------------------
(* Levels.                                                                 *)

Row(q) == q \in Seq({q[k] : k \in DOMAIN q})

LEMMA RowOf ==
    ASSUME NEW n \in Nat, NEW f, f = [k \in 1 .. n |-> f[k]]
    PROVE  Row(f) /\ Len(f) = n /\ DOMAIN f = 1 .. n
<1> DEFINE V == {f[k] : k \in DOMAIN f}
<1>1. f \in [1 .. n -> V] /\ DOMAIN f = 1 .. n
  OBVIOUS
<1> HIDE DEF V
<1>2. f \in Seq(V) /\ Len(f) = n
  BY <1>1
<1> QED
  BY <1>1, <1>2 DEF Row, V

LEMMA RowIs ==
    ASSUME NEW q, Row(q)
    PROVE  /\ Len(q) \in Nat /\ DOMAIN q = 1 .. Len(q)
           /\ q = [k \in 1 .. Len(q) |-> q[k]]
BY DEF Row

\* The next level is half as long, rounded up, and above each node stands the
\* hash of the node and its sibling.
LEMMA LevelAbove ==
    ASSUME NEW level, Row(level), Len(level) > 0
    PROVE  /\ Row(NextLevel(level))
           /\ Len(NextLevel(level)) = (Len(level) + 1) \div 2
           /\ Len(NextLevel(level)) > 0
           /\ \A k \in 1 .. Len(NextLevel(level)) :
                NextLevel(level)[k] =
                  HashNodes(level[2 * k - 1],
                            level[IF 2 * k <= Len(level) THEN 2 * k ELSE 2 * k - 1])
<1> PICK n \in Nat : n = Len(level)
  BY RowIs
<1> DEFINE next == NextLevel(level)
<1>1. next = [k \in 1 .. (n + 1) \div 2 |->
                HashNodes(level[2 * k - 1],
                          level[IF 2 * k <= n THEN 2 * k ELSE 2 * k - 1])]
  BY DEF NextLevel
<1>2. (n + 1) \div 2 \in Nat /\ (n + 1) \div 2 > 0
  BY DEF NextLevel
<1>3. next = [k \in 1 .. (n + 1) \div 2 |-> next[k]]
  BY <1>1
<1> HIDE DEF next
<1>4. Row(next) /\ Len(next) = (n + 1) \div 2
  BY <1>2, <1>3, RowOf
<1>5. \A k \in 1 .. Len(next) :
        next[k] = HashNodes(level[2 * k - 1],
                            level[IF 2 * k <= n THEN 2 * k ELSE 2 * k - 1])
  BY <1>1, <1>4
<1> QED
  BY <1>2, <1>4, <1>5 DEF next

\* One step up from node number idx.
LEMMA OneUp ==
    ASSUME NEW level, Row(level), NEW idx \in Nat, idx < Len(level)
    PROVE  /\ idx \div 2 \in Nat /\ idx \div 2 < Len(NextLevel(level))
           /\ NextLevel(level)[1 + (idx \div 2)] =
                IF idx % 2 = 0
                THEN HashNodes(level[1 + idx],
                       level[1 + IF SiblingOf(idx) < Len(level)
                                 THEN SiblingOf(idx) ELSE idx])
                ELSE HashNodes(level[1 + IF SiblingOf(idx) < Len(level)
                                         THEN SiblingOf(idx) ELSE idx],
                       level[1 + idx])
<1> PICK n \in Nat : n = Len(level)
  BY RowIs
<1> PICK k \in Nat : k = idx \div 2
  OBVIOUS
<1>1. /\ idx % 2 = 0 => idx = 2 * k
      /\ idx % 2 # 0 => idx = 2 * k + 1
      /\ k < (n + 1) \div 2
  OBVIOUS
<1>2. /\ Len(NextLevel(level)) = (n + 1) \div 2
      /\ \A i \in 1 .. (n + 1) \div 2 : NextLevel(level)[i] =
           HashNodes(level[2 * i - 1],
                     level[IF 2 * i <= n THEN 2 * i ELSE 2 * i - 1])
  <2>1. Len(level) > 0
    OBVIOUS
  <2>2. Len(NextLevel(level)) = (n + 1) \div 2
    BY <2>1, LevelAbove
  <2>3. \A i \in 1 .. Len(NextLevel(level)) : NextLevel(level)[i] =
           HashNodes(level[2 * i - 1],
                     level[IF 2 * i <= Len(level) THEN 2 * i ELSE 2 * i - 1])
    BY <2>1, LevelAbove
  <2> QED
    BY <2>2, <2>3
<1>3. k + 1 \in 1 .. (n + 1) \div 2
  BY <1>1
<1>4. NextLevel(level)[k + 1] =
        HashNodes(level[2 * (k + 1) - 1],
                  level[IF 2 * (k + 1) <= n THEN 2 * (k + 1) ELSE 2 * (k + 1) - 1])
  BY <1>2, <1>3
<1>5. CASE idx % 2 = 0
  <2>1. /\ 2 * (k + 1) - 1 = 1 + idx /\ SiblingOf(idx) = idx + 1
        /\ (IF 2 * (k + 1) <= n THEN 2 * (k + 1) ELSE 2 * (k + 1) - 1)
             = 1 + IF SiblingOf(idx) < n THEN SiblingOf(idx) ELSE idx
    BY <1>1, <1>5 DEF SiblingOf
  <2> QED
    BY <1>1, <1>2, <1>4, <1>5, <2>1
<1>6. CASE idx % 2 # 0
  <2>1. /\ 2 * (k + 1) - 1
             = 1 + IF SiblingOf(idx) < n THEN SiblingOf(idx) ELSE idx
        /\ (IF 2 * (k + 1) <= n THEN 2 * (k + 1) ELSE 2 * (k + 1) - 1) = 1 + idx
    BY <1>1, <1>6 DEF SiblingOf
  <2>2. NextLevel(level)[k + 1] =
          HashNodes(level[1 + IF SiblingOf(idx) < n THEN SiblingOf(idx) ELSE idx],
                    level[1 + idx])
    BY <1>4, <2>1
  <2>3. k < Len(NextLevel(level)) /\ 1 + (idx \div 2) = k + 1
    BY <1>1, <1>2
  <2> QED
    BY <1>6, <2>2, <2>3
<1> QED
  BY <1>5, <1>6

-----------------------------------------------------------------------------
(* Proofs.                                                                 *)

Climbs(node, leaf, index, proof, n) ==
    node = [height \in 0 .. n |->
              IF height = 0 THEN leaf
              ELSE IF AncestorOf(index, height - 1) % 2 = 0
                   THEN HashNodes(node[height - 1], proof[height])
                   ELSE HashNodes(proof[height], node[height - 1])]

LEMMA ClimbsExists ==
    ASSUME NEW leaf, NEW index, NEW proof, NEW n \in Nat
    PROVE  \E node : Climbs(node, leaf, index, proof, n)
<1> DEFINE S == {m \in Nat : \E f : Climbs(f, leaf, index, proof, m)}
<1>1. 0 \in S
  <2> DEFINE f == [k \in 0 .. 0 |-> leaf]
  <2>1. Climbs(f, leaf, index, proof, 0)
    BY DEF Climbs
  <2> QED
    BY <2>1, Zenon
<1>2. ASSUME NEW m \in Nat, NEW f, Climbs(f, leaf, index, proof, m)
      PROVE  \E g : Climbs(g, leaf, index, proof, m + 1)
  <2> DEFINE top == IF AncestorOf(index, m) % 2 = 0
                    THEN HashNodes(f[m], proof[m + 1])
                    ELSE HashNodes(proof[m + 1], f[m])
             g == [k \in 0 .. m + 1 |-> IF k = m + 1 THEN top ELSE f[k]]
  <2>1. \A k \in 0 .. m :
          f[k] = IF k = 0 THEN leaf
                 ELSE IF AncestorOf(index, k - 1) % 2 = 0
                      THEN HashNodes(f[k - 1], proof[k])
                      ELSE HashNodes(proof[k], f[k - 1])
    BY <1>2 DEF Climbs
  <2>2. \A k \in 0 .. m + 1 :
          g[k] = IF k = 0 THEN leaf
                 ELSE IF AncestorOf(index, k - 1) % 2 = 0
                      THEN HashNodes(g[k - 1], proof[k])
                      ELSE HashNodes(proof[k], g[k - 1])
    BY <2>1
  <2> HIDE DEF top
  <2>3. Climbs(g, leaf, index, proof, m + 1)
    BY <2>2 DEF Climbs
  <2> QED
    BY <2>3, Zenon
<1>3. \A k \in 0 .. n : k \in S /\ k < n => k + 1 \in S
  BY <1>2
<1> HIDE DEF S
<1>4. n \in S
  BY <1>1, <1>3, UpTo
<1> QED
  BY <1>4 DEF S

\* Each node is the hash of the one before and its part of the proof.
Upward(node, index, proof, n) ==
    \A h \in 0 .. n - 1 :
        node[h + 1] = IF AncestorOf(index, h) % 2 = 0
                      THEN HashNodes(node[h], proof[h + 1])
                      ELSE HashNodes(proof[h + 1], node[h])

\* A verifier starts at the leaf and goes up one node at a time.
LEMMA Climbing ==
    ASSUME NEW leaf, NEW index, NEW proof, NEW n \in Nat, Len(proof) = n
    PROVE  \E node : /\ Climb(leaf, index, proof) = node[n]
                     /\ node[0] = leaf
                     /\ Upward(node, index, proof, n)
<1> DEFINE node == CHOOSE f : Climbs(f, leaf, index, proof, Len(proof))
<1>1. Climbs(node, leaf, index, proof, Len(proof))
  BY ClimbsExists, Zenon
<1>2. Climb(leaf, index, proof) = node[Len(proof)]
  BY DEF Climb, Climbs
<1> HIDE DEF node
<1>3. node[0] = leaf
  BY <1>1 DEF Climbs
<1>4. ASSUME NEW h \in 0 .. n - 1
      PROVE  node[h + 1] = IF AncestorOf(index, h) % 2 = 0
                           THEN HashNodes(node[h], proof[h + 1])
                           ELSE HashNodes(proof[h + 1], node[h])
  <2>1. h + 1 \in 0 .. Len(proof) /\ h + 1 # 0 /\ h + 1 - 1 = h
    OBVIOUS
  <2> QED
    BY <1>1, <2>1 DEF Climbs
<1> QED
  BY <1>2, <1>3, <1>4 DEF Upward

\* Levels that stand on each other.
Chain(level, n) ==
    \A h \in 0 .. n :
        /\ Row(level[h]) /\ Len(level[h]) > 0
        /\ h < n => level[h + 1] = NextLevel(level[h])

\* A proof lists the sibling of each ancestor, or the ancestor itself.
Siblings(proof, level, index, n) ==
    /\ Len(proof) = n
    /\ \A h \in 0 .. n - 1 :
         proof[h + 1] =
           LET idx == AncestorOf(index, h)
           IN  level[h][1 + IF SiblingOf(idx) < Len(level[h])
                            THEN SiblingOf(idx) ELSE idx]

\* The proof of a leaf leads to the leaf's ancestor on every level.
LEMMA ClimbLeads ==
    ASSUME NEW n \in Nat, NEW level, Chain(level, n),
           NEW index \in Nat, index < Len(level[0]),
           NEW proof, Siblings(proof, level, index, n)
    PROVE  /\ AncestorOf(index, n) \in Nat
           /\ AncestorOf(index, n) < Len(level[n])
           /\ Climb(level[0][index + 1], index, proof)
                = level[n][1 + AncestorOf(index, n)]
<1> PICK node : /\ Climb(level[0][index + 1], index, proof) = node[n]
                /\ node[0] = level[0][index + 1]
                /\ Upward(node, index, proof, n)
  BY Climbing DEF Siblings
<1> DEFINE S == {h \in 0 .. n : /\ AncestorOf(index, h) \in Nat
                                /\ AncestorOf(index, h) < Len(level[h])
                                /\ node[h] = level[h][1 + AncestorOf(index, h)]}
<1>1. 0 \in S
  <2>1. AncestorOf(index, 0) = index
    BY Ancestors
  <2>2. node[0] = level[0][1 + index] /\ 0 \in 0 .. n
    OBVIOUS
  <2> QED
    BY <2>1, <2>2
<1>2. ASSUME NEW h \in 0 .. n, h \in S, h < n
      PROVE  h + 1 \in S
  <2> DEFINE idx == AncestorOf(index, h)
             here == level[h]
             pair == here[1 + IF SiblingOf(idx) < Len(here) THEN SiblingOf(idx) ELSE idx]
  <2>1. idx \in Nat /\ idx < Len(here) /\ node[h] = here[1 + idx]
    BY <1>2
  <2>2. Row(here) /\ level[h + 1] = NextLevel(here)
    BY <1>2 DEF Chain
  <2>3. proof[h + 1] = pair
    BY <1>2 DEF Siblings
  <2>4. AncestorOf(index, h + 1) = idx \div 2
    BY Ancestors
  <2>5. node[h + 1] = IF idx % 2 = 0 THEN HashNodes(node[h], pair)
                                     ELSE HashNodes(pair, node[h])
    BY <1>2, <2>3 DEF Upward
  <2> HIDE DEF idx, here
  <2>6. /\ idx \div 2 \in Nat /\ idx \div 2 < Len(NextLevel(here))
        /\ NextLevel(here)[1 + (idx \div 2)] =
             IF idx % 2 = 0 THEN HashNodes(here[1 + idx], pair)
                            ELSE HashNodes(pair, here[1 + idx])
    BY <2>1, <2>2, OneUp
  <2>7. node[h + 1] = NextLevel(here)[1 + (idx \div 2)]
    BY <2>1, <2>5, <2>6
  <2>8. h + 1 \in 0 .. n
    BY <1>2
  <2> QED
    BY <2>2, <2>4, <2>6, <2>7, <2>8
<1>3. \A h \in 0 .. n : h \in S /\ h < n => h + 1 \in S
  BY <1>2
<1> HIDE DEF S
<1>4. 0 .. n \subseteq S
  BY <1>1, <1>3, UpTo
<1> QED
  BY <1>4 DEF S

\* Two leaves that are climbed from with the same proof never meet.
LEMMA ClimbBinds ==
    ASSUME NEW n \in Nat, NEW index, NEW proof, Len(proof) = n,
           NEW leaf, NEW other,
           Climb(leaf, index, proof) = Climb(other, index, proof)
    PROVE  leaf = other
<1> PICK f : /\ Climb(leaf, index, proof) = f[n]
             /\ f[0] = leaf
             /\ Upward(f, index, proof, n)
  BY Climbing
<1> PICK g : /\ Climb(other, index, proof) = g[n]
             /\ g[0] = other
             /\ Upward(g, index, proof, n)
  BY Climbing
<1> SUFFICES ASSUME leaf # other PROVE FALSE
  OBVIOUS
<1> DEFINE S == {h \in 0 .. n : f[h] # g[h]}
<1>1. 0 \in S
  OBVIOUS
<1>2. ASSUME NEW h \in 0 .. n, h \in S, h < n
      PROVE  h + 1 \in S
  <2>1. f[h] # g[h] /\ h \in 0 .. n - 1 /\ h + 1 \in 0 .. n
    BY <1>2
  <2>2. CASE AncestorOf(index, h) % 2 = 0
    <3>1. /\ f[h + 1] = HashNodes(f[h], proof[h + 1])
          /\ g[h + 1] = HashNodes(g[h], proof[h + 1])
      BY <2>1, <2>2 DEF Upward
    <3> QED
      BY <2>1, <3>1 DEF HashNodes
  <2>3. CASE AncestorOf(index, h) % 2 # 0
    <3>1. /\ f[h + 1] = HashNodes(proof[h + 1], f[h])
          /\ g[h + 1] = HashNodes(proof[h + 1], g[h])
      BY <2>1, <2>3 DEF Upward
    <3> QED
      BY <2>1, <3>1 DEF HashNodes
  <2> QED
    BY <2>1, <2>2, <2>3
<1>3. \A h \in 0 .. n : h \in S /\ h < n => h + 1 \in S
  BY <1>2
<1> HIDE DEF S
<1>4. 0 .. n \subseteq S
  BY <1>1, <1>3, UpTo
<1>5. n \in S
  BY <1>4
<1>6. f[n] # g[n]
  BY <1>5 DEF S
<1> QED
  BY <1>6

-----------------------------------------------------------------------------
(* The tree of a batch.                                                    *)

\* Each level but the first stands on the one before, and the last one is the
\* current one.
TreeInv ==
    /\ Row(leaves) /\ Len(leaves) > 0
    /\ Row(tree) /\ Len(tree) > 0
    /\ tree[1] = leaves /\ current = tree[Len(tree)]
    /\ Chain([h \in 0 .. Len(tree) - 1 |-> tree[h + 1]], Len(tree) - 1)

\* What the chain of the tree says of its levels.
LEMMA TreeLevels ==
    ASSUME TreeInv
    PROVE  /\ Len(tree) \in Nat \ {0}
           /\ \A k \in 1 .. Len(tree) :
                /\ Row(tree[k]) /\ Len(tree[k]) > 0
                /\ k < Len(tree) => tree[k + 1] = NextLevel(tree[k])
<1> DEFINE level == [h \in 0 .. Len(tree) - 1 |-> tree[h + 1]]
<1> PICK n \in Nat : n = Len(tree) /\ n > 0
  BY RowIs DEF TreeInv
<1>1. Chain(level, n - 1) /\ level = [h \in 0 .. n - 1 |-> tree[h + 1]]
  BY DEF TreeInv
<1>2. \A h \in 0 .. n - 1 : level[h] = tree[h + 1]
  BY <1>1
<1> HIDE DEF level
<1>3. ASSUME NEW k \in 1 .. n
      PROVE  /\ Row(tree[k]) /\ Len(tree[k]) > 0
             /\ k < n => tree[k + 1] = NextLevel(tree[k])
  <2>1. k - 1 \in 0 .. n - 1 /\ level[k - 1] = tree[k]
    BY <1>2
  <2>2. /\ Row(level[k - 1]) /\ Len(level[k - 1]) > 0
        /\ k - 1 < n - 1 => level[k - 1 + 1] = NextLevel(level[k - 1])
    BY <1>1, <2>1 DEF Chain
  <2>3. k < n => level[k - 1 + 1] = tree[k + 1]
    BY <1>2
  <2> QED
    BY <2>1, <2>2, <2>3
<1> QED
  BY <1>3

LEMMA TreeInit == New => TreeInv
<1> SUFFICES ASSUME New PROVE TreeInv
  OBVIOUS
<1>1. Row(leaves) /\ leaves # <<>>
  BY TreeAssumption DEF New, Row
<1>2. Len(leaves) > 0
  BY <1>1 DEF Row
<1>3. Row(tree) /\ Len(tree) = 1 /\ tree[1] = leaves
  <2>1. tree = [k \in 1 .. 1 |-> leaves]
    BY DEF New
  <2>2. tree = [k \in 1 .. 1 |-> tree[k]] /\ tree[1] = leaves
    BY <2>1
  <2> QED
    BY <2>2, RowOf
<1>4. Chain([h \in 0 .. Len(tree) - 1 |-> tree[h + 1]], Len(tree) - 1)
  BY <1>1, <1>2, <1>3 DEF Chain
<1> QED
  BY <1>1, <1>2, <1>3, <1>4 DEF TreeInv, New

LEMMA TreeStep == TreeInv /\ [AddLevel]_treeVars => TreeInv'
<1> SUFFICES ASSUME TreeInv, AddLevel PROVE TreeInv'
  BY DEF TreeInv, treeVars
<1> PICK n \in Nat : n = Len(tree) /\ n > 0
  BY RowIs DEF TreeInv
<1>1. /\ tree' = Append(tree, NextLevel(current))
      /\ current' = NextLevel(current) /\ leaves' = leaves
  BY DEF AddLevel
<1>2. /\ Row(tree') /\ Len(tree') = n + 1
      /\ \A k \in 1 .. n : tree'[k] = tree[k]
      /\ tree'[n + 1] = NextLevel(current)
  <2> DEFINE V == {tree[k] : k \in DOMAIN tree} \cup {NextLevel(current)}
  <2>1. tree \in Seq({tree[k] : k \in DOMAIN tree})
    BY DEF TreeInv, Row
  <2>2. tree \in Seq(V)
    BY <2>1
  <2>3. NextLevel(current) \in V
    OBVIOUS
  <2> HIDE DEF V
  <2>4. /\ tree' \in Seq(V) /\ Len(tree') = n + 1
        /\ \A k \in 1 .. n : tree'[k] = tree[k]
        /\ tree'[n + 1] = NextLevel(current)
    BY <1>1, <2>2, <2>3
  <2>5. tree' = [k \in 1 .. n + 1 |-> tree'[k]]
    BY <2>4
  <2> QED
    BY <2>4, <2>5, RowOf
<1>3. /\ \A k \in 1 .. n : /\ Row(tree[k]) /\ Len(tree[k]) > 0
                           /\ k < n => tree[k + 1] = NextLevel(tree[k])
      /\ current = tree[n]
  BY TreeLevels DEF TreeInv
<1>4. Row(NextLevel(current)) /\ Len(NextLevel(current)) > 0
  BY <1>3, LevelAbove
<1>5. Chain([h \in 0 .. n |-> tree'[h + 1]], n)
  <2> DEFINE level == [h \in 0 .. n |-> tree'[h + 1]]
  <2>1. ASSUME NEW h \in 0 .. n
        PROVE  /\ Row(level[h]) /\ Len(level[h]) > 0
               /\ h < n => level[h + 1] = NextLevel(level[h])
    <3>1. CASE h = n
      BY <1>2, <1>4, <3>1
    <3>2. CASE h < n
      <4>1. h + 1 \in 1 .. n /\ level[h] = tree[h + 1] /\ level[h + 1] = tree'[h + 2]
        BY <1>2, <3>2
      <4>2. tree'[h + 2] = NextLevel(tree[h + 1])
        <5>1. CASE h + 1 = n
          BY <1>2, <1>3, <5>1
        <5>2. CASE h + 1 < n
          <6>1. h + 2 \in 1 .. n /\ h + 1 \in 1 .. n /\ h + 2 = h + 1 + 1
            BY <5>2
          <6> QED
            BY <1>2, <1>3, <5>2, <6>1
        <5> QED
          BY <3>2, <5>1, <5>2
      <4> QED
        BY <1>3, <4>1, <4>2
    <3> QED
      BY <3>1, <3>2
  <2> HIDE DEF level
  <2> QED
    BY <2>1 DEF Chain, level
<1>6. Len(tree') - 1 = n
  BY <1>2
<1>7. tree'[1] = leaves' /\ current' = tree'[Len(tree')] /\ Len(tree') > 0
  BY <1>1, <1>2 DEF TreeInv
<1>8. Chain([h \in 0 .. Len(tree') - 1 |-> tree'[h + 1]], Len(tree') - 1)
  BY <1>5, <1>6
<1>9. Row(leaves') /\ Len(leaves') > 0
  BY <1>1 DEF TreeInv
<1> QED
  BY <1>2, <1>7, <1>8, <1>9 DEF TreeInv

LEMMA TreeInvariant == TreeSpec => []TreeInv
BY TreeInit, TreeStep, PTL DEF TreeSpec

LEMMA ProofOfLeaf ==
    ASSUME TreeInv, NEW index \in Indices
    PROVE  /\ AncestorOf(index, Len(tree) - 1) \in Nat
           /\ AncestorOf(index, Len(tree) - 1) < Len(tree[Len(tree)])
           /\ Climb(leaves[index + 1], index, GetProof(index))
                = tree[Len(tree)][1 + AncestorOf(index, Len(tree) - 1)]
           /\ Len(GetProof(index)) = Len(tree) - 1
<1> PICK n \in Nat : n + 1 = Len(tree)
  <2>1. Len(tree) \in Nat \ {0}
    BY TreeLevels
  <2>2. Len(tree) - 1 \in Nat /\ Len(tree) - 1 + 1 = Len(tree)
    BY <2>1
  <2> QED
    BY <2>2
<1> DEFINE level == [h \in 0 .. n |-> tree[h + 1]]
           proof == GetProof(index)
<1>0. Len(tree) - 1 = n
  OBVIOUS
<1>1. Chain(level, n)
  BY <1>0 DEF TreeInv
<1>2. \A h \in 0 .. n : level[h] = tree[h + 1]
  OBVIOUS
<1>3. level[0] = leaves /\ level[n] = tree[Len(tree)]
  BY <1>2 DEF TreeInv
<1>4. index \in Nat /\ index < Len(level[0])
  <2>1. Len(leaves) \in Nat
    BY RowIs DEF TreeInv
  <2> QED
    BY <1>3, <2>1 DEF Indices
<1>5. proof = [height \in 1 .. n |->
                LET idx == AncestorOf(index, height - 1)
                    sibling == SiblingOf(idx)
                IN  tree[height][1 + IF sibling < Len(tree[height]) THEN sibling ELSE idx]]
  BY <1>0 DEF GetProof
<1>6. Len(proof) = n
  <2>1. proof = [k \in 1 .. n |-> proof[k]]
    BY <1>5
  <2> HIDE DEF proof
  <2> QED
    BY <2>1, RowOf
<1> HIDE DEF level, proof
<1>7. Siblings(proof, level, index, n)
  <2>1. ASSUME NEW h \in 0 .. n - 1
        PROVE  proof[h + 1] =
                 LET idx == AncestorOf(index, h)
                 IN  level[h][1 + IF SiblingOf(idx) < Len(level[h])
                                  THEN SiblingOf(idx) ELSE idx]
    <3>1. h + 1 \in 1 .. n /\ h + 1 - 1 = h /\ level[h] = tree[h + 1]
      BY <1>2
    <3> QED
      BY <1>5, <3>1
  <2> QED
    BY <1>6, <2>1 DEF Siblings
<1>8. /\ AncestorOf(index, n) \in Nat /\ AncestorOf(index, n) < Len(level[n])
      /\ Climb(level[0][index + 1], index, proof) = level[n][1 + AncestorOf(index, n)]
  BY <1>1, <1>4, <1>7, ClimbLeads
<1> QED
  BY <1>0, <1>3, <1>6, <1>8 DEF proof

LEMMA ProofsLead == TreeInv => ProofsLeadToRoot
<1> SUFFICES ASSUME TreeInv, NEW index \in Indices
             PROVE  /\ Climb(leaves[index + 1], index, GetProof(index))
                         = tree[Len(tree)][1 + AncestorOf(index, Len(tree) - 1)]
                    /\ Built => Climb(leaves[index + 1], index, GetProof(index))
                                  = GetRoot
  BY DEF ProofsLeadToRoot
<1>1. Built => AncestorOf(index, Len(tree) - 1) = 0
  <2>1. Len(tree[Len(tree)]) \in Nat /\ current = tree[Len(tree)]
    BY TreeLevels, RowIs DEF TreeInv
  <2> QED
    BY <2>1, ProofOfLeaf DEF Built
<1> QED
  BY <1>1, ProofOfLeaf DEF GetRoot

\* On every level reached so far the proof of a leaf leads to its ancestor, and
\* in the end to the root, for every number of leaves (merkle.rs:37).
THEOREM LeavesAreProved == TreeSpec => []ProofsLeadToRoot
<1>1. TreeInv => ProofsLeadToRoot
  BY ProofsLead
<1> QED
  BY <1>1, TreeInvariant, PTL

\* A proof leads to the root for no other leaf of the batch.
THEOREM ProofsAreBinding == TreeSpec => []ProofsBind
<1>1. TreeInv => ProofsBind
  <2> SUFFICES ASSUME TreeInv, Built, NEW index \in Indices, NEW other,
                      Climb(other, index, GetProof(index)) = GetRoot
               PROVE  other = leaves[index + 1]
    BY DEF ProofsBind
  <2>1. Climb(leaves[index + 1], index, GetProof(index)) = GetRoot
    BY ProofsLead DEF ProofsLeadToRoot
  <2>2. Len(GetProof(index)) \in Nat
    <3>1. Len(GetProof(index)) = Len(tree) - 1 /\ Len(tree) \in Nat \ {0}
      BY ProofOfLeaf, TreeLevels
    <3> QED
      BY <3>1
  <2> QED
    BY <2>1, <2>2, ClimbBinds
<1> QED
  BY <1>1, TreeInvariant, PTL

-----------------------------------------------------------------------------
(* The reference tree.                                                     *)

Stands(row, n) ==
    row = [k \in 0 .. n |->
            IF k = 0 THEN [j \in 0 .. WidthOf(0) - 1 |-> leaves[j + 1]]
            ELSE [j \in 0 .. WidthOf(k) - 1 |->
                    HashNodes(row[k - 1][2 * j],
                              row[k - 1][IF 2 * j + 1 < WidthOf(k - 1)
                                         THEN 2 * j + 1 ELSE 2 * j])]]

LEMMA StandsExists ==
    ASSUME NEW n \in Nat
    PROVE  \E f : Stands(f, n)
<1> DEFINE S == {m \in Nat : \E f : Stands(f, m)}
           first == [j \in 0 .. WidthOf(0) - 1 |-> leaves[j + 1]]
<1>1. 0 \in S
  <2> DEFINE f == [k \in 0 .. 0 |-> first]
  <2>1. Stands(f, 0)
    BY DEF Stands
  <2> QED
    BY <2>1, Zenon
<1>2. ASSUME NEW m \in Nat, NEW f, Stands(f, m)
      PROVE  \E g : Stands(g, m + 1)
  <2> DEFINE Above(r, k) == [j \in 0 .. WidthOf(k) - 1 |->
                              HashNodes(r[2 * j],
                                        r[IF 2 * j + 1 < WidthOf(k - 1)
                                          THEN 2 * j + 1 ELSE 2 * j])]
             top == Above(f[m], m + 1)
             g == [k \in 0 .. m + 1 |-> IF k = m + 1 THEN top ELSE f[k]]
  <2>1. f = [k \in 0 .. m |-> IF k = 0 THEN first ELSE Above(f[k - 1], k)]
    BY <1>2 DEF Stands
  <2>2. Stands(g, m + 1) <=>
          g = [k \in 0 .. m + 1 |-> IF k = 0 THEN first ELSE Above(g[k - 1], k)]
    BY DEF Stands
  <2> HIDE DEF first, Above
  <2>3. \A k \in 0 .. m : f[k] = IF k = 0 THEN first ELSE Above(f[k - 1], k)
    BY <2>1
  <2>4. ASSUME NEW k \in 0 .. m + 1
        PROVE  g[k] = IF k = 0 THEN first ELSE Above(g[k - 1], k)
    <3>1. CASE k = m + 1
      BY <3>1
    <3>2. CASE k # m + 1
      BY <2>3, <3>2
    <3> QED
      BY <3>1, <3>2
  <2>5. g = [k \in 0 .. m + 1 |-> IF k = 0 THEN first ELSE Above(g[k - 1], k)]
    BY <2>4
  <2> QED
    BY <2>2, <2>5, Zenon
<1>3. \A k \in 0 .. n : k \in S /\ k < n => k + 1 \in S
  BY <1>2
<1> HIDE DEF S
<1>4. 0 .. n \subseteq S
  BY <1>1, <1>3, UpTo
<1> QED
  BY <1>4 DEF S

OfPairs(row, n) ==
    \A k \in 0 .. n - 1 : \A j \in 0 .. WidthOf(k + 1) - 1 :
        row[k + 1][j] =
          HashNodes(row[k][2 * j],
                    row[k][IF 2 * j + 1 < WidthOf(k) THEN 2 * j + 1 ELSE 2 * j])

\* A level of the reference tree is made of the level below.
LEMMA References ==
    ASSUME NEW n \in Nat
    PROVE  \E row : /\ NodesOf(n) = row[n]
                    /\ row[0] = [j \in 0 .. WidthOf(0) - 1 |-> leaves[j + 1]]
                    /\ OfPairs(row, n)
<1> DEFINE row == CHOOSE f : Stands(f, n)
<1>1. Stands(row, n)
  BY StandsExists, Zenon
<1>2. NodesOf(n) = row[n]
  BY DEF NodesOf, Stands
<1> HIDE DEF row
<1>3. row[0] = [j \in 0 .. WidthOf(0) - 1 |-> leaves[j + 1]]
  BY <1>1 DEF Stands
<1> DEFINE first == [j \in 0 .. WidthOf(0) - 1 |-> leaves[j + 1]]
           Above(r, k) == [j \in 0 .. WidthOf(k) - 1 |->
                            HashNodes(r[2 * j],
                                      r[IF 2 * j + 1 < WidthOf(k - 1)
                                        THEN 2 * j + 1 ELSE 2 * j])]
<1>4. row = [k \in 0 .. n |-> IF k = 0 THEN first ELSE Above(row[k - 1], k)]
  BY <1>1 DEF Stands
<1>5. ASSUME NEW k \in 0 .. n - 1, NEW j \in 0 .. WidthOf(k + 1) - 1
      PROVE  row[k + 1][j] =
               HashNodes(row[k][2 * j],
                         row[k][IF 2 * j + 1 < WidthOf(k) THEN 2 * j + 1 ELSE 2 * j])
  <2> HIDE DEF Above, first
  <2>1. k + 1 \in 0 .. n /\ k + 1 # 0 /\ k + 1 - 1 = k
    OBVIOUS
  <2>2. row[k + 1] = Above(row[k], k + 1)
    BY <1>4, <2>1
  <2> QED
    BY <2>1, <2>2 DEF Above
<1>6. OfPairs(row, n)
  BY <1>5 DEF OfPairs
<1> QED
  BY <1>2, <1>3, <1>6

\* Every level is that of the reference tree, and none of its nodes is missing
\* (merkle.rs:13).
THEOREM LevelsAreComplete == TreeSpec => []LevelsAreRight
<1>1. ASSUME TreeInv, NEW n \in Nat, n < Len(tree)
      PROVE  /\ Len(tree[n + 1]) = WidthOf(n)
             /\ \A j \in 1 .. Len(tree[n + 1]) : tree[n + 1][j] = NodesOf(n)[j - 1]
  <2> PICK row : /\ NodesOf(n) = row[n]
                 /\ row[0] = [j \in 0 .. WidthOf(0) - 1 |-> leaves[j + 1]]
                 /\ OfPairs(row, n)
    BY References
  <2> DEFINE S == {k \in 0 .. n :
                     /\ Len(tree[k + 1]) = WidthOf(k)
                     /\ \A j \in 1 .. Len(tree[k + 1]) : tree[k + 1][j] = row[k][j - 1]}
  <2>1. 0 \in S
    <3>1. WidthOf(0) = Len(leaves) /\ tree[1] = leaves
      BY <1>1, Widths DEF TreeInv
    <3>2. \A j \in 1 .. Len(leaves) : leaves[j] = row[0][j - 1]
      BY <1>1, <3>1, RowIs DEF TreeInv
    <3> QED
      BY <3>1, <3>2
  <2>2. ASSUME NEW k \in 0 .. n, k \in S, k < n
        PROVE  k + 1 \in S
    <3> DEFINE below == tree[k + 1]
    <3> PICK w \in Nat : w = Len(below)
      BY <1>1, <2>2, TreeLevels, RowIs
    <3>1. /\ Row(below) /\ w > 0 /\ tree[k + 2] = NextLevel(below)
          /\ w = WidthOf(k) /\ \A j \in 1 .. w : below[j] = row[k][j - 1]
      <4>1. k + 1 \in 1 .. Len(tree) /\ k + 1 < Len(tree) /\ k + 1 + 1 = k + 2
        BY <1>1, <2>2, TreeLevels
      <4> QED
        BY <1>1, <2>2, <4>1, TreeLevels
    <3> HIDE DEF below
    <3>2. /\ Len(NextLevel(below)) = (w + 1) \div 2
          /\ \A i \in 1 .. Len(NextLevel(below)) : NextLevel(below)[i] =
               HashNodes(below[2 * i - 1],
                         below[IF 2 * i <= Len(below) THEN 2 * i ELSE 2 * i - 1])
      BY <3>1, LevelAbove
    <3>3. WidthOf(k + 1) = (w + 1) \div 2
      <4>1. WidthOf(k + 1) = (WidthOf(k) + 1) \div 2
        BY Widths
      <4> QED
        BY <3>1, <4>1
    <3>4. ASSUME NEW i \in 1 .. (w + 1) \div 2
          PROVE  NextLevel(below)[i] = row[k + 1][i - 1]
      <4>1. i - 1 \in 0 .. WidthOf(k + 1) - 1 /\ k \in 0 .. n - 1
        BY <2>2, <3>3
      <4>2. row[k + 1][i - 1] =
              HashNodes(row[k][2 * (i - 1)],
                        row[k][IF 2 * (i - 1) + 1 < WidthOf(k)
                               THEN 2 * (i - 1) + 1 ELSE 2 * (i - 1)])
        BY <4>1 DEF OfPairs
      <4>3. /\ 2 * i - 1 \in 1 .. w /\ 2 * i - 1 - 1 = 2 * (i - 1)
            /\ 2 * i <= w => 2 * i \in 1 .. w /\ 2 * i - 1 = 2 * (i - 1) + 1
            /\ 2 * i <= w <=> 2 * (i - 1) + 1 < WidthOf(k)
        BY <3>1
      <4>4. /\ below[2 * i - 1] = row[k][2 * (i - 1)]
            /\ 2 * i <= w => below[2 * i] = row[k][2 * (i - 1) + 1]
        BY <3>1, <4>3
      <4> QED
        BY <3>2, <4>2, <4>3, <4>4
    <3>5. k + 1 \in 0 .. n /\ k + 1 + 1 = k + 2
      BY <2>2
    <3> QED
      BY <3>1, <3>2, <3>3, <3>4, <3>5
  <2>3. \A k \in 0 .. n : k \in S /\ k < n => k + 1 \in S
    BY <2>2
  <2> HIDE DEF S
  <2>4. 0 .. n \subseteq S
    BY <2>1, <2>3, UpTo
  <2>5. n \in S
    BY <2>4
  <2> QED
    BY <2>5 DEF S
<1>2. TreeInv => LevelsAreRight
  <2> SUFFICES ASSUME TreeInv, NEW k \in 1 .. Len(tree)
               PROVE  /\ Len(tree[k]) = WidthOf(k - 1)
                      /\ \A j \in 1 .. Len(tree[k]) : tree[k][j] = NodesOf(k - 1)[j - 1]
    BY DEF LevelsAreRight
  <2>1. k - 1 \in Nat /\ k - 1 < Len(tree) /\ k - 1 + 1 = k
    BY TreeLevels
  <2> QED
    BY <1>1, <2>1
<1> QED
  BY <1>2, TreeInvariant, PTL

-----------------------------------------------------------------------------
(* The tree of fixed depth.                                                *)

LEMMA TargetLens ==
    ASSUME NEW n \in Nat
    PROVE  TargetLen(n) \in Nat /\ TargetLen(n) > 0
<1> DEFINE S == {d \in 0 .. n : TargetLen(d) \in Nat /\ TargetLen(d) > 0}
<1>1. TargetLen(0) = 1
  BY Lengths
<1>2. ASSUME NEW d \in 0 .. n, d \in S, d < n
      PROVE  d + 1 \in S
  <2>1. TargetLen(d + 1) = 2 * TargetLen(d)
    BY Lengths
  <2> QED
    BY <1>2, <2>1
<1>3. 0 \in S /\ \A k \in 0 .. n : k \in S /\ k < n => k + 1 \in S
  BY <1>1, <1>2
<1> HIDE DEF S
<1>4. 0 .. n \subseteq S
  BY <1>3, UpTo
<1>5. n \in S
  BY <1>4
<1> QED
  BY <1>5 DEF S

Tower(f, n) == f = [h \in 0 .. n |-> IF h = 0 THEN Padded ELSE NextLevel(f[h - 1])]

LEMMA TowerExists ==
    ASSUME NEW n \in Nat
    PROVE  \E f : Tower(f, n)
<1> DEFINE S == {m \in Nat : \E f : Tower(f, m)}
<1>1. 0 \in S
  <2> DEFINE f == [k \in 0 .. 0 |-> Padded]
  <2>1. Tower(f, 0)
    BY DEF Tower
  <2> QED
    BY <2>1, Zenon
<1>2. ASSUME NEW m \in Nat, NEW f, Tower(f, m)
      PROVE  \E g : Tower(g, m + 1)
  <2> DEFINE g == [k \in 0 .. m + 1 |-> IF k = m + 1 THEN NextLevel(f[m]) ELSE f[k]]
  <2>1. \A k \in 0 .. m : f[k] = IF k = 0 THEN Padded ELSE NextLevel(f[k - 1])
    BY <1>2 DEF Tower
  <2>2. \A k \in 0 .. m + 1 : g[k] = IF k = 0 THEN Padded ELSE NextLevel(g[k - 1])
    BY <2>1
  <2>3. Tower(g, m + 1)
    BY <2>2 DEF Tower
  <2> QED
    BY <2>3, Zenon
<1>3. \A k \in 0 .. n : k \in S /\ k < n => k + 1 \in S
  BY <1>2
<1> HIDE DEF S
<1>4. 0 .. n \subseteq S
  BY <1>1, <1>3, UpTo
<1> QED
  BY <1>4 DEF S

\* The levels of the padded tree halve exactly, down to one node.
LEMMA PaddedHalves ==
    /\ Chain(PaddedLevels, Depth)
    /\ PaddedLevels[0] = Padded
    /\ \A h \in 0 .. Depth : Len(PaddedLevels[h]) = TargetLen(Depth - h)
<1> USE TreeAssumption
<1> DEFINE level == CHOOSE f : Tower(f, Depth)
<1>1. Tower(level, Depth)
  BY TowerExists, Zenon
<1>2. PaddedLevels = level
  BY DEF PaddedLevels, Tower
<1> HIDE DEF level
<1>3. level[0] = Padded
  BY <1>1 DEF Tower
<1>4. ASSUME NEW h \in 0 .. Depth, h < Depth
      PROVE  level[h + 1] = NextLevel(level[h])
  <2>1. h + 1 \in 0 .. Depth /\ h + 1 # 0 /\ h + 1 - 1 = h
    BY <1>4
  <2> QED
    BY <1>1, <2>1 DEF Tower
<1> DEFINE S == {h \in 0 .. Depth : Row(level[h]) /\ Len(level[h]) = TargetLen(Depth - h)}
<1>5. 0 \in S
  <2>1. TargetLen(Depth) \in Nat
    BY TargetLens
  <2>2. Padded = [k \in 1 .. TargetLen(Depth) |-> Padded[k]]
    BY DEF Padded
  <2>3. Row(Padded) /\ Len(Padded) = TargetLen(Depth)
    BY <2>1, <2>2, RowOf
  <2> QED
    BY <1>3, <2>3
<1>6. ASSUME NEW h \in 0 .. Depth, h \in S, h < Depth
      PROVE  h + 1 \in S
  <2>1. PICK d \in Nat : d + 1 = Depth - h /\ d = Depth - (h + 1)
    <3>1. Depth - h - 1 \in Nat /\ Depth - h - 1 + 1 = Depth - h
          /\ Depth - h - 1 = Depth - (h + 1)
      BY <1>6
    <3> QED
      BY <3>1
  <2>2. /\ TargetLen(d + 1) = 2 * TargetLen(d)
        /\ TargetLen(d) \in Nat /\ TargetLen(d) > 0
    BY Lengths, TargetLens
  <2>3. Row(level[h]) /\ Len(level[h]) = 2 * TargetLen(d)
    BY <1>6, <2>1, <2>2
  <2>4. Len(level[h]) > 0
    BY <2>2, <2>3
  <2>5. /\ Row(NextLevel(level[h]))
        /\ Len(NextLevel(level[h])) = (Len(level[h]) + 1) \div 2
    BY <2>3, <2>4, LevelAbove
  <2>6. Len(NextLevel(level[h])) = TargetLen(d)
    BY <2>2, <2>3, <2>5
  <2> QED
    BY <1>4, <1>6, <2>1, <2>5, <2>6
<1>7. \A k \in 0 .. Depth : k \in S /\ k < Depth => k + 1 \in S
  BY <1>6
<1> HIDE DEF S
<1>8. 0 .. Depth \subseteq S
  BY <1>5, <1>7, UpTo
<1>9. \A h \in 0 .. Depth : Row(level[h]) /\ Len(level[h]) = TargetLen(Depth - h)
  BY <1>8 DEF S
<1>10. \A h \in 0 .. Depth : TargetLen(Depth - h) > 0
  <2>1. \A h \in 0 .. Depth : Depth - h \in Nat
    OBVIOUS
  <2> QED
    BY <2>1, TargetLens
<1>11. Chain(level, Depth)
  BY <1>4, <1>9, <1>10 DEF Chain
<1> QED
  BY <1>2, <1>3, <1>9, <1>11

\* An ancestor is a node of its level.
LEMMA AncestorsFit ==
    ASSUME NEW n \in Nat, NEW level, Chain(level, n),
           NEW index \in Nat, index < Len(level[0])
    PROVE  \A h \in 0 .. n : /\ AncestorOf(index, h) \in Nat
                             /\ AncestorOf(index, h) < Len(level[h])
<1> DEFINE S == {h \in 0 .. n : /\ AncestorOf(index, h) \in Nat
                                /\ AncestorOf(index, h) < Len(level[h])}
<1>1. 0 \in S
  <2>1. AncestorOf(index, 0) = index
    BY Ancestors
  <2> QED
    BY <2>1
<1>2. ASSUME NEW h \in 0 .. n, h \in S, h < n
      PROVE  h + 1 \in S
  <2> PICK idx \in Nat : idx = AncestorOf(index, h)
    BY <1>2
  <2>1. /\ Row(level[h]) /\ level[h + 1] = NextLevel(level[h])
        /\ idx < Len(level[h])
    BY <1>2 DEF Chain
  <2>2. AncestorOf(index, h + 1) = idx \div 2
    BY Ancestors
  <2>3. idx \div 2 \in Nat /\ idx \div 2 < Len(NextLevel(level[h]))
    BY <2>1, OneUp
  <2>4. h + 1 \in 0 .. n
    BY <1>2
  <2> QED
    BY <2>1, <2>2, <2>3, <2>4
<1>3. \A h \in 0 .. n : h \in S /\ h < n => h + 1 \in S
  BY <1>2
<1> HIDE DEF S
<1>4. 0 .. n \subseteq S
  BY <1>1, <1>3, UpTo
<1> QED
  BY <1>4 DEF S

\* The path of an agent leads to the root that is anchored, as long as there
\* are no more agents than leaves (merkle_service.py:83).
THEOREM PathsAreProofs == TreeSpec => []PathsLeadToStateRoot
<1>1. ASSUME TreeInv, Len(leaves) <= TargetLen(Depth), NEW index \in Indices
      PROVE  Climb(leaves[index + 1], index, MerklePath(index)) = StateRoot
  <2> DEFINE level == PaddedLevels
             path == MerklePath(index)
  <2> USE TreeAssumption
  <2>1. TargetLen(Depth) \in Nat /\ Len(leaves) \in Nat
    BY <1>1, TargetLens, RowIs DEF TreeInv
  <2>2. /\ Chain(level, Depth) /\ level[0] = Padded
        /\ \A h \in 0 .. Depth : Len(level[h]) = TargetLen(Depth - h)
    BY PaddedHalves
  <2>3. index \in Nat /\ index < Len(leaves) /\ index < Len(level[0])
    BY <1>1, <2>1, <2>2 DEF Indices
  <2>4. level[0][index + 1] = leaves[index + 1]
    BY <1>1, <2>1, <2>2, <2>3 DEF Padded
  <2>5. /\ path = [height \in 1 .. Depth |->
                     level[height - 1][1 + SiblingOf(AncestorOf(index, height - 1))]]
        /\ StateRoot = level[Depth][1]
    BY DEF MerklePath, StateRoot
  <2> HIDE DEF level, path
  <2>6. Len(path) = Depth
    <3>1. path = [k \in 1 .. Depth |-> path[k]]
      BY <2>5
    <3> QED
      BY <3>1, RowOf
  <2>7. \A h \in 0 .. Depth : /\ AncestorOf(index, h) \in Nat
                              /\ AncestorOf(index, h) < Len(level[h])
    BY <2>2, <2>3, AncestorsFit
  <2>8. ASSUME NEW h \in 0 .. Depth - 1
        PROVE  /\ path[h + 1] = level[h][1 + SiblingOf(AncestorOf(index, h))]
               /\ SiblingOf(AncestorOf(index, h)) < Len(level[h])
    <3>1. h + 1 \in 1 .. Depth /\ h + 1 - 1 = h /\ h \in 0 .. Depth
      OBVIOUS
    <3>2. Depth - h - 1 \in Nat /\ Depth - h - 1 + 1 = Depth - h
      OBVIOUS
    <3> PICK d \in Nat : d + 1 = Depth - h
      BY <3>2
    <3>3. TargetLen(d + 1) = 2 * TargetLen(d) /\ TargetLen(d) \in Nat
      BY Lengths, TargetLens
    <3> PICK half \in Nat : Len(level[h]) = 2 * half
      BY <2>2, <3>1, <3>3
    <3> PICK idx \in Nat : idx = AncestorOf(index, h) /\ idx < 2 * half
      BY <2>7, <3>1
    <3>4. SiblingOf(idx) < 2 * half
      BY DEF SiblingOf
    <3> QED
      BY <2>5, <3>1, <3>4
  <2>9. Siblings(path, level, index, Depth)
    BY <2>6, <2>8 DEF Siblings
  <2>10. Climb(leaves[index + 1], index, path)
           = level[Depth][1 + AncestorOf(index, Depth)]
    <3>1. Climb(level[0][index + 1], index, path)
            = level[Depth][1 + AncestorOf(index, Depth)]
      BY <2>2, <2>3, <2>9, ClimbLeads
    <3> QED
      BY <2>4, <3>1
  <2>11. AncestorOf(index, Depth) = 0
    <3>1. Len(level[Depth]) = 1
      <4>1. Len(level[Depth]) = TargetLen(Depth - Depth) /\ Depth - Depth = 0
        BY <2>2
      <4> QED
        BY <4>1, Lengths
    <3>2. AncestorOf(index, Depth) \in Nat /\ AncestorOf(index, Depth) < Len(level[Depth])
      BY <2>7
    <3> QED
      BY <3>1, <3>2
  <2> QED
    BY <2>5, <2>10, <2>11 DEF path
<1>2. TreeInv => PathsLeadToStateRoot
  BY <1>1 DEF PathsLeadToStateRoot
<1> QED
  BY <1>2, TreeInvariant, PTL
=============================================================================
