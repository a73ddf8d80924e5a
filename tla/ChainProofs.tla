---------------------------- MODULE ChainProofs ----------------------------
(***************************************************************************)
(* Proofs about OracleChain, for any senders, agents, contracts and number *)
(* of requests.                                                            *)
(***************************************************************************)
EXTENDS OracleChain, TLAPS

USE SendersAssumption, RequestsAssumption, NoneAssumption

\* Who makes which calls, and where.
JobOK(s, j) ==
    /\ j \in Jobs
    /\ j.at # "idle" => j.call \in Calls
    /\ j.at \in {"wait", "insert"} => s = "api" /\ j.call.kind \in Deployments
    /\ j.at \in {"commit", "commit unsent"} => s = "api" /\ j.call.kind = "stake"
    /\ j.at # "idle" /\ j.call.kind \in AgentCalls \cup Deployments => s = "api"

CallInv == job \in [Senders -> Jobs] /\ \A s \in Senders : JobOK(s, job[s])

ChainTypeOK == TablesOK /\ CallInv

\* An agent that the API's call j registers is owed until the call is accepted;
\* a stake's row exists.
AgentJob(j, o, r) ==
    /\ j.at \in {"ready", "signed"} /\ j.call.kind = "register" =>
          j.call.about \in o /\ r[j.call.about] = "active"
    /\ j.at # "idle" /\ j.call.kind = "stake" => r[j.call.about] # "none"

\* A stake that was accepted is on its way to the chain before its row; what
\* the chain says of every other agent that is not owed is what its row says.
AgentRow(a, j, coming, r) ==
    IF j.at = "commit" /\ j.call.about = a THEN coming = 450
    ELSE \/ j.at = "commit unsent" /\ j.call.about = a
         \/ coming = Expected(r[a])

AgentInv ==
    /\ AgentJob(job["api"], owed, row)
    /\ \A a \in Agents \ owed : AgentRow(a, job["api"], Coming(a), row)

\* A listed contract, and one about to be listed, was deployed.
ContractInv ==
    /\ TrackedContractsExist
    /\ \A s \in Senders :
          job[s].at = "insert" =>
             job[s].call.kind = "custom" \/ job[s].call.about \in deployed

\* No row of the first root is later than in the second.
AtMost(r, t) == r # None => \A a \in Agents : Rank(r[a]) <= Rank(t[a])

\* A root on its way is not later than the rows t, and not older than the
\* anchored one, r, unless its call is late or will be refused.
RootJob(j, r, t) ==
    j.at \in {"ready", "signed"} /\ j.call.kind = "anchor" =>
        /\ AtMost(j.call.about, t)
        /\ j.call.late \/ j.stale \/ AtMost(r, j.call.about)

RootPool(tx, r, t) ==
    tx # None /\ tx.call.kind = "anchor" =>
        /\ AtMost(tx.call.about, t)
        /\ tx.call.late \/ AtMost(r, tx.call.about)

RootInv ==
    /\ AtMost(anchored, row)
    /\ \A s \in Senders : RootJob(job[s], anchored, row)
    /\ RootPool(pool, anchored, row)
-----------------------------------------------------------------------------
\* The order of a row's life, as numbers.
LEMMA RanksAreOrdered ==
    /\ Rank("none") = 1 /\ Rank("active") = 2 /\ Rank("staked") = 3
    /\ Rank("revoked") = 4 /\ Rank("revokedStaked") = 5
<1>1. /\ DOMAIN Rows = 1 .. 5
      /\ Rows[1] = "none" /\ Rows[2] = "active" /\ Rows[3] = "staked"
      /\ Rows[4] = "revoked" /\ Rows[5] = "revokedStaked"
  BY DEF Rows
<1>2. \A k \in 1 .. 5 : k = 1 \/ k = 2 \/ k = 3 \/ k = 4 \/ k = 5
  OBVIOUS
<1>3. ASSUME NEW n \in 1 .. 5
      PROVE  Rank(Rows[n]) = n
  <2>1. \A k \in DOMAIN Rows : Rows[k] = Rows[n] => k = n
    BY <1>1, <1>2
  <2> QED
    BY <1>1, <2>1 DEF Rank
<1> QED
  BY <1>1, <1>3

\* Calls that register or stake set a score, a revocation does not; an
\* outcome is whether the transaction took effect.
LEMMA ScoresAreSet ==
    ASSUME NEW call
    PROVE  /\ call.kind \in {"register", "stake"} => SetsScore(call)
           /\ SetsScore(call) => /\ call.kind \in {"register", "stake"}
                                /\ Ais(call.kind) \in {300, 450}
           /\ \A ok \in Outcomes(call) :
                /\ ok \in BOOLEAN
                /\ call.kind \in AgentCalls => (ok <=> SetsScore(call))
<1>1. call.kind = "register" => SetsScore(call) /\ Ais(call.kind) = 300
  BY DEF SetsScore, InRange, Ais, AgentCalls
<1>2. call.kind = "stake" => SetsScore(call) /\ Ais(call.kind) = 450
  BY DEF SetsScore, InRange, Ais, AgentCalls
<1>3. SetsScore(call) => call.kind \in {"register", "stake"}
  BY DEF SetsScore, InRange, Ais, AgentCalls
<1>4. \A ok \in Outcomes(call) :
        /\ ok \in BOOLEAN
        /\ call.kind \in AgentCalls => (ok <=> SetsScore(call))
  <2>1. call.kind \in Deployments => call.kind \notin AgentCalls
    BY DEF Deployments, AgentCalls
  <2> QED
    BY <2>1 DEF Outcomes
<1> QED
  BY <1>1, <1>2, <1>3, <1>4

\* Ranks compare as numbers do.
COROLLARY RanksAreNumbers == \A r \in RowNames : Rank(r) \in Nat
  BY RanksAreOrdered DEF RowNames

\* An idle process is in no call.
LEMMA IdleIsTyped == \A s \in Senders : Idle \in Jobs /\ Idle.at = "idle" /\ JobOK(s, Idle)
<1>1. Idle \in Jobs
  BY DEF Idle, Jobs, Stages
<1>2. Idle.at = "idle"
  BY DEF Idle
<1> QED
  BY <1>1, <1>2 DEF JobOK

\* One process goes on.
LEMMA OneJobChanges ==
    ASSUME CallInv, NEW s \in Senders, NEW j, JobOK(s, j), job' = [job EXCEPT ![s] = j]
    PROVE  CallInv'
<1>1. job' \in [Senders -> Jobs]
  BY DEF CallInv, JobOK
<1>2. \A x \in Senders : job'[x] = IF x = s THEN j ELSE job[x]
  BY DEF CallInv
<1>3. \A x \in Senders : JobOK(x, job'[x])
  BY <1>2 DEF CallInv
<1> QED
  BY <1>1, <1>3 DEF CallInv

\* A call begins with what its kind is about.
LEMMA BeginKeepsCalls ==
    ASSUME CallInv, NEW s \in Senders, NEW call \in Calls,
           call.kind \in AgentCalls \cup Deployments => s = "api", Begin(s, call)
    PROVE  CallInv'
<1>1. JobOK(s, [at |-> "ready", call |-> call, stale |-> FALSE])
  BY DEF JobOK, Jobs, Stages
<1> QED
  BY <1>1, OneJobChanges DEF Begin

\* A call is one of Calls when its subject fits its kind.
LEMMA CallsAreTyped ==
    /\ \A a \in Agents, kind \in AgentCalls : Call(kind, a) \in Calls
    /\ \A c \in Contracts, kind \in Deployments : Call(kind, c) \in Calls
    /\ \A r \in Roots : Call("anchor", r) \in Calls
    /\ Call("transfer", None) \in Calls
  BY DEF Call, Calls, AgentCalls, Deployments

\* Initially the tables are empty and every process is idle.
LEMMA InitEstablishesTypes == Init => ChainTypeOK
<1> SUFFICES ASSUME Init
             PROVE  ChainTypeOK
  OBVIOUS
<1>1. CallInv
  BY IdleIsTyped DEF Init, CallInv
<1>2. TablesOK
  <2>1. row \in Roots /\ owed \subseteq Agents /\ requests \in 0 .. MaxRequests
    BY DEF Init, Roots, RowNames
  <2>3. score \in [Agents -> {300, 450, None}]
    BY DEF Init
  <2> QED
    BY <2>1, <2>3 DEF Init, TablesOK
<1> QED
  BY <1>1, <1>2 DEF ChainTypeOK

\* Where an endpoint goes on fits its call.
LEMMA AfterIsTyped ==
    ASSUME CallInv, NEW s \in Senders, job[s].at \in {"ready", "signed"},
           NEW sent \in BOOLEAN
    PROVE  JobOK(s, After(job[s], sent))
<1>1. JobOK(s, job[s]) /\ job[s] \in Jobs /\ job[s].call \in Calls
  BY DEF CallInv, JobOK
<1>2. CASE job[s].call.kind = "stake"
  <2>1. ASSUME NEW at \in {"commit", "commit unsent"}
        PROVE  JobOK(s, [job[s] EXCEPT !.at = at])
    BY <1>1, <1>2, <2>1 DEF JobOK, Jobs, Stages, AgentCalls
  <2> QED
    BY <1>2, <2>1 DEF After, Deployments
<1>3. CASE job[s].call.kind # "stake" /\ job[s].call.kind \in Deployments /\ sent
  <2>1. JobOK(s, [job[s] EXCEPT !.at = "wait"])
    BY <1>1, <1>3 DEF JobOK, Jobs, Stages, AgentCalls, Deployments
  <2> QED
    BY <1>3, <2>1 DEF After
<1>4. CASE job[s].call.kind # "stake" /\ ~(job[s].call.kind \in Deployments /\ sent)
  <2>1. After(job[s], sent) = Idle
    BY <1>4 DEF After
  <2> QED
    BY <2>1, IdleIsTyped
<1> QED
  BY <1>2, <1>3, <1>4

\* A mined transaction changes where a process is within its call.
LEMMA MiningKeepsJobs ==
    ASSUME CallInv, NEW ok \in BOOLEAN, NEW tx, NEW s \in Senders
    PROVE  JobOK(s, AfterMined(s, tx, ok))
<1> DEFINE j == job[s]
<1>1. JobOK(s, j) /\ j \in Jobs
  BY DEF CallInv
<1>2. CASE j.at = "wait"
  <2>1. JobOK(s, [j EXCEPT !.at = "insert"])
    BY <1>1, <1>2 DEF JobOK, Jobs, Stages
  <2> QED
    BY <1>1, <1>2, <2>1, IdleIsTyped DEF AfterMined
<1>3. CASE j.at = "signed"
  <2>1. JobOK(s, [j EXCEPT !.stale = TRUE])
    BY <1>1, <1>3 DEF JobOK, Jobs, Stages
  <2> QED
    BY <1>3, <2>1 DEF AfterMined
<1>4. CASE j.at = "ready"
  <2>1. [j.call EXCEPT !.late = TRUE] \in Calls
    BY <1>1, <1>4 DEF JobOK, Calls
  <2>2. [j.call EXCEPT !.late = TRUE].kind = j.call.kind
    BY <1>1, <1>4 DEF JobOK, Calls
  <2>3. JobOK(s, [j EXCEPT !.call.late = TRUE])
    BY <1>1, <1>4, <2>1, <2>2 DEF JobOK, Jobs, Stages
  <2> QED
    BY <1>1, <1>4, <2>3 DEF AfterMined
<1>5. CASE j.at \notin {"wait", "signed", "ready"}
  BY <1>1, <1>5 DEF AfterMined
<1> QED
  BY <1>2, <1>3, <1>4, <1>5

\* CallInv implies what TypeOK says of jobs.
LEMMA TypesFollow == ChainTypeOK => TypeOK
  BY DEF ChainTypeOK, TypeOK, CallInv, JobOK

\* No step of a call, of the chain or of a restart leaves the types.
LEMMA StepKeepsTypes == ChainTypeOK /\ [Next]_vars => ChainTypeOK'
<1> SUFFICES ASSUME TablesOK, CallInv, [Next]_vars
             PROVE  TablesOK' /\ CallInv'
  BY DEF ChainTypeOK
<1>1. ASSUME NEW a \in Agents, Register(a)
      PROVE  TablesOK' /\ CallInv'
  <2>1. CallInv'
    BY <1>1, BeginKeepsCalls, CallsAreTyped DEF Register, AgentCalls
  <2> QED
    BY <1>1, <2>1 DEF Register, Request, TablesOK, chain, Roots, RowNames
<1>2. ASSUME NEW a \in Agents, Stake(a)
      PROVE  TablesOK' /\ CallInv'
  <2>1. CallInv'
    BY <1>2, BeginKeepsCalls, CallsAreTyped DEF Stake, AgentCalls
  <2> QED
    BY <1>2, <2>1 DEF Stake, Request, TablesOK, chain
<1>3. ASSUME NEW a \in Agents, Revoke(a)
      PROVE  TablesOK' /\ CallInv'
  <2>1. CallInv'
    BY <1>3, BeginKeepsCalls, CallsAreTyped DEF Revoke, AgentCalls
  <2> QED
    BY <1>3, <2>1 DEF Revoke, Request, TablesOK, chain, Roots, RowNames
<1>4. ASSUME AnchorProtocolState
      PROVE  TablesOK' /\ CallInv'
  <2>1. CallInv'
    BY <1>4, SendersAssumption, BeginKeepsCalls, CallsAreTyped
       DEF AnchorProtocolState, TablesOK
  <2> QED
    BY <1>4, <2>1 DEF AnchorProtocolState, Request, TablesOK, chain
<1>5. ASSUME NEW s \in Senders, FaucetDrop(s)
      PROVE  TablesOK' /\ CallInv'
  <2>1. Call("transfer", None).kind \notin AgentCalls \cup Deployments
    BY DEF Call, AgentCalls, Deployments
  <2>2. CallInv'
    BY <1>5, <2>1, BeginKeepsCalls, CallsAreTyped DEF FaucetDrop
  <2> QED
    BY <1>5, <2>2 DEF FaucetDrop, Request, TablesOK, chain
<1>6. ASSUME NEW c \in Contracts, NEW kind \in Deployments, Deploy(c, kind)
      PROVE  TablesOK' /\ CallInv'
  <2>1. CallInv'
    BY <1>6, BeginKeepsCalls, CallsAreTyped DEF Deploy
  <2> QED
    BY <1>6, <2>1 DEF Deploy, Request, TablesOK, chain
<1>7. ASSUME ProcessRollup
      PROVE  TablesOK' /\ CallInv'
  <2>1. Call("anchor", row).kind \notin AgentCalls \cup Deployments
    BY DEF Call, AgentCalls, Deployments
  <2>2. CallInv'
    BY <1>7, <2>1, BeginKeepsCalls, CallsAreTyped DEF ProcessRollup, TablesOK
  <2> QED
    BY <1>7, <2>2 DEF ProcessRollup, TablesOK, chain, database
<1>8. ASSUME LoseConnection
      PROVE  TablesOK' /\ CallInv'
  BY <1>8 DEF LoseConnection, TablesOK, CallInv, chain, database
<1>9. ASSUME NEW s \in Senders, Restart(s)
      PROVE  TablesOK' /\ CallInv'
  <2>1. CallInv'
    BY <1>9, IdleIsTyped, OneJobChanges DEF Restart
  <2>2. job[s].at \in {"commit", "commit unsent"} => job[s].call.about \in Agents
    <3>1. JobOK(s, job[s])
      BY DEF CallInv
    <3> QED
      BY <3>1 DEF JobOK, Calls, AgentCalls
  <2>3. owed' \subseteq Agents
    BY <1>9, <2>2 DEF Restart, TablesOK
  <2> QED
    BY <1>9, <2>1, <2>3 DEF Restart, TablesOK, chain
<1>10. ASSUME NEW s \in Senders, ReadNonce(s)
       PROVE  TablesOK' /\ CallInv'
  <2>1. JobOK(s, job[s])
    BY DEF CallInv
  <2>2. JobOK(s, [job[s] EXCEPT !.at = "signed"])
    BY <1>10, <2>1 DEF ReadNonce, JobOK, Jobs, Stages
  <2>3. job' = [job EXCEPT ![s] = [job[s] EXCEPT !.at = "signed"]]
    BY <1>10 DEF ReadNonce
  <2>4. CallInv'
    BY <2>2, <2>3, OneJobChanges
  <2> QED
    BY <1>10, <2>4 DEF ReadNonce, TablesOK, chain, database
<1>11. ASSUME NEW s \in Senders, Fail(s)
       PROVE  TablesOK' /\ CallInv'
  <2>1. job' = [job EXCEPT ![s] = After(job[s], FALSE)]
    BY <1>11 DEF Fail
  <2>2. CallInv'
    BY <1>11, <2>1, AfterIsTyped, OneJobChanges DEF Fail
  <2> QED
    BY <1>11, <2>2 DEF Fail, TablesOK, chain, database
<1>12. ASSUME NEW s \in Senders, NEW answered \in BOOLEAN, Accept(s, answered)
       PROVE  TablesOK' /\ CallInv'
  <2> DEFINE tx == [by |-> s, call |-> job[s].call]
  <2>1. job' = [job EXCEPT ![s] = After(job[s], answered)]
    BY <1>12 DEF Accept
  <2>2. CallInv'
    BY <1>12, <2>1, AfterIsTyped, OneJobChanges DEF Accept
  <2>3. JobOK(s, job[s]) /\ job[s].at = "signed"
    BY <1>12 DEF Accept, CallInv
  <2>4. tx \in Transactions
    BY <2>3 DEF JobOK, Transactions
  <2>5. AboutAgent(pool) \subseteq Agents
    BY DEF AboutAgent, SetsScore, TablesOK, Transactions, Calls
  <2>6. pool' = tx /\ owed' \subseteq owed \cup AboutAgent(pool)
    BY <1>12 DEF Accept
  <2> QED
    BY <1>12, <2>2, <2>4, <2>5, <2>6 DEF Accept, TablesOK, chain, database
<1>13. ASSUME Mine
       PROVE  TablesOK' /\ CallInv'
  <2> PICK ok \in Outcomes(pool.call) :
        /\ score' = IF ok /\ pool.call.kind \in AgentCalls
                    THEN [score EXCEPT ![pool.call.about] = Ais(pool.call.kind)] ELSE score
        /\ anchored' = IF pool.call.kind = "anchor" THEN pool.call.about ELSE anchored
        /\ deployed' = IF ok /\ pool.call.kind \in Deployments
                       THEN deployed \cup {pool.call.about} ELSE deployed
        /\ job' = [s \in Senders |-> AfterMined(s, pool, ok)]
    BY <1>13 DEF Mine
  <2>1. pool.call \in Calls
    BY <1>13 DEF Mine, TablesOK, Transactions
  <2>2. score' \in [Agents -> {300, 450, None}]
    <3>1. ok /\ pool.call.kind \in AgentCalls => SetsScore(pool.call)
      <4>1. pool.call.kind \in AgentCalls => (ok <=> SetsScore(pool.call))
        BY ScoresAreSet
      <4> QED
        BY <4>1
    <3>2. SetsScore(pool.call) => Ais(pool.call.kind) \in {300, 450}
      BY ScoresAreSet
    <3> QED
      BY <2>1, <3>1, <3>2 DEF TablesOK, Calls
  <2>3. anchored' \in Roots \cup {None} /\ deployed' \subseteq Contracts
    BY <2>1 DEF TablesOK, Calls
  <2>4. CallInv'
    <3>1. \A s \in Senders : JobOK(s, AfterMined(s, pool, ok))
      BY ScoresAreSet, MiningKeepsJobs
    <3>2. \A s \in Senders : AfterMined(s, pool, ok) \in Jobs
      BY <3>1 DEF JobOK
    <3>3. job' \in [Senders -> Jobs] /\ \A s \in Senders : job'[s] = AfterMined(s, pool, ok)
      BY <3>2
    <3> QED
      BY <3>1, <3>3 DEF CallInv
  <2> QED
    BY <1>13, <2>2, <2>3, <2>4 DEF Mine, TablesOK, database
<1>14. ASSUME CommitStake
       PROVE  TablesOK' /\ CallInv'
  <2>1. CallInv'
    BY <1>14, IdleIsTyped, OneJobChanges, SendersAssumption DEF CommitStake, Finish
  <2>2. job["api"].call.about \in Agents
    <3>1. JobOK("api", job["api"])
      BY SendersAssumption DEF CallInv
    <3> QED
      BY <1>14, <3>1 DEF CommitStake, JobOK, Calls, AgentCalls
  <2>3. row' \in Roots /\ owed' \subseteq Agents
    BY <1>14, <2>2 DEF CommitStake, TablesOK, Roots, RowNames
  <2> QED
    BY <1>14, <2>1, <2>3 DEF CommitStake, Finish, TablesOK, chain
<1>15. ASSUME GiveUp
       PROVE  TablesOK' /\ CallInv'
  <2>1. CallInv'
    BY <1>15, IdleIsTyped, OneJobChanges, SendersAssumption DEF GiveUp, Finish
  <2> QED
    BY <1>15, <2>1 DEF GiveUp, Finish, TablesOK, chain, database
<1>16. ASSUME InsertContract
       PROVE  TablesOK' /\ CallInv'
  <2>1. CallInv'
    BY <1>16, IdleIsTyped, OneJobChanges, SendersAssumption DEF InsertContract, Finish
  <2>2. job["api"].call.about \in Contracts /\ job["api"].call.kind \in Deployments
    <3>1. JobOK("api", job["api"])
      BY SendersAssumption DEF CallInv
    <3> QED
      BY <1>16, <3>1 DEF InsertContract, JobOK, Calls
  <2> QED
    BY <1>16, <2>1, <2>2 DEF InsertContract, Finish, TablesOK, chain
<1>17. CASE UNCHANGED vars
  BY <1>17 DEF vars, database, chain, TablesOK, CallInv
<1> QED
  BY <1>1, <1>2, <1>3, <1>4, <1>5, <1>6, <1>7, <1>8, <1>9, <1>10, <1>11, <1>12,
     <1>13, <1>14, <1>15, <1>16, <1>17 DEF Next

\* What every process may do, no stage of a call aside: the account, the agents'
\* rows and the contracts stay within their tables, and every call is about
\* what its kind is about (OracleChain's TypeOK).
THEOREM TypeCorrect == Spec => []TypeOK
<1>1. Spec => []ChainTypeOK
  BY InitEstablishesTypes, StepKeepsTypes, PTL DEF Spec
<1> QED
  BY <1>1, TypesFollow, PTL
-----------------------------------------------------------------------------
\* The contracts that are listed.

\* Steps that list and mine nothing, and read no receipt.
LEMMA OtherStepsKeepContracts ==
    ASSUME CallInv, ContractInv, UNCHANGED <<tracked, deployed>>,
           NEW s \in Senders, NEW j \in Jobs, j.at # "insert",
           job' = [job EXCEPT ![s] = j]
    PROVE  ContractInv'
<1>1. \A x \in Senders : job'[x].at = "insert" => job'[x] = job[x]
  BY DEF CallInv
<1> QED
  BY <1>1 DEF ContractInv, TrackedContractsExist

\* A receipt that is read belongs to a contract that was mined.
LEMMA StepKeepsContracts ==
    ChainTypeOK /\ ContractInv /\ [Next]_vars => ContractInv'
<1> SUFFICES ASSUME TablesOK, CallInv, ContractInv, [Next]_vars
             PROVE  ContractInv'
  BY DEF ChainTypeOK
<1>1. ASSUME NEW s \in Senders, NEW call \in Calls, Begin(s, call),
             UNCHANGED <<tracked, deployed>>
      PROVE  ContractInv'
  <2>1. [at |-> "ready", call |-> call, stale |-> FALSE] \in Jobs
    BY DEF Jobs, Stages
  <2> QED
    BY <1>1, <2>1, OtherStepsKeepContracts DEF Begin
<1>2. ASSUME NEW a \in Agents, Register(a) \/ Stake(a) \/ Revoke(a)
      PROVE  ContractInv'
  BY <1>1, <1>2, CallsAreTyped DEF Register, Stake, Revoke, AgentCalls, chain
<1>3. ASSUME \/ AnchorProtocolState \/ ProcessRollup \/ \E s \in Senders : FaucetDrop(s)
      PROVE  ContractInv'
  BY <1>1, <1>3, CallsAreTyped
     DEF AnchorProtocolState, ProcessRollup, FaucetDrop, chain, database, TablesOK
<1>4. ASSUME NEW c \in Contracts, NEW kind \in Deployments, Deploy(c, kind)
      PROVE  ContractInv'
  BY <1>1, <1>4, CallsAreTyped DEF Deploy, chain
<1>5. ASSUME NEW s \in Senders, Restart(s)
      PROVE  ContractInv'
  BY <1>5, IdleIsTyped, OtherStepsKeepContracts DEF Restart, chain
<1>6. ASSUME NEW s \in Senders, ReadNonce(s)
      PROVE  ContractInv'
  <2>1. [job[s] EXCEPT !.at = "signed"] \in Jobs /\ [job[s] EXCEPT !.at = "signed"].at = "signed"
    BY DEF CallInv, Jobs, Stages
  <2>2. job' = [job EXCEPT ![s] = [job[s] EXCEPT !.at = "signed"]]
    BY <1>6 DEF ReadNonce
  <2> QED
    BY <1>6, <2>1, <2>2, OtherStepsKeepContracts DEF ReadNonce, chain, database
<1>7. ASSUME NEW s \in Senders, NEW sent \in BOOLEAN, job[s].at \in {"ready", "signed"},
             job' = [job EXCEPT ![s] = After(job[s], sent)], UNCHANGED <<tracked, deployed>>
      PROVE  ContractInv'
  <2>1. After(job[s], sent) \in Jobs
    BY <1>7, AfterIsTyped DEF JobOK
  <2>2. After(job[s], sent).at # "insert"
    BY <1>7 DEF After, Idle, CallInv, Jobs
  <2> QED
    BY <1>7, <2>1, <2>2, OtherStepsKeepContracts
<1>8. ASSUME NEW s \in Senders, Fail(s)
      PROVE  ContractInv'
  BY <1>7, <1>8 DEF Fail, chain, database
<1>9. ASSUME NEW s \in Senders, NEW answered \in BOOLEAN, Accept(s, answered)
      PROVE  ContractInv'
  BY <1>7, <1>9 DEF Accept, chain
<1>10. ASSUME Mine
       PROVE  ContractInv'
  <2> PICK ok \in Outcomes(pool.call) :
        /\ deployed' = IF ok /\ pool.call.kind \in Deployments
                       THEN deployed \cup {pool.call.about} ELSE deployed
        /\ job' = [s \in Senders |-> AfterMined(s, pool, ok)]
    BY <1>10 DEF Mine
  <2>1. deployed \subseteq deployed' /\ tracked' = tracked
    BY <1>10 DEF Mine, database
  <2>2. ASSUME NEW s \in Senders, job'[s].at = "insert"
        PROVE  job'[s].call.kind = "custom" \/ job'[s].call.about \in deployed'
    <3> DEFINE j == job[s]
    <3>1. job'[s] = AfterMined(s, pool, ok) /\ j \in Jobs /\ JobOK(s, j)
      BY DEF CallInv
    <3>2. CASE j.at = "wait"
      <4>1. /\ pool.call = j.call /\ HasAddress(j.call.kind, ok)
            /\ job'[s] = [j EXCEPT !.at = "insert"]
        BY <2>2, <3>1, <3>2, IdleIsTyped DEF AfterMined
      <4>2. job'[s].call = j.call /\ j.call.kind \in Deployments
        BY <3>1, <3>2, <4>1 DEF Jobs, JobOK
      <4> QED
        BY <4>1, <4>2 DEF HasAddress
    <3>3. CASE j.at # "wait"
      <4>1. job'[s].call.kind = j.call.kind /\ job'[s].call.about = j.call.about
            /\ j.at = "insert"
        BY <2>2, <3>1, <3>3 DEF AfterMined, Jobs, JobOK, Calls
      <4> QED
        BY <2>1, <4>1 DEF ContractInv
    <3> QED
      BY <3>2, <3>3
  <2> QED
    BY <2>1, <2>2 DEF ContractInv, TrackedContractsExist
<1>11. ASSUME CommitStake \/ GiveUp
       PROVE  ContractInv'
  BY <1>11, IdleIsTyped, OtherStepsKeepContracts, SendersAssumption
     DEF CommitStake, GiveUp, Finish, chain, database
<1>12. ASSUME InsertContract
       PROVE  ContractInv'
  <2> DEFINE call == job["api"].call
  <2>1. call.kind = "custom" \/ call.about \in deployed
    BY <1>12, SendersAssumption DEF InsertContract, ContractInv
  <2>2. tracked' = tracked \cup {<<call.about, call.kind>>} /\ deployed' = deployed
    BY <1>12 DEF InsertContract, Finish, chain
  <2>3. TrackedContractsExist'
    BY <2>1, <2>2 DEF ContractInv, TrackedContractsExist
  <2>4. \A s \in Senders : job'[s].at = "insert" => job'[s] = job[s]
    BY <1>12, IdleIsTyped DEF InsertContract, Finish, CallInv
  <2> QED
    BY <2>2, <2>3, <2>4 DEF ContractInv
<1>13. CASE LoseConnection \/ UNCHANGED vars
  BY <1>13 DEF LoseConnection, vars, database, chain, ContractInv, TrackedContractsExist
<1> QED
  BY <1>2, <1>3, <1>4, <1>5, <1>6, <1>8, <1>9, <1>10, <1>11, <1>12, <1>13 DEF Next

\* An SLA or insurance contract the API lists was deployed, whatever was
\* displaced, reverted or answered too late, for any processes and requests.
THEOREM ListedContractsExist == Spec => []TrackedContractsExist
<1>1. Init => ContractInv
  BY DEF Init, Idle, ContractInv, TrackedContractsExist
<1>2. Spec => []ContractInv
  BY <1>1, InitEstablishesTypes, StepKeepsTypes, StepKeepsContracts, PTL DEF Spec
<1> QED
  BY <1>2, PTL DEF ContractInv
-----------------------------------------------------------------------------
\* The roots that are anchored.

LEMMA RowsMoveRight ==
    ASSUME TablesOK, CallInv, [Next]_vars
    PROVE  \A a \in Agents : Rank(row[a]) <= Rank(row'[a])
<1>1. \A a \in Agents : row[a] \in RowNames /\ Rank(row[a]) <= Rank(row[a])
  BY RanksAreNumbers DEF TablesOK, Roots
<1>2. ASSUME NEW a \in Agents, Register(a) \/ Revoke(a)
      PROVE  \A b \in Agents : Rank(row[b]) <= Rank(row'[b])
  BY <1>1, <1>2, RanksAreOrdered DEF Register, Revoke, TablesOK, Roots
<1>3. ASSUME CommitStake
      PROVE  \A b \in Agents : Rank(row[b]) <= Rank(row'[b])
  <2> DEFINE c == job["api"].call.about
             new == IF row[c] \in {"active", "staked"} THEN "staked" ELSE "revokedStaked"
  <2>1. row' = [row EXCEPT ![c] = new]
    BY <1>3 DEF CommitStake
  <2>2. \A b \in Agents : row'[b] = row[b] \/ (b = c /\ row'[b] = new)
    BY <2>1 DEF TablesOK, Roots
  <2>3. c \in Agents => Rank(row[c]) <= Rank(new)
    BY <1>1, RanksAreOrdered DEF RowNames
  <2> QED
    BY <1>1, <2>2, <2>3
<1>4. CASE UNCHANGED row
  BY <1>1, <1>4
<1>5. (\E a \in Agents : Register(a) \/ Revoke(a)) \/ CommitStake \/ UNCHANGED row
  BY DEF Next, vars, Stake, AnchorProtocolState, FaucetDrop, Deploy, ProcessRollup,
         LoseConnection, Restart, ReadNonce, Fail, Accept, Mine, GiveUp,
         InsertContract, database
<1> QED
  BY <1>2, <1>3, <1>4, <1>5

\* What was not later than the rows is not later than later rows.
LEMMA AtMostLaterRows ==
    ASSUME row \in Roots, row' \in Roots, \A a \in Agents : Rank(row[a]) <= Rank(row'[a]),
           NEW r \in Roots \cup {None}, AtMost(r, row)
    PROVE  AtMost(r, row')
<1> SUFFICES ASSUME r # None, NEW a \in Agents
             PROVE  Rank(r[a]) <= Rank(row'[a])
  BY DEF AtMost
<1>1. Rank(r[a]) \in Nat /\ Rank(row[a]) \in Nat /\ Rank(row'[a]) \in Nat
  BY RanksAreNumbers DEF Roots
<1>2. Rank(r[a]) <= Rank(row[a]) /\ Rank(row[a]) <= Rank(row'[a])
  BY DEF AtMost
<1> QED
  BY <1>1, <1>2

\* A root that is not on its way when rows move on.
LEMMA LaterRowsKeepJobs ==
    ASSUME TablesOK, CallInv, RootInv, row' \in Roots, anchored' = anchored,
           \A a \in Agents : Rank(row[a]) <= Rank(row'[a])
    PROVE  /\ AtMost(anchored', row')
           /\ \A s \in Senders : RootJob(job[s], anchored', row')
           /\ RootPool(pool, anchored', row')
<1> USE DEF TablesOK
<1>1. AtMost(anchored', row')
  BY AtMostLaterRows DEF RootInv
<1>2. ASSUME NEW s \in Senders, job[s].at \in {"ready", "signed"}, job[s].call.kind = "anchor"
      PROVE  AtMost(job[s].call.about, row')
  <2>1. job[s].call.about \in Roots
    BY <1>2 DEF CallInv, JobOK, Calls
  <2>2. AtMost(job[s].call.about, row)
    BY <1>2 DEF RootInv, RootJob
  <2> QED
    BY <2>1, <2>2, AtMostLaterRows
<1>3. ASSUME pool # None, pool.call.kind = "anchor"
      PROVE  AtMost(pool.call.about, row')
  <2>1. pool.call.about \in Roots
    BY <1>3 DEF Transactions, Calls
  <2>2. AtMost(pool.call.about, row)
    BY <1>3 DEF RootInv, RootPool
  <2> QED
    BY <2>1, <2>2, AtMostLaterRows
<1> QED
  BY <1>1, <1>2, <1>3 DEF RootInv, RootJob, RootPool

\* Steps that change one job and anchor nothing.
LEMMA OneJobKeepsRoots ==
    ASSUME TablesOK, TablesOK', CallInv, RootInv, [Next]_vars,
           anchored' = anchored, pool' = pool,
           NEW s \in Senders, NEW j \in Jobs, job' = [job EXCEPT ![s] = j],
           RootJob(j, anchored, row')
    PROVE  RootInv'
<1>1. \A x \in Senders : job'[x] = IF x = s THEN j ELSE job[x]
  BY DEF CallInv
<1>2. /\ AtMost(anchored', row')
      /\ \A x \in Senders : RootJob(job[x], anchored', row')
      /\ RootPool(pool, anchored', row')
  BY RowsMoveRight, LaterRowsKeepJobs DEF TablesOK
<1> QED
  BY <1>1, <1>2 DEF RootInv

\* Mining a root makes the other roots on their way late or outdated.
LEMMA StepKeepsRoots ==
    ChainTypeOK /\ ChainTypeOK' /\ RootInv /\ [Next]_vars => RootInv'
<1> SUFFICES ASSUME TablesOK, CallInv, TablesOK', CallInv', RootInv, [Next]_vars
             PROVE  RootInv'
  BY DEF ChainTypeOK
<1>1. ASSUME NEW s \in Senders, NEW call \in Calls, Begin(s, call),
             UNCHANGED <<anchored, pool>>,
             call.kind = "anchor" => call.about = row /\ row' = row
      PROVE  RootInv'
  <2> DEFINE j == [at |-> "ready", call |-> call, stale |-> FALSE]
  <2>1. j \in Jobs
    BY DEF Jobs, Stages
  <2>2. AtMost(row, row)
    BY RanksAreNumbers DEF AtMost, TablesOK, Roots
  <2>3. RootJob(j, anchored, row')
    BY <1>1, <2>2 DEF RootJob, RootInv
  <2> QED
    BY <1>1, <2>1, <2>3, OneJobKeepsRoots DEF Begin
<1>2. ASSUME NEW a \in Agents, Register(a) \/ Stake(a) \/ Revoke(a)
      PROVE  RootInv'
  <2>1. \A kind \in AgentCalls : Call(kind, a).kind # "anchor"
    BY DEF Call, AgentCalls
  <2> QED
    BY <1>1, <1>2, <2>1, CallsAreTyped, SendersAssumption
       DEF Register, Stake, Revoke, AgentCalls, chain
<1>3. ASSUME NEW s \in Senders, FaucetDrop(s)
      PROVE  RootInv'
  <2>1. Call("transfer", None).kind # "anchor"
    BY DEF Call
  <2> QED
    BY <1>1, <1>3, <2>1, CallsAreTyped DEF FaucetDrop, chain
<1>4. ASSUME NEW c \in Contracts, NEW kind \in Deployments, Deploy(c, kind)
      PROVE  RootInv'
  <2>1. Call(kind, c).kind # "anchor"
    BY DEF Call, Deployments
  <2> QED
    BY <1>1, <1>4, <2>1, CallsAreTyped, SendersAssumption DEF Deploy, chain
<1>5. ASSUME AnchorProtocolState \/ ProcessRollup
      PROVE  RootInv'
  <2>1. Call("anchor", row) \in Calls /\ Call("anchor", row).about = row
    BY CallsAreTyped DEF TablesOK, Call
  <2> QED
    BY <1>1, <1>5, <2>1, SendersAssumption
       DEF AnchorProtocolState, ProcessRollup, chain, database
<1>6. ASSUME NEW s \in Senders, job' = [job EXCEPT ![s] = Idle],
             UNCHANGED <<pool, anchored>>
      PROVE  RootInv'
  BY <1>6, IdleIsTyped, OneJobKeepsRoots DEF RootJob
<1>7. ASSUME NEW s \in Senders, Restart(s)
      PROVE  RootInv'
  BY <1>6, <1>7 DEF Restart, chain
<1>8. ASSUME CommitStake \/ GiveUp \/ InsertContract
      PROVE  RootInv'
  BY <1>6, <1>8, SendersAssumption DEF CommitStake, GiveUp, InsertContract, Finish, chain
<1>9. ASSUME NEW s \in Senders, ReadNonce(s)
      PROVE  RootInv'
  <2> DEFINE j == [job[s] EXCEPT !.at = "signed"]
  <2>1. j \in Jobs /\ j.call = job[s].call /\ j.stale = job[s].stale
    BY DEF CallInv, Jobs, Stages
  <2>2. RootJob(j, anchored, row)
    BY <1>9, <2>1 DEF RootInv, RootJob, ReadNonce
  <2> QED
    BY <1>9, <2>1, <2>2, OneJobKeepsRoots DEF ReadNonce, chain, database
<1>10. ASSUME NEW s \in Senders, NEW sent \in BOOLEAN, job[s].at \in {"ready", "signed"}
       PROVE  After(job[s], sent) \in Jobs /\ RootJob(After(job[s], sent), anchored, row)
  <2>1. JobOK(s, After(job[s], sent))
    BY <1>10, AfterIsTyped
  <2>2. After(job[s], sent).at \notin {"ready", "signed"}
    BY <1>10 DEF After, Idle, CallInv, Jobs
  <2> QED
    BY <2>1, <2>2 DEF JobOK, RootJob
<1>11. ASSUME NEW s \in Senders, Fail(s)
       PROVE  RootInv'
  BY <1>10, <1>11, OneJobKeepsRoots DEF Fail, chain, database
<1>12. ASSUME NEW s \in Senders, NEW answered \in BOOLEAN, Accept(s, answered)
       PROVE  RootInv'
  <2>1. /\ job[s].at = "signed" /\ ~job[s].stale
        /\ pool' = [by |-> s, call |-> job[s].call]
        /\ job' = [job EXCEPT ![s] = After(job[s], answered)]
        /\ anchored' = anchored /\ row' = row
    BY <1>12 DEF Accept, chain
  <2>2. RootPool(pool', anchored, row)
    BY <2>1 DEF RootPool, RootInv, RootJob
  <2>3. \A x \in Senders : RootJob(job'[x], anchored, row)
    BY <1>10, <2>1 DEF RootInv, CallInv
  <2> QED
    BY <2>1, <2>2, <2>3 DEF RootInv
<1>13. ASSUME Mine
       PROVE  RootInv'
  <2> PICK ok \in Outcomes(pool.call) :
        /\ anchored' = IF pool.call.kind = "anchor" THEN pool.call.about ELSE anchored
        /\ job' = [s \in Senders |-> AfterMined(s, pool, ok)]
    BY <1>13 DEF Mine
  <2>1. pool # None /\ pool' = None /\ row' = row
    BY <1>13 DEF Mine, database
  <2>2. AtMost(anchored', row')
    BY <2>1 DEF RootInv, RootPool
  <2>3. ASSUME NEW s \in Senders
        PROVE  RootJob(job'[s], anchored', row')
    <3> DEFINE j == job[s]
    <3>1. job'[s] = AfterMined(s, pool, ok) /\ j \in Jobs /\ JobOK(s, j)
      BY DEF CallInv
    <3>2. RootJob(j, anchored, row)
      BY DEF RootInv
    <3>3. CASE j.at = "signed"
      <4>1. job'[s] = [j EXCEPT !.stale = TRUE]
        BY <3>1, <3>3 DEF AfterMined
      <4> QED
        BY <2>1, <3>1, <3>2, <3>3, <4>1 DEF RootJob, Jobs
    <3>4. CASE j.at = "ready" /\ {j.call.kind, pool.call.kind} = {"anchor"}
      <4>1. job'[s] = [j EXCEPT !.call.late = TRUE]
        BY <3>1, <3>4 DEF AfterMined
      <4> QED
        BY <2>1, <3>1, <3>2, <3>4, <4>1 DEF RootJob, Jobs, JobOK, Calls
    <3>5. CASE j.at = "ready" /\ {j.call.kind, pool.call.kind} # {"anchor"}
      <4>1. job'[s] = j
        BY <3>1, <3>5 DEF AfterMined
      <4> QED
        BY <2>1, <3>2, <3>5, <4>1 DEF RootJob
    <3>6. CASE j.at \notin {"ready", "signed"}
      <4>1. job'[s].at \notin {"ready", "signed"}
        BY <3>1, <3>6, IdleIsTyped DEF AfterMined, Jobs
      <4> QED
        BY <4>1 DEF RootJob
    <3> QED
      BY <3>3, <3>4, <3>5, <3>6
  <2> QED
    BY <2>1, <2>2, <2>3 DEF RootInv, RootPool
<1>14. CASE LoseConnection \/ UNCHANGED vars
  BY <1>14 DEF LoseConnection, vars, database, chain, RootInv
<1> QED
  BY <1>2, <1>3, <1>4, <1>5, <1>7, <1>8, <1>9, <1>11, <1>12, <1>13, <1>14 DEF Next

\* A root never replaces one of later rows unless the other was anchored
\* between its computation and the reading of its nonce, for any processes
\* that anchor without regard for each other.
THEOREM RootsMoveForward == Spec => AnchorsMoveForward
<1>1. Init => RootInv
  BY DEF Init, Idle, RootInv, AtMost, RootJob, RootPool
<1>2. TablesOK /\ RootInv /\ [Next]_vars =>
        [anchored # None /\ anchored' # anchored =>
            \/ pool.call.late
            \/ \A a \in Agents : Rank(anchored[a]) <= Rank(anchored'[a])]_vars
  <2> SUFFICES ASSUME RootInv, Next, anchored # None, anchored' # anchored
               PROVE  \/ pool.call.late
                      \/ \A a \in Agents : Rank(anchored[a]) <= Rank(anchored'[a])
    OBVIOUS
  <2>1. Mine
    BY DEF Next, Register, Stake, Revoke, AnchorProtocolState, FaucetDrop, Deploy,
           ProcessRollup, LoseConnection, Restart, ReadNonce, Fail, Accept,
           CommitStake, GiveUp, InsertContract, Finish, chain
  <2>2. pool # None /\ pool.call.kind = "anchor" /\ anchored' = pool.call.about
    BY <2>1 DEF Mine
  <2> QED
    BY <2>2 DEF RootInv, RootPool, AtMost
<1>3. Spec => [](ChainTypeOK /\ RootInv)
  BY <1>1, InitEstablishesTypes, StepKeepsTypes, StepKeepsRoots, PTL DEF Spec
<1>4. ChainTypeOK => TablesOK
  BY DEF ChainTypeOK
<1> QED
  BY <1>2, <1>3, <1>4, PTL DEF Spec, AnchorsMoveForward
-----------------------------------------------------------------------------
\* The scores on the chain.

\* Who is idle has nothing on its way.
LEMMA IdleAgentRow ==
    \A a, coming, r : AgentRow(a, Idle, coming, r) <=> coming = Expected(r[a])
  BY DEF AgentRow, Idle

\* An idle API owes nothing for a call.
LEMMA IdleAgentJob == \A o, r : AgentJob(Idle, o, r)
  BY DEF AgentJob, Idle

\* The API begins a call: the agents it owes are added before.
LEMMA BeginKeepsAgents ==
    ASSUME CallInv, AgentInv, UNCHANGED <<score, pool>>,
           NEW call \in Calls, Begin("api", call), owed \subseteq owed',
           \A a \in Agents \ owed' : Expected(row'[a]) = Expected(row[a]),
           call.kind = "register" => call.about \in owed' /\ row'[call.about] = "active",
           call.kind = "stake" => row'[call.about] # "none"
    PROVE  AgentInv'
<1> DEFINE j == [at |-> "ready", call |-> call, stale |-> FALSE]
<1>1. job["api"] = Idle /\ job'["api"] = j
  BY SendersAssumption DEF Begin, CallInv
<1>2. AgentJob(j, owed', row')
  BY DEF AgentJob
<1>3. ASSUME NEW a \in Agents \ owed'
      PROVE  AgentRow(a, j, Coming(a)', row')
  <2>1. Coming(a)' = Coming(a)
    BY DEF Coming, AboutAgent
  <2>2. Coming(a) = Expected(row'[a])
    BY <1>1, <1>3, IdleAgentRow DEF AgentInv
  <2> QED
    BY <2>1, <2>2 DEF AgentRow
<1> QED
  BY <1>1, <1>2, <1>3 DEF AgentInv

\* Another process goes on.
LEMMA OthersKeepAgents ==
    ASSUME CallInv, AgentInv, UNCHANGED <<score, pool, row>>, owed \subseteq owed',
           job'["api"] = job["api"]
    PROVE  AgentInv'
<1>1. \A a \in Agents : Coming(a)' = Coming(a)
  BY DEF Coming, AboutAgent
<1>2. AgentJob(job["api"], owed', row)
  BY DEF AgentInv, AgentJob
<1>3. \A a \in Agents \ owed' : AgentRow(a, job["api"], Coming(a)', row)
  BY <1>1 DEF AgentInv
<1> QED
  BY <1>2, <1>3 DEF AgentInv

\* No step makes an agent disagree without owing it.
LEMMA StepKeepsAgents ==
    ChainTypeOK /\ AgentInv /\ [Next]_vars => AgentInv'
<1> SUFFICES ASSUME TablesOK, CallInv, AgentInv, [Next]_vars
             PROVE  AgentInv'
  BY DEF ChainTypeOK
<1> DEFINE j == job["api"]
<1>0. j \in Jobs /\ JobOK("api", j) /\ "api" \in Senders
  BY SendersAssumption DEF CallInv
<1>1. ASSUME NEW a \in Agents, Register(a)
      PROVE  AgentInv'
  <2>1. Call("register", a) \in Calls /\ Call("register", a).kind = "register"
        /\ Call("register", a).about = a
    BY CallsAreTyped DEF AgentCalls, Call
  <2>2. row' = [row EXCEPT ![a] = "active"] /\ owed' = owed \cup {a}
        /\ Begin("api", Call("register", a)) /\ UNCHANGED <<score, pool>>
    BY <1>1 DEF Register, chain
  <2>3. row'[a] = "active" /\ \A b \in Agents \ owed' : row'[b] = row[b]
    BY <2>2 DEF TablesOK, Roots
  <2> QED
    BY <2>1, <2>2, <2>3, BeginKeepsAgents
<1>2. ASSUME NEW a \in Agents, Stake(a)
      PROVE  AgentInv'
  <2>1. Call("stake", a) \in Calls /\ Call("stake", a).kind = "stake"
        /\ Call("stake", a).about = a
    BY CallsAreTyped DEF AgentCalls, Call
  <2> QED
    BY <1>2, <2>1, BeginKeepsAgents DEF Stake, chain
<1>3. ASSUME NEW a \in Agents, Revoke(a)
      PROVE  AgentInv'
  <2>1. Call("revoke", a) \in Calls /\ Call("revoke", a).kind = "revoke"
        /\ Call("revoke", a).about = a
    BY CallsAreTyped DEF AgentCalls, Call
  <2>2. /\ row' = [row EXCEPT ![a] = IF @ = "active" THEN "revoked"
                                     ELSE "revokedStaked"]
        /\ row[a] \in {"active", "staked"} /\ owed' = owed
        /\ Begin("api", Call("revoke", a)) /\ UNCHANGED <<score, pool>>
    BY <1>3 DEF Revoke, chain
  <2>3. \A b \in Agents \ owed' : Expected(row'[b]) = Expected(row[b])
    BY <2>2 DEF TablesOK, Roots, Expected
  <2> QED
    BY <2>1, <2>2, <2>3, BeginKeepsAgents
<1>4. ASSUME NEW s \in Senders, NEW call \in Calls, Begin(s, call),
             call.kind \notin AgentCalls, UNCHANGED <<row, owed, score, pool>>
      PROVE  AgentInv'
  <2>1. CASE s = "api"
    BY <1>4, <2>1, BeginKeepsAgents DEF AgentCalls
  <2>2. CASE s # "api"
    BY <1>0, <1>4, <2>2, OthersKeepAgents DEF Begin, CallInv
  <2> QED
    BY <2>1, <2>2
<1>5. ASSUME AnchorProtocolState \/ ProcessRollup
      PROVE  AgentInv'
  <2>1. Call("anchor", row) \in Calls /\ Call("anchor", row).kind \notin AgentCalls
    BY CallsAreTyped DEF TablesOK, Call, AgentCalls
  <2> QED
    BY <1>4, <1>5, <2>1, SendersAssumption
       DEF AnchorProtocolState, ProcessRollup, chain, database
<1>6. ASSUME NEW s \in Senders, FaucetDrop(s)
      PROVE  AgentInv'
  <2>1. Call("transfer", None) \in Calls /\ Call("transfer", None).kind \notin AgentCalls
    BY CallsAreTyped DEF Call, AgentCalls
  <2> QED
    BY <1>4, <1>6, <2>1 DEF FaucetDrop, chain
<1>7. ASSUME NEW c \in Contracts, NEW kind \in Deployments, Deploy(c, kind)
      PROVE  AgentInv'
  <2>1. Call(kind, c) \in Calls /\ Call(kind, c).kind \notin AgentCalls
    BY CallsAreTyped DEF Call, AgentCalls, Deployments
  <2> QED
    BY <1>4, <1>7, <2>1, SendersAssumption DEF Deploy, chain
<1>8. ASSUME NEW s \in Senders, Restart(s)
      PROVE  AgentInv'
  <2>1. UNCHANGED <<row, score, pool>> /\ owed \subseteq owed'
        /\ job' = [job EXCEPT ![s] = Idle]
    BY <1>8 DEF Restart, chain
  <2>2. CASE s # "api"
    BY <1>0, <2>1, <2>2, OthersKeepAgents DEF CallInv
  <2>3. CASE s = "api"
    <3>1. job'["api"] = Idle
      BY <1>0, <2>1, <2>3 DEF CallInv
    <3>2. j.at \in {"commit", "commit unsent"} => j.call.about \in owed'
      BY <1>8, <2>3 DEF Restart
    <3>3. ASSUME NEW a \in Agents \ owed'
          PROVE  Coming(a)' = Expected(row'[a])
      <4>1. AgentRow(a, j, Coming(a), row)
        BY <2>1, <3>3 DEF AgentInv
      <4>2. Coming(a)' = Coming(a)
        BY <2>1 DEF Coming, AboutAgent
      <4> QED
        BY <2>1, <3>2, <3>3, <4>1, <4>2 DEF AgentRow
    <3> QED
      BY <3>1, <3>3, IdleAgentJob, IdleAgentRow DEF AgentInv
  <2> QED
    BY <2>2, <2>3
<1>9. ASSUME NEW s \in Senders, ReadNonce(s)
      PROVE  AgentInv'
  <2>1. UNCHANGED <<row, owed, score, pool>>
    BY <1>9 DEF ReadNonce, chain, database
  <2>2. CASE s # "api"
    BY <1>0, <1>9, <2>1, <2>2, OthersKeepAgents DEF ReadNonce, CallInv
  <2>3. CASE s = "api"
    <3>1. /\ job'["api"].at = "signed" /\ job'["api"].call = j.call /\ j.at = "ready"
      BY <1>0, <1>9, <2>3 DEF ReadNonce, CallInv, Jobs
    <3>2. \A a \in Agents : Coming(a)' = Coming(a)
      BY <2>1 DEF Coming, AboutAgent
    <3> QED
      BY <2>1, <3>1, <3>2 DEF AgentInv, AgentJob, AgentRow
  <2> QED
    BY <2>2, <2>3
<1>10. ASSUME j.at \in {"ready", "signed"}, NEW sent \in BOOLEAN
       PROVE  LET k == After(j, sent)
              IN \/ /\ j.call.kind = "stake" /\ k.call = j.call
                    /\ k.at = IF sent THEN "commit" ELSE "commit unsent"
                 \/ j.call.kind # "stake" /\ k.at = "idle"
                 \/ j.call.kind \in Deployments /\ k.at = "wait" /\ k.call = j.call
  <2>1. j \in [at : Stages, call : Calls \cup {None}, stale : BOOLEAN]
    BY <1>0 DEF Jobs
  <2>2. CASE j.call.kind = "stake"
    BY <2>1, <2>2 DEF After, Deployments
  <2>3. CASE j.call.kind # "stake"
    BY <2>1, <2>3 DEF After, Idle
  <2> QED
    BY <2>2, <2>3
<1>11. ASSUME NEW s \in Senders, Fail(s)
       PROVE  AgentInv'
  <2>1. UNCHANGED <<row, owed, score, pool>> /\ job' = [job EXCEPT ![s] = After(job[s], FALSE)]
    BY <1>11 DEF Fail, chain, database
  <2>2. CASE s # "api"
    BY <1>0, <2>1, <2>2, OthersKeepAgents DEF CallInv
  <2>3. CASE s = "api"
    <3> DEFINE k == After(j, FALSE)
    <3>1. job'["api"] = k /\ j.at \in {"ready", "signed"}
      BY <1>0, <1>11, <2>1, <2>3 DEF CallInv, Fail
    <3>2. \/ j.call.kind = "stake" /\ k.call = j.call /\ k.at = "commit unsent"
          \/ j.call.kind # "stake" /\ k.at = "idle"
          \/ j.call.kind \in Deployments /\ k.at = "wait" /\ k.call = j.call
      BY <1>10, <3>1
    <3>3. AgentJob(k, owed, row)
      BY <3>1, <3>2 DEF AgentInv, AgentJob, Deployments
    <3>4. ASSUME NEW a \in Agents \ owed
          PROVE  AgentRow(a, k, Coming(a), row)
      <4>1. Coming(a) = Expected(row[a])
        BY <3>1, <3>4 DEF AgentInv, AgentRow
      <4> QED
        BY <3>2, <4>1 DEF AgentRow
    <3>5. \A a \in Agents : Coming(a)' = Coming(a)
      BY <2>1 DEF Coming, AboutAgent
    <3> HIDE DEF k
    <3> QED
      BY <2>1, <3>1, <3>3, <3>4, <3>5 DEF AgentInv
  <2> QED
    BY <2>2, <2>3
<1>12. ASSUME NEW s \in Senders, NEW answered \in BOOLEAN, Accept(s, answered)
       PROVE  AgentInv'
  <2> DEFINE tx == [by |-> s, call |-> job[s].call]
  <2>1. /\ job[s].at = "signed" /\ pool' = tx
        /\ owed' = (owed \cup AboutAgent(pool)) \ AboutAgent(tx)
        /\ job' = [job EXCEPT ![s] = After(job[s], answered)]
        /\ row' = row /\ score' = score
    BY <1>12 DEF Accept, chain
  <2>2. tx \in Transactions /\ JobOK(s, job[s])
    BY <2>1 DEF CallInv, JobOK, Transactions
  <2>3. tx # None
    BY <2>2, NoneAssumption
  <2>4. AboutAgent(tx) = IF SetsScore(tx.call) THEN {tx.call.about} ELSE {}
    BY <2>3 DEF AboutAgent
  <2>5. ASSUME NEW a \in Agents \ owed', AboutAgent(tx) # {a}
        PROVE  a \notin owed /\ Coming(a)' = Coming(a)
    <3>1. a \notin AboutAgent(tx)
      BY <2>4, <2>5
    <3>2. a \notin owed /\ a \notin AboutAgent(pool)
      BY <2>1, <2>5, <3>1
    <3>3. Coming(a) = score[a]
      BY <3>2 DEF Coming
    <3>4. Coming(a)' = score[a]
      BY <2>1, <2>5 DEF Coming, AboutAgent
    <3> QED
      BY <3>2, <3>3, <3>4
  <2>6. CASE s # "api"
    <3>0. ~SetsScore(tx.call)
      BY <2>1, <2>2, <2>6 DEF JobOK, SetsScore
    <3>1. AboutAgent(tx) = {} /\ job'["api"] = j
      BY <1>0, <2>1, <2>4, <2>6, <3>0 DEF CallInv
    <3>2. owed \subseteq owed'
      BY <2>1, <3>1
    <3>3. \A a \in Agents \ owed' : a \notin owed /\ Coming(a)' = Coming(a)
      BY <2>5, <3>1
    <3>4. AgentJob(j, owed', row)
      BY <3>2 DEF AgentInv, AgentJob
    <3> QED
      BY <2>1, <3>1, <3>3, <3>4 DEF AgentInv
  <2>7. CASE s = "api"
    <3> DEFINE k == After(j, answered)
    <3>1. job'["api"] = k /\ j.at = "signed" /\ tx.call = j.call
      BY <1>0, <2>1, <2>7 DEF CallInv
    <3>2. \/ /\ j.call.kind = "stake" /\ k.call = j.call
             /\ k.at = IF answered THEN "commit" ELSE "commit unsent"
          \/ j.call.kind # "stake" /\ k.at = "idle"
          \/ j.call.kind \in Deployments /\ k.at = "wait" /\ k.call = j.call
      BY <1>10, <3>1
    <3> HIDE DEF k
    <3>3. AgentJob(k, owed', row)
      BY <3>1, <3>2 DEF AgentInv, AgentJob, Deployments
    <3>4. ASSUME NEW a \in Agents \ owed', AboutAgent(tx) # {a}
          PROVE  AgentRow(a, k, Coming(a)', row)
      <4>1. a \notin owed /\ Coming(a)' = Coming(a)
        BY <2>5, <3>4
      <4>2. Coming(a) = Expected(row[a])
        BY <3>1, <4>1 DEF AgentInv, AgentRow
      <4>3. ~(k.at = "commit" /\ k.call.about = a)
        <5>1. k.at = "commit" => j.call.kind = "stake" /\ k.call = j.call
          BY <3>2
        <5> QED
          BY <2>4, <3>1, <3>4, <5>1, ScoresAreSet
      <4> QED
        BY <4>1, <4>2, <4>3 DEF AgentRow
    <3>5. ASSUME NEW a \in Agents \ owed', AboutAgent(tx) = {a}
          PROVE  AgentRow(a, k, Coming(a)', row)
      <4>1. j.call.kind \in {"register", "stake"} /\ j.call.about = a
        BY <2>4, <3>1, <3>5, ScoresAreSet
      <4>2. Coming(a)' = Ais(j.call.kind)
        BY <2>1, <3>1, <3>5 DEF Coming, AboutAgent
      <4>3. CASE j.call.kind = "stake"
        BY <3>2, <4>1, <4>2, <4>3 DEF AgentRow, Ais, Deployments
      <4>4. CASE j.call.kind = "register"
        <5>1. k.at = "idle" /\ row[a] = "active"
          BY <3>1, <3>2, <4>1, <4>4 DEF AgentInv, AgentJob, Deployments
        <5> QED
          BY <4>2, <4>4, <5>1 DEF AgentRow, Ais, Expected
      <4> QED
        BY <4>1, <4>3, <4>4
    <3> QED
      BY <2>1, <3>1, <3>3, <3>4, <3>5 DEF AgentInv
  <2> QED
    BY <2>6, <2>7
<1>13. ASSUME Mine
       PROVE  AgentInv'
  <2> PICK ok \in Outcomes(pool.call) :
        /\ score' = IF ok /\ pool.call.kind \in AgentCalls
                    THEN [score EXCEPT ![pool.call.about] = Ais(pool.call.kind)] ELSE score
        /\ job' = [s \in Senders |-> AfterMined(s, pool, ok)]
    BY <1>13 DEF Mine
  <2> DEFINE k == AfterMined("api", pool, ok)
  <2>1. pool # None /\ pool' = None /\ row' = row /\ owed' = owed
    BY <1>13 DEF Mine, database
  <2>2. ASSUME NEW a \in Agents
        PROVE  Coming(a)' = Coming(a)
    <3>1. Coming(a)' = score'[a]
      BY <2>1 DEF Coming, AboutAgent
    <3>2. ok /\ pool.call.kind \in AgentCalls <=> SetsScore(pool.call)
      BY ScoresAreSet DEF SetsScore
    <3>3. CASE AboutAgent(pool) = {a}
      BY <2>1, <3>1, <3>2, <3>3 DEF Coming, AboutAgent, TablesOK
    <3>4. CASE AboutAgent(pool) # {a}
      BY <2>1, <3>1, <3>2, <3>4 DEF Coming, AboutAgent, TablesOK
    <3> QED
      BY <3>3, <3>4
  <2>3. job'["api"] = k
    BY <1>0
  <2>4. \/ k.at = j.at /\ k.call.kind = j.call.kind /\ k.call.about = j.call.about
        \/ j.at = "wait" /\ k.at = "idle"
        \/ j.at = "wait" /\ k.at = "insert" /\ k.call = j.call
    <3>1. CASE j.at = "wait"
      <4>1. k \in {j, [j EXCEPT !.at = "insert"], Idle}
        BY <3>1 DEF AfterMined
      <4> QED
        BY <1>0, <3>1, <4>1 DEF Jobs, Idle
    <3>2. CASE j.at = "signed"
      BY <1>0, <3>2 DEF AfterMined, Jobs
    <3>3. CASE j.at = "ready"
      BY <1>0, <3>3 DEF AfterMined, Jobs, JobOK, Calls
    <3>4. CASE j.at \notin {"wait", "signed", "ready"}
      BY <3>4 DEF AfterMined
    <3> QED
      BY <3>1, <3>2, <3>3, <3>4
  <2> HIDE DEF k
  <2>5. AgentJob(k, owed, row)
    <3>1. CASE k.at = j.at /\ k.call.kind = j.call.kind /\ k.call.about = j.call.about
      BY <3>1 DEF AgentInv, AgentJob
    <3>2. CASE k.at = "idle"
      BY <3>2 DEF AgentJob
    <3>3. CASE j.at = "wait" /\ k.at = "insert" /\ k.call = j.call
      BY <1>0, <3>3 DEF AgentJob, JobOK, Deployments
    <3> QED
      BY <2>4, <3>1, <3>2, <3>3
  <2>6. ASSUME NEW a \in Agents \ owed
        PROVE  AgentRow(a, k, Coming(a), row)
    <3>1. AgentRow(a, j, Coming(a), row)
      BY <2>6 DEF AgentInv
    <3> QED
      BY <2>4, <3>1 DEF AgentRow
  <2> QED
    BY <2>1, <2>2, <2>3, <2>5, <2>6 DEF AgentInv
<1>14. ASSUME CommitStake
       PROVE  AgentInv'
  <2> DEFINE c == j.call.about
             new == IF row[c] \in {"active", "staked"} THEN "staked" ELSE "revokedStaked"
  <2>1. /\ j.at \in {"commit", "commit unsent"}
        /\ row' = [row EXCEPT ![c] = new]
        /\ owed' = IF j.at = "commit" THEN owed ELSE owed \cup {c}
        /\ job' = [job EXCEPT !["api"] = Idle] /\ UNCHANGED <<score, pool>>
    BY <1>14 DEF CommitStake, Finish, chain
  <2>2. job'["api"] = Idle
    BY <1>0, <2>1 DEF CallInv
  <2>3. ASSUME NEW a \in Agents \ owed'
        PROVE  Coming(a)' = Expected(row'[a])
    <3>1. Coming(a)' = Coming(a) /\ AgentRow(a, j, Coming(a), row)
      BY <2>1, <2>3 DEF Coming, AboutAgent, AgentInv
    <3>2. CASE a = c
      <4>1. Coming(a) = 450
        BY <2>1, <2>3, <3>1, <3>2 DEF AgentRow
      <4>2. row'[a] \in {"staked", "revokedStaked"}
        BY <2>1, <3>2 DEF TablesOK, Roots
      <4> QED
        BY <3>1, <4>1, <4>2 DEF Expected
    <3>3. CASE a # c
      BY <2>1, <3>1, <3>3 DEF AgentRow, TablesOK, Roots
    <3> QED
      BY <3>2, <3>3
  <2> QED
    BY <2>2, <2>3, IdleAgentJob, IdleAgentRow DEF AgentInv
<1>15. ASSUME GiveUp \/ InsertContract
       PROVE  AgentInv'
  <2>1. /\ j.at \in {"wait", "insert"} /\ UNCHANGED <<row, owed, score, pool>>
        /\ job' = [job EXCEPT !["api"] = Idle]
    BY <1>15 DEF GiveUp, InsertContract, Finish, chain, database
  <2>2. job'["api"] = Idle
    BY <1>0, <2>1 DEF CallInv
  <2>3. ASSUME NEW a \in Agents \ owed
        PROVE  Coming(a)' = Expected(row[a])
    BY <2>1 DEF Coming, AboutAgent, AgentInv, AgentRow
  <2> QED
    BY <2>1, <2>2, <2>3, IdleAgentJob, IdleAgentRow DEF AgentInv
<1>16. CASE LoseConnection \/ UNCHANGED vars
  BY <1>16, OthersKeepAgents DEF LoseConnection, vars, database, chain
<1> QED
  BY <1>1, <1>2, <1>3, <1>5, <1>6, <1>7, <1>8, <1>9, <1>11, <1>12, <1>13, <1>14,
     <1>15, <1>16 DEF Next

\* While the API is in no call, the registry has (or will have, once the pending
\* transaction is mined) the score an agent's row makes one expect, unless the
\* last call that sets it did not reach the chain or its commit failed.  A
\* revocation sets none (identity_api.py:521, ReputationRegistry.sol:153), but
\* may displace one that does.
THEOREM ChainAgrees == Spec => []ChainAgreesWithDatabase
<1>1. Init => AgentInv
  <2> SUFFICES ASSUME Init
               PROVE  AgentInv
    OBVIOUS
  <2>1. job["api"] = Idle
    BY SendersAssumption DEF Init
  <2>2. \A a \in Agents : Coming(a) = Expected(row[a])
    BY DEF Init, Coming, AboutAgent, Expected
  <2> QED
    BY <2>1, <2>2, IdleAgentJob, IdleAgentRow DEF AgentInv
<1>2. AgentInv => ChainAgreesWithDatabase
  BY IdleAgentRow DEF AgentInv, ChainAgreesWithDatabase
<1> QED
  BY <1>1, <1>2, InitEstablishesTypes, StepKeepsTypes, StepKeepsAgents, PTL DEF Spec
=============================================================================
