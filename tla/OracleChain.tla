---------------------------- MODULE OracleChain ----------------------------
(***************************************************************************)
(* The oracle's one account on the chain and the processes that send from  *)
(* it: the API (trust_api.py, identity_api.py), the hourly daemon          *)
(* (rollup_daemon.py) and scripts (faucet_worker.py), all through          *)
(* blockchain_service.py.                                                  *)
(*                                                                         *)
(* A call reads the nonce, which counts mined transactions only, signs and *)
(* sends.  Every exception is caught and the call returns None.  A call    *)
(* blocks its process, so each sender has one at a time.  So at most one   *)
(* transaction of the account is pending: the next one has its nonce and   *)
(* is refused, or displaces it when the gas price has risen.               *)
(*                                                                         *)
(* The root of the agents is represented by the agents' rows.  The chain   *)
(* and the node are external.                                              *)
(***************************************************************************)
EXTENDS Naturals

CONSTANTS
    Senders,     \* "api", "daemon" and scripts
    Agents,
    Contracts,   \* the deployments asked for
    MaxRequests, \* how many requests an instance sees
    None

ASSUME SendersAssumption == {"api", "daemon"} \subseteq Senders
ASSUME RequestsAssumption == MaxRequests \in Nat

VARIABLES
    row,      \* an agent's row, as far as the calls and the root depend on it
    owed,     \* agents whose row and last accepted score may differ (history)
    tracked,  \* rows of user_contracts
    requests, \* requests so far
    session,  \* the daemon's database session
    job,      \* the call each sender is in
    pool,     \* the account's pending transaction, or None
    score,    \* the AIS of each agent in the registry contract, or None
    anchored, \* the root in the anchor contract, or None
    deployed  \* contracts on the chain

database == <<row, owed, tracked, requests>>
chain == <<score, anchored, deployed>>
vars == <<database, session, job, pool, chain>>

\* A row is absent, fresh, has a recorded stake, is revoked, or is revoked and
\* has a stake, recorded before or after.  It only moves to the right.
Rows == <<"none", "active", "staked", "revoked", "revokedStaked">>
Rank(r) == CHOOSE k \in DOMAIN Rows : Rows[k] = r

AgentCalls == {"register", "stake", "revoke"}
Deployments == {"sla", "insurance", "custom"}

\* A call: its kind, what it is about, and whether its root was computed
\* before another was anchored.
Call(kind, about) == [kind |-> kind, about |-> about, late |-> FALSE]
Idle == [at |-> "idle", call |-> None, stale |-> FALSE]

Init ==
    /\ row = [a \in Agents |-> "none"] /\ owed = {} /\ tracked = {}
    /\ requests = 0 /\ session = "fresh"
    /\ job = [s \in Senders |-> Idle] /\ pool = None
    /\ score = [a \in Agents |-> None] /\ anchored = None /\ deployed = {}

(***************************************************************************)
(* Requests to the API, up to their call.                                  *)
(***************************************************************************)
Begin(s, call) ==
    /\ job[s] = Idle
    /\ job' = [job EXCEPT ![s] = [at |-> "ready", call |-> call, stale |-> FALSE]]

Request == requests < MaxRequests /\ requests' = requests + 1

\* The agent's row is committed, then its first score is sent.
Register(a) ==
    /\ Request /\ row[a] = "none"
    /\ row' = [row EXCEPT ![a] = "active"] /\ owed' = owed \cup {a}
    /\ Begin("api", Call("register", a))
    /\ UNCHANGED <<tracked, session, pool, chain>>

\* A stake is sent before it is committed, whether or not the agent is active.
Stake(a) ==
    /\ Request /\ row[a] # "none"
    /\ Begin("api", Call("stake", a))
    /\ UNCHANGED <<row, owed, tracked, session, pool, chain>>

\* Revoking a second time meets the UNIQUE did and ends before its call.
Revoke(a) ==
    /\ Request /\ row[a] \in {"active", "staked"}
    /\ row' = [row EXCEPT ![a] = IF @ = "active" THEN "revoked"
                                 ELSE "revokedStaked"]
    /\ Begin("api", Call("revoke", a))
    /\ UNCHANGED <<owed, tracked, session, pool, chain>>

AnchorProtocolState ==
    /\ Request /\ Begin("api", Call("anchor", row))
    /\ UNCHANGED <<row, owed, tracked, session, pool, chain>>

\* A wallet was created, or faucet_worker.py was run.
FaucetDrop(s) ==
    /\ s # "daemon" /\ Request
    /\ Begin(s, Call("transfer", None))
    /\ UNCHANGED <<row, owed, tracked, session, pool, chain>>

Deploy(c, kind) ==
    /\ Request /\ c \notin deployed
    /\ \A s \in Senders : job[s].call # None => job[s].call.about # c
    /\ pool # None => pool.call.about # c
    /\ Begin("api", Call(kind, c))
    /\ UNCHANGED <<row, owed, tracked, session, pool, chain>>

(***************************************************************************)
(* The daemon, which keeps one session for ever.                           *)
(***************************************************************************)
\* Mutant: one round and no loop.
ProcessRollup_Once ==
    /\ session = "fresh"
    /\ session' = "open"
    /\ Begin("daemon", Call("anchor", row))
    /\ UNCHANGED <<database, pool, chain>>

\* Exceptions are caught but the session is never rolled back: once its
\* transaction is lost, every round fails.
ProcessRollup ==
    /\ session # "broken"
    /\ session' = "open"
    /\ Begin("daemon", Call("anchor", row))
    /\ UNCHANGED <<database, pool, chain>>

LoseConnection ==
    /\ session = "open" /\ job["daemon"] = Idle
    /\ session' = "broken"
    /\ UNCHANGED <<database, job, pool, chain>>

\* A process stops, wherever it is, and is started again; a stake that was
\* sent is then not committed.
Restart(s) ==
    /\ job[s] # Idle \/ (s = "daemon" /\ session # "fresh")
    /\ job' = [job EXCEPT ![s] = Idle]
    /\ session' = IF s = "daemon" THEN "fresh" ELSE session
    /\ owed' = IF job[s].at \in {"commit", "commit unsent"}
               THEN owed \cup {job[s].call.about} ELSE owed
    /\ UNCHANGED <<row, tracked, requests, pool, chain>>

(***************************************************************************)
(* A call.                                                                 *)
(***************************************************************************)
\* Where the endpoint goes on when its call returned: the stake is committed,
\* sent or not; a deployment waits for its receipt if it was sent.
After(j, sent) ==
    CASE j.call.kind = "stake" ->
           [j EXCEPT !.at = IF sent THEN "commit" ELSE "commit unsent"]
      [] j.call.kind \in Deployments /\ sent -> [j EXCEPT !.at = "wait"]
      [] OTHER -> Idle

ReadNonce(s) ==
    /\ job[s].at = "ready"
    /\ job' = [job EXCEPT ![s].at = "signed"]
    /\ UNCHANGED <<database, session, pool, chain>>

\* No node, or the transaction is refused.
Fail(s) ==
    /\ job[s].at \in {"ready", "signed"}
    /\ job' = [job EXCEPT ![s] = After(@, FALSE)]
    /\ UNCHANGED <<database, session, pool, chain>>

\* The score a call about an agent sends.
Ais(kind) == CASE kind = "register" -> 300 [] kind = "stake" -> 450
               [] kind = "revoke" -> 0

\* Mutant: no lower bound.
InRange_FromZero(ais) == ais <= 1000

\* The scores the registry contract takes; any other call reverts.
InRange(ais) == ais >= 300 /\ ais <= 1000

SetsScore(call) == call.kind \in AgentCalls /\ InRange(Ais(call.kind))

AboutAgent(tx) == IF tx # None /\ SetsScore(tx.call)
                  THEN {tx.call.about} ELSE {}

\* Mutant: an outdated nonce is read again and the transaction sent.
Accept_Retries(s, answered) ==
    LET tx == [by |-> s, call |-> job[s].call]
    IN /\ job[s].at = "signed"
       /\ pool' = tx
       /\ owed' = (owed \cup AboutAgent(pool)) \ AboutAgent(tx)
       /\ job' = [job EXCEPT ![s] = After(@, answered)]
       /\ UNCHANGED <<row, tracked, requests, session, chain>>

\* The node takes a transaction whose nonce is still the next, in place of
\* the pending one if there is one.  Its answer may not arrive.
Accept(s, answered) ==
    LET tx == [by |-> s, call |-> job[s].call]
    IN /\ job[s].at = "signed" /\ ~job[s].stale
       /\ pool' = tx
       /\ owed' = (owed \cup AboutAgent(pool)) \ AboutAgent(tx)
       /\ job' = [job EXCEPT ![s] = After(@, answered)]
       /\ UNCHANGED <<row, tracked, requests, session, chain>>

\* Mutant: the receipt's address is taken for every contract.
HasAddress_Receipt(kind, ok) == TRUE

\* The address is read from the factory's event, which a reverted transaction
\* has not; of a custom contract, from the receipt, which always has one.
HasAddress(kind, ok) == ok \/ kind = "custom"

\* Where sender s is after a transaction was mined: a nonce already read is
\* outdated, a root already computed is late, and who waits has the receipt.
AfterMined(s, tx, ok) ==
    LET j == job[s]
    IN CASE j.at = "wait" /\ tx.by = s /\ tx.call = j.call ->
              IF HasAddress(j.call.kind, ok) THEN [j EXCEPT !.at = "insert"] ELSE Idle
         [] j.at = "signed" -> [j EXCEPT !.stale = TRUE]
         [] j.at = "ready" /\ {j.call.kind, tx.call.kind} = {"anchor"} ->
              [j EXCEPT !.call.late = TRUE]
         [] OTHER -> j

\* A deployment may revert, a score out of range always does.
Outcomes(call) == IF call.kind \in Deployments THEN BOOLEAN
                  ELSE {call.kind \in AgentCalls => SetsScore(call)}

Mine ==
    /\ pool # None /\ pool' = None
    /\ \E ok \in Outcomes(pool.call) :
         LET call == pool.call
         IN /\ score' = IF ok /\ call.kind \in AgentCalls
                        THEN [score EXCEPT ![call.about] = Ais(call.kind)] ELSE score
            /\ anchored' = IF call.kind = "anchor" THEN call.about ELSE anchored
            /\ deployed' = IF ok /\ call.kind \in Deployments
                           THEN deployed \cup {call.about} ELSE deployed
            /\ job' = [s \in Senders |-> AfterMined(s, pool, ok)]
    /\ UNCHANGED <<database, session>>

(***************************************************************************)
(* Requests to the API, after their call.                                  *)
(***************************************************************************)
Finish == job' = [job EXCEPT !["api"] = Idle] /\ UNCHANGED <<session, pool, chain>>

CommitStake ==
    LET a == job["api"].call.about
    IN /\ job["api"].at \in {"commit", "commit unsent"}
       /\ row' = [row EXCEPT ![a] =
                    IF @ \in {"active", "staked"} THEN "staked" ELSE "revokedStaked"]
       /\ owed' = IF job["api"].at = "commit" THEN owed ELSE owed \cup {a}
       /\ Finish /\ UNCHANGED <<tracked, requests>>

\* No receipt within the 120 seconds.
GiveUp ==
    /\ job["api"].at = "wait"
    /\ Finish /\ UNCHANGED database

InsertContract ==
    /\ job["api"].at = "insert"
    /\ tracked' = tracked \cup {<<job["api"].call.about, job["api"].call.kind>>}
    /\ Finish /\ UNCHANGED <<row, owed, requests>>

Next ==
    \/ \E a \in Agents : Register(a) \/ Stake(a) \/ Revoke(a)
    \/ AnchorProtocolState
    \/ \E s \in Senders : FaucetDrop(s) \/ Restart(s) \/ ReadNonce(s) \/ Fail(s)
    \/ \E s \in Senders, answered \in BOOLEAN : Accept(s, answered)
    \/ \E c \in Contracts, kind \in Deployments : Deploy(c, kind)
    \/ ProcessRollup \/ LoseConnection
    \/ Mine
    \/ CommitStake \/ GiveUp \/ InsertContract

\* The daemon's loop goes on, the chain mines what is pending, and now and
\* then the node takes the daemon's transaction.
Fairness ==
    /\ WF_vars(Mine)
    /\ SF_vars(ProcessRollup)
    /\ SF_vars(ReadNonce("daemon")) /\ WF_vars(Fail("daemon"))
    /\ SF_vars(Accept("daemon", TRUE))

Spec == Init /\ [][Next]_vars /\ Fairness

-----------------------------------------------------------------------------
RowNames == {"none", "active", "staked", "revoked", "revokedStaked"}
Roots == [Agents -> RowNames]

\* What a call is about follows from its kind.
Calls ==
    {c \in [kind : AgentCalls \cup Deployments \cup {"anchor", "transfer"},
            about : Agents \cup Contracts \cup Roots \cup {None}, late : BOOLEAN] :
        /\ c.kind \in AgentCalls => c.about \in Agents
        /\ c.kind \in Deployments => c.about \in Contracts
        /\ c.kind = "anchor" => c.about \in Roots}

Transactions == [by : Senders, call : Calls]

ASSUME NoneAssumption == None \notin Transactions

Stages == {"idle", "ready", "signed", "commit", "commit unsent", "wait", "insert"}

Jobs == [at : Stages, call : Calls \cup {None}, stale : BOOLEAN]

TablesOK ==
    /\ row \in Roots /\ owed \subseteq Agents
    /\ tracked \subseteq Contracts \X Deployments /\ requests \in 0 .. MaxRequests
    /\ session \in {"fresh", "open", "broken"}
    /\ pool \in Transactions \cup {None}
    /\ score \in [Agents -> {300, 450, None}]
    /\ anchored \in Roots \cup {None} /\ deployed \subseteq Contracts

TypeOK ==
    /\ TablesOK /\ job \in [Senders -> Jobs]
    /\ \A s \in Senders : job[s].at # "idle" => job[s].call \in Calls

\* What the chain says of an agent once the pending transaction is mined, and
\* what its row makes one expect: its stake counts, its revocation does not.
Coming(a) == IF AboutAgent(pool) = {a} THEN Ais(pool.call.kind) ELSE score[a]
Expected(r) == CASE r = "none" -> None [] r \in {"active", "revoked"} -> 300
                 [] OTHER -> 450

\* While the API is in no call, the chain has the score of an agent's row once
\* the pending transaction is mined, whatever was displaced, refused or reverted
\* before the last call that sets it, unless that call did not reach the chain
\* or its commit failed.  A revocation, meant to "update reputation to 0"
\* (identity_api.py:518), leaves the score as it was: the contract refuses 0
\* (ReputationRegistry.sol:153), and a stake recorded later still raises it.
ChainAgreesWithDatabase ==
    job["api"] = Idle =>
        \A a \in Agents \ owed : Coming(a) = Expected(row[a])

\* An SLA or insurance contract the API lists was deployed, whichever of its
\* transactions were displaced, reverted or answered too late.
TrackedContractsExist ==
    \A t \in tracked : t[2] = "custom" \/ t[1] \in deployed

\* A root never replaces one of later rows, though two processes anchor roots
\* without regard for each other, unless the other was anchored between its
\* computation and the reading of its nonce.
AnchorsMoveForward ==
    [][anchored # None /\ anchored' # anchored =>
          \/ pool.call.late
          \/ \A a \in Agents : Rank(anchored[a]) <= Rank(anchored'[a])]_vars

\* The anchored root keeps catching up with the agents ("Periodically anchors
\* the Merkle Root of all reputation scores", rollup_daemon.py:14), unless the
\* daemon's session is broken for good.
RootsKeepComing == []<>(anchored = row) \/ <>[](session = "broken")
=============================================================================
