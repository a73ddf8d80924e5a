# Integrity Oracle: TLA+ models, model checking and proofs

This directory is a verification development of the repository: TLA+ modules
translated from its source, TLC configurations that check them on small
instances, and proofs of the most important results for every value of the
constants. Paths below are relative to the repository root.

## 1. Inventory of the system

| Component | State it keeps | Operations | What makes it correct |
|---|---|---|---|
| Telemetry pipeline (`backend/src/main.rs`) | replay cache, bounded channel (10000), writer's buffer (100), tables `agents`, `transaction_logs`, `agent_daily_snapshots`, `market_tasks` | `ingest_telemetry`, the background writer, `flush_telemetry_batch`, start-up | one row per integrity hash; a batch is atomic; the aggregates agree with the log; queued tasks are decided; replays are refused |
| Rollup committer and Merkle tree (`main.rs`, `merkle.rs`, `rollup_daemon.rs`) | `transaction_logs.rollup_status`, `rollup_batches`, the on-chain root | `commit_rollup_batch` by HTTP and by the daily daemon, `MerkleTree::new`, `get_proof` | a committed row is a leaf of exactly one batch; every proof leads to the root |
| Disputes (`main.rs`, `dispute_resolver.py`, `Slasher.sol`) | `dispute_status`, `penalty_points`, `current_ais`, both witnesses' metadata, on-chain `disputes` | `raise_dispute`, `resolve_dispute`, `trigger_resolution`, `raiseDispute`, `resolveDispute` | points are those of the slashes; a slashed deal was penalised; an opening is decided once |
| Token and registry (`IntegrityToken.sol`, `ReputationRegistry.sol`) | balances, stakes, fee settings, agent records | mint, transfer with fee, stake, unstake, `verifyAgent`, `updateAIS` | the registry can pay back every stake; supply is capped; only certified agents act |
| Bridge, anchors, account abstraction (`contracts/`) | roots per timestamp, wallets, sponsored operations | `anchorRoot`, `bridgeReputation`, `_ccipReceive`, paymaster validation | a bridged score arrives as it was sent |
| Identity in the Rust backend (`main.rs`) | owners, claims, XNS handles, metadata | `register_agent`, `claim_ownership`, `register_xns_handle`, `update_agent_metadata` | one owner and one handle per agent; concurrent updates are not lost |
| oracle-core (`oracle-core/src/main.rs`) | Redis nonces, proof queue (1000), `transaction_logs` | `ingest_telemetry`, the proof worker, the anchor worker | a nonce is accepted once while its key lives; an accepted proof is processed; a nonce comes back |
| Trust API and Identity API (Python) | virtual ITK balances, wallets, loans, owners, XNS handles, tiers, scores, metadata, market tasks, equity, DIDs | profile, wallet, loan, name, register, upgrade, stake, bind, revoke, start-up | a balance moves for a reason; names are unique; what is said of an agent agrees; a seed's name is there for it when the process starts |
| Blockchain service (`blockchain_service.py`) | one account with a nonce, its pending transaction | sign and send, receipts, deployments | the chain agrees with the database; a listed contract exists |
| Merkle service and hourly daemon (Python) | the daemon's database session | `calculate_reputation_root`, `get_merkle_proof`, `process_rollup` | the proof leads to the anchored root; roots keep coming and move forward |
| Scoring (`scoring-core`, `scoring_engine.py`, `aggregator`) | none | `calculate_ais` | scores stay in range and under their ceilings |
| Read endpoints, circuits, KMS, gateway, deployment | none that outlives a call | queries, predicates, I/O | not modelled |

**How they interact.** The Python services call the Rust backend over HTTP to
report telemetry; both sides and oracle-core write the same Postgres tables
without a common lock. The telemetry writer, the rollup committer, dispute
resolution and the market place meet in `transaction_logs`, `agents` and
`market_tasks`; both sides write `penalty_points` and `current_ais`. The API, the
hourly daemon and the scripts drive the contracts from one key, each with its
own idea of the next nonce.

**What is hard.** Check-then-act sequences split over `await` points or lock
releases; statements that fail inside a Postgres transaction; several writers
of one row without a transaction; a bounded queue in front of an unreliable
database; restarts that lose memory and keep the database, or put seeds back;
one nonce for several processes; calls whose failure is only printed; an ORM
that does not see a change made in place; arithmetic that a column or a fee
does not follow.

## 2. Modules and how they correspond to the code

`PROJECT.json`, "map", gives the source lines of every definition. Actions carry
the names of the functions or of the statements they stand for; definitions
with an underscore (`Reserve_Skipped`) are mutated forms of an action, used to
confirm that a property can fail, and take no part in `Next`.

| Module | Models | State and actions |
|---|---|---|
| `TelemetryLog` | the promise of the pipeline to its callers | submissions wait, are written once per hash or are forgotten |
| `TelemetryPipeline` | `ingest_telemetry`, the background writer, `flush_telemetry_batch`, start-up (`backend/src/main.rs`) | a handler is a program counter over its `await` points (`lookup`, `register`, `verify`, `reserve`, `send`); the writer receives, times out and flushes; a flush commits as a whole or rolls back; `Restart` keeps the tables only |
| `Rollup` | `commit_rollup_batch`, HTTP and daemon | SELECT, INSERT of the batch, UPDATE of the rows and anchoring are four steps; `BreakOff` ends a call between any two |
| `MerkleTree` | `merkle.rs`, `merkle_service.py` | the construction loop level by level; proofs as functions of the levels |
| `Disputes` | `raise_dispute`, `resolve_dispute` | a resolution is SELECT, UPDATE of the agent and UPDATE of the row, without a transaction |
| `DualWitness` | `dispute_resolver.py` and the metadata endpoints of `trust_api.py`, composed with `Disputes` | a judgement reads the row and the agent, and one commit at its end writes what it changed; `Backend` is a step of `Disputes` |
| `Arbitration`, `Slasher` | `Slasher.sol` and its promise | a transaction is a step; the clock ticks |
| `IntegrityToken`, `ReputationRegistry` | the two contracts | a transaction is a step; `_update` with fee and burn is a shared operator: three payments one after another, each with its own balance check, so that a transfer to oneself needs less than its value |
| `AgentDirectory` | `register_agent`, `agent_handshake`, `register_xns_handle`, `update_agent_metadata`, `claim_ownership` | a session's job is the statement it executes next, with the values it has read |
| `TrustApi` | profiles, wallets, loans, agents, names, tiers, stakes, bindings, metadata, seeds (`trust_api.py`, `identity_api.py`) | an endpoint without an `await` is one action; the token check is an action before it; `Stop` and `Start` |
| `OracleChain` | `blockchain_service.py` and what calls it: registration, stakes, revocations, anchors, faucet, deployments, `rollup_daemon.py` | a call is nonce, signature and acceptance; the account's pending transaction may be displaced; the daemon keeps its session |
| `OracleCore` | `oracle-core/src/main.rs` | SETNX, EXPIRE and `send()` are three steps of a handler; the worker; Redis's keys expire; kills keep Redis and the table |

What the modules abstract from, besides wording and logging:

* A hash, an agent, a handle is a member of a small set. In `MerkleTree` a hash
  is the term of what was hashed, so that equal hashes have equal inputs.
* Scores of the pipeline are given per submission (`AisOf`): their computation
  is the scoring component.
* A failed statement inside a Postgres transaction aborts the transaction, the
  statements after it fail, and COMMIT rolls back while it reports success. The
  flush logs each error, goes on and commits, so `FlushRollsBack` is what it does.
* The writer's clock of 100 ms is an action that is possible when no task is
  waiting; the order in which the runtime polls tasks is arbitrary.
* The deals `Slasher.sol` looks up are kept by a contract the repository does
  not hold; a deal becomes completed once. `ReputationRegistry.sol` does not
  compile as committed (a second contract header and "..." in its middle); its
  functions are modelled as written.
* `blockchain_service.py` and `identity_api.py` import a sibling with
  `from .kms_service`, although they are loaded as top-level modules, which
  fails as committed: they are modelled as written, with that import working.
* The database of `TrustApi` has its tables, as the repository's
  `integrity_protocol.db` has. On an empty one `create_all` fails: a foreign key
  of `ContractClaim` names a column that does not exist.
* The nonce counts mined transactions, so at most one transaction of the account
  is pending; a transaction is refused or displaces it, whichever gas prices say.
* `commit_rollup_batch` selects `log_id` (`main.rs:1131`), and the table's key is
  `transaction_id` (`init.sql:21`, `database.py:122`): on the schema the repository
  holds, every commit that gets that far answers 500 and nothing is ever rolled up.
  `LogIdColumn` says whether the table has the column, and the run gives it TRUE:
  it asks what the protocol of SELECT, INSERT, UPDATE and anchoring does on a
  table the statement fits. Without the column `Select` is never taken.
* Virtual amounts are integers of either sign, as `sync_virtual_balance` and
  `request_loan` check no lower bound; NaN, and amounts beyond what the
  column holds, are left out.
* `seed_hermes_fleet` adds its keys to the metadata of the agents that have a
  configuration in `services/hermes_configs`, which the repository does not hold;
  `Fleet` is any set of agents.
* A task of the Rust services that panics is not modelled, and of the breaches of
  `dispute_resolver.py` the one of latency (`:45`) is left out: `Breach` has the
  two others.
* oracle-core's verifier (`primitives`) is not in the repository, and its INSERT
  names columns the migrations do not have: verifying and inserting succeed or
  fail.
* The Rust backend keys its rows by their hash and the Python endpoints look for
  a deal's id, so providers' terms are found only on the rows `simulate_slash.py`
  inserts.

**History variables** record what a property's exception is about, and no guard
reads them, except `openings`, `fees` and `expired`, which also carry a bound:
`lost` (dropped submissions), `answered`, `serial` and `late` (rollups; `late`
are the rows that arrived after a commit had selected its rows), `hits`, `early`
and `openings` (disputes), `due` and `lost` (points of both services), `fees`
(kept by the token), `loose` and `mixed` (handles and agents whose check was
outdated when it was acted on), `owed` (agents whose last call that
sets a score did not reach the chain), `broken`, `failed`, `accepted` and `expired` (oracle-core).

## 3. Runs

| Run | Question | Size |
|---|---|---|
| `telemetry_safety` | Do the replay cache, the log and the tables that follow it agree under replays, a full channel, outages and kills at any point? Does the pipeline implement `TelemetryLog`? | two handlers, five bodies, one place in the channel, batches of two |
| `telemetry_liveness` | Is everything queued decided, and every request answered? | as above, two bodies, no kills |
| `telemetry_duplicate_drops_batch` | (finding) Are only duplicates dropped? | no failures but the duplicate |
| `rollup_commit` | Do answers hold; are serial commits disjoint; which committed rows are in no batch; is everything rolled up in the end, on a table with the column? | three rows, an HTTP caller and the daemon, calls that break off |
| `merkle_trees` | Do level construction and proofs agree with the recursive tree? | all sequences of up to 5 of 2 leaves, up to 8 distinct ones, depth 3 |
| `dual_witness` | Are penalties accounted for, and slashed deals penalised, under overlapping and broken-off resolutions by both services? | one deal, two Rust resolvers, two Python ones, two judgements, `MaxPenalty` of two points |
| `slasher` | Is an opening decided once, and final after the window? | two deals, eight blocks |
| `token_registry` | Are supply, stakes and totals consistent? What does the registry lack? | cap 7, amounts 2 and 4, a fee of a quarter to a half |
| `agent_directory` | Do handles stay unique, merges keep the other fields, owners stay? | two agents, handles, owners and sessions |
| `trust_api` | What does a balance move for; when does a credential overstate its agent; when is a binding lost; what does it take that the process can no longer start? | a guest and a user, the guest's seed and another agent with a Hermes configuration, two names, one loan or deposit of either sign |
| `oracle_chain` | What agrees between database and chain when calls displace, refuse and lose one another? Do roots keep coming? | API, daemon and a script; one agent, one deployment, three requests |
| `oracle_core` | One row per reservation? Is anything accepted lost? Does a nonce come back, and a waiting handler get room? | two handlers, a queue of one, a sound and an unsound payload, two expiries |

**Why the bounds are enough.** The channel of one place and the batch of two let
the channel fill, a batch hold a duplicate, and a timeout flush a partial batch;
two bodies share a hash with different scores (the hash leaves the metrics out)
and two share the account a uuid gets. With one row picked, one arriving in
between and one arriving later, three rows show every relation between two
commits. `MaxPenalty` stands for the 9.99 of `DECIMAL(3, 2)` and
is reached; points are tenths, since the resolver gives 0.4 for some breaches and
caps what it stores at 1.0, under what two slashes of the backend give;
`MaxOpenings` (2) lets a decided dispute be opened again, and `MaxTrials` (2) lets
judgements overlap. `LastBlock` (8) holds
two windows of the longer length. A fee unit of 4 instead of 10000 makes fee
and burnt half round down to zero for 2 and not for 4; `Multipliers` holds
values that are refused; `MaxFees` (2) bounds the only unbounded debt.
`Claimable` limits claims to one agent, since a claim touches only the rows of
its own agent; the metadata handlers use both. `agent_directory` uses the
symmetry of handles, owners and sessions: it checks safety only, and nothing
in the module tells their members apart. `dual_witness` uses the symmetry of resolvers and of courts
and checks safety only as well. In `trust_api` the guest owns the seed, can give
up its name and buy the short one for 5 of the 6 it starts with; of the amounts 3
and -7, the second turns the 6 into a debt; 870 and 860 are
above the ceilings of tiers 1 and 2 and on the other side of a trust level, and
only the agent of `Operated` changes its tier, score and metadata, which no
other agent's depend on. `MaxRequests` (3) lets a registration, a revocation and
a stake, or an anchor between two of them, meet the daemon and a script at every
stage of their calls; the daemon's rounds are not bounded. A queue of one in
`oracle_core` is full with one payload under way, so both handlers may wait;
`MaxExpiries` (2) lets a payload outlive its key twice. `Outages`, `Crashes` and `Failures`
are off in some runs to ask for a shorter counterexample, or because a kill
loses the queue and there is nothing left to drain.

**Deadlock** is checked, except for `Rollup` (all rows committed and no call
running), `MerkleTree` (a finished tree), and `TrustApi` (a process that cannot
start any more), which really stop.

**Fairness.** *Pipeline*: `WF` of a handler's steps, of the writer's (tokio polls
every ready task); `SF` of `Enqueue`, since the channel's semaphore serves its
waiting senders in order; `SF` of the end of a flush: an outage of the database
ends at some time. `BeginFails` keeps the buffer, so the weaker `WF` would let
the writer retry for ever. *Rollup*: `WF` of the daemon's tick and of anchoring,
whose failure is swallowed; `SF` of its two writes: not all of its daily
attempts fail. HTTP callers get no fairness. *Trust API*: none; the
compose file names no restart policy, and the run asks for safety only. *Chain*: `WF` of mining what is pending;
for the daemon `SF` of its round, its nonce and its acceptance: its loop goes on,
and not every one of its transactions is refused or outrun. *oracle-core*: `WF`
of EXPIRE, of the worker and of expiring keys; `SF` of `send()`, since tokio's
channel serves its waiting senders in order.

## 4. What the runs show

All "pass" runs hold. One result contradicts the repository's own words:

**A duplicate drops its whole batch** (`telemetry_duplicate_drops_batch`). Two
requests with one hash both pass the replay check, since its read lock is
released before the write lock is taken; the second INSERT violates
`on_chain_tx_hash`'s uniqueness and aborts the transaction of up to 100
tasks. All of them were answered with 200, none is written, and their hashes
stay in the cache, so that sending them again gets a 409 until a restart.
What holds is proved: one row per hash, and aggregates that agree with the log.

The conditions in the other properties say what the code does not promise; each
stands for a behaviour of the code:

* A row that arrives between the SELECT and the UPDATE of a rollup is marked
  COMMITTED outside every batch (`main.rs:1198`): `AnsweredIsCommitted` speaks of
  rows that were selected, and `UnbatchedCameLate` says that no other row is
  ever left out.
* `PendingIsCommitted` holds on a table with a `log_id` column only; on the
  repository's own schema no commit succeeds (section 2).
* The backend slashes a decided dispute again, and stores its points by adding,
  the resolver by overwriting (`PenaltiesAccountedFor`).
* The registry credits stakes in full and receives them less the token's fee, so
  it owes more than it holds; `ShortfallIsFees` shows that this is the only leak.
* A revocation never reaches the score on the chain: it sends `updateAIS` with 0
  (`identity_api.py:521`), the registry refuses scores under 300
  (`ReputationRegistry.sol:153`), and the API prints that the agent is revoked
  on-chain. The agent keeps its score there, and a later stake still raises it
  (`ChainAgreesWithDatabase`, whose `Expected` says so).
* A synchronised or borrowed amount may be negative: it lowers a balance, below
  zero if need be (`BalancesMoveForAReason`).
* A binding made over existing metadata is answered with success and never
  stored (`BindingLostOnlyOverMetadata`). A seed whose name another agent holds keeps
  the API from starting; `SeedsLoseOnlyWhatTheyGaveUp`: a name gets there only if
  the seed's own owner bought the seed another one.
* A nonce whose reservation was cut short between SETNX and EXPIRE never comes
  back (`NonceComesBack`), and a retry after the key's hour is written again
  (`OncePerReservation`).
* A daemon whose session lost its connection anchors no more
  (`RootsKeepComing`), and the older of two roots computed at once may be the
  last (`AnchorsMoveForward`).

Conditional properties say precisely when the code keeps its promise without a
transaction: `HandlesUnique` for handles whose check still held when they were
written, `MergesKeepTheRest` for copies that were not outdated, `ClaimsAgree`
and `OwnersStay` for agents whose claims did not overlap or break off,
`SerialCommitsCountOnce` for commits that ran one at a time,
`PathsLeadToStateRoot` for no more agents than the tree has leaves.

## 5. Proofs

The theorems hold for every value of the constants under the `ASSUME` of the
module, which asks for types, finite sets where something is counted, and a
None that is no element. `tlapm` checks them to the last leaf.

| Module | Results | Argument |
|---|---|---|
| `TelemetryProofs` | `TypeCorrect`, `ReplaysAreRefused`, `HashesAreUnique`, `SnapshotsCount`, `SettlementsAreBacked`, `ScoresAreBacked`, `BatchesAreAtomic`, `PipelineImplementsLog` | types and the cache invariant are inductive together; `LogInv` adds that the log is finite and holds one row per hash, without which counting a batch's tasks would not count the rows it adds: a batch that commits has distinct new hashes, so `Cardinality` grows by the tasks of each account, and a score it sets is that of a task that becomes a row |
| `RollupProofs`, about `Rollup` | `AnswersHold`, `SerialCounts`, `OnlyLateOnesAreLeftOut` | `PhaseInv`: what a commit picked stays logged, then recorded, then committed; `SerialInv`: while commits are serial, a waiting row is in a batch only between the INSERT and the UPDATE of the one commit that runs; `LateInv`: a committed row in no batch, and a logged row an active commit did not pick, arrived late |
| `RollupProofs`, about `MerkleTree` | `LeavesAreProved`, `ProofsAreBinding`, `LevelsAreComplete`, `PathsAreProofs` | `TreeInv`: every level has a node for each pair of the one below; along a level's heights a leaf's ancestor is its index halved, its sibling is there, and hashing the two gives the ancestor one height up (`ClimbLeads`); equal hashes have equal parts, which read downwards gives that only the leaf leads to the root (`ClimbBinds`); a padded level is even until one node is left (`PaddedHalves`) |
| `DisputesProofs`, about `Disputes` | `TypeCorrect`, `SlashedHasPenalty` | `JobInv`: a justified resolution that reached the status was penalised or came early |
| `DisputesProofs`, about `DualWitness` | `WitnessTypeCorrect`, `WitnessSlashedHasPenalty`, `PointsAreAccountedFor` | a judgement has read a row that is there, and rows never leave; then the steps of the backend are those shown before, a verdict SLASHED comes with its penalty, and a judgement that saw all points within the ceiling adds exactly its breach |
| `ContractProofs`, about `Slasher` | `SlasherTypeCorrect`, `DecisionsStayFinal`, `SlasherRefinesArbitration` | the type invariant (no dispute starts in the future) is inductive; each transaction maps to a step of `Arbitration` or to a stutter |
| `ContractProofs`, about the token and the registry | `TypeCorrect`, `CappedSupply`, `BackedStakes`, `LedgerBalances`, `FeesAreTheShortfall` | `TokenInv`: caps and backing are inductive with the types, from the lemma that a transfer of someone else takes nothing from the token contract, through each of the three payments, and that a stake arrives in full; a sum over accounts is the number of its units (pairs of an account and a number below its balance), so that a move changes it by what two accounts gain and lose; a stake, a withdrawal and a slash change what the registry owes and holds alike, except for the fee |
| `TrustApiProofs` | `TypeCorrect`, `BindingsAreKept`, `BalancesHaveReasons`, `OverstatedOnlyThen`, `SeedsLoseWhatTheyGaveUp` | `GuestInv`: a guest the token check has not seen has at most the welcome amount, as no credit passes the check; `Moves` lists what a step does to balances, of either sign; `HandleInv`: handles are unique, and before the first start nobody has one, so that only a purchase takes a seed's name from it; levels rise with the score, so raising a ceiling hides no difference |
| `ChainProofs` | `TypeCorrect`, `ChainAgrees`, `ListedContractsExist`, `RootsMoveForward` | `CallInv`: which process makes which calls and waits where; `AgentInv`: a registered agent is owed its score until a call that sets it is accepted, a revocation sets none, and an accepted stake is on its way before its row, so that an agent not owed agrees as soon as the API is idle; `ContractInv`: a receipt that is read has mined its contract; `RootInv`: rows only move to the right, and a root on its way is not older than the anchored one unless it is late or its nonce outdated, which mining another makes it |
| `DirectoryProofs` | `DirectoryTypes`, `UniqueHandles`, `MergesKeep`, `ClaimsMatchOwners`, `NoTakeover` | `Guarded`: what the check of a session found still holds while the session is sound, a copy that sets an alias still has its agent's handle, and a handle not written loosely has one holder; each write keeps the other sessions' guards or makes them unsound. `ClaimsInv`: of an agent whose claims never overlapped, one session at a time writes owner and claims; between two such sessions they agree, and one past its check finds no other owner |
| `CoreProofs` | `TypeCorrect`, `RowsPerReservation`, `AcceptedIsKept` | counting: a payload's rows, its places in the queue and with the worker, and its handlers past SETNX are together no more than its reservations; a step moves one of them, and two lemmas say what appending to the queue and taking its head do to the count |

Every invariant the runs check, and every property of a step, is stated by one
of these theorems, but for the one the repository's comment claims and the code
violates; so is the type invariant of every module that has one.

**Induction.** The prover cannot instantiate the library's induction theorems,
whose parameter is an operator. Where an argument goes over heights, levels or
amounts, the set of values for which it fails has a least member (`WFMin`), at
which it cannot fail: the lemma `UpTo` of `RollupProofs` is this argument, once,
for a set of numbers. The recursive functions of `MerkleTree` are unrolled
by lemmas that show that a function satisfying the recursion exists.

**Conditions.** `PathsAreProofs` speaks of trees with no more leaves than the
padded tree holds: nothing in `merkle_service.py` keeps the agents under
2^16, and with more of them the root leaves some out. Hashing is assumed
free of collisions: a hash is the term it was computed from.

**Only model-checked**: liveness (`QueueDrains`, `HandlersAnswer`,
`PendingIsCommitted`, `RootsKeepComing`, `NonceComesBack`,
`HandlersEnd`), which with fairness and ENABLED is out of this prover's reach.

## 6. Not modelled

* Signature recovery, encryption, ZK proving and circuits: computation on terms a
  model checker cannot reach. The scoring formulas before their ceilings:
  floating point; the models take any score.
* Read endpoints of the backend and DID documents (no state); scripts and deployment.
* `contract_monitor.py`: a claim refers to `transaction_logs.log_id`, a column that
  is called `transaction_id`, so no claim can be stored; its payout is a print, and
  nothing calls `scan_all`.
* Transfers of virtual ITK: they subtract a float from a Decimal and always fail.
* Market tasks' creation and bids, equity, settings, inquiries and proposals: one
  row written in one commit, on which nothing acts (the pipeline's settlement of
  bids is in `TelemetryPipeline`). The rate limit: a list in memory.
* `CCIPReputationBridge.sol`: the sender encodes two fields and the receiver decodes
  three, so every delivery reverts. The paymasters and the account factory keep no
  state their checks depend on.
* Roles, validation requests and the CCIP broadcast of the registry: one flag
  each, or no state of this contract.

## 7. Plan

What is left is more proof: abstract specifications of the ingestion service and
of the rollup's ledger, which their modules implement, and the steps towards
the liveness properties that are safety (what a waiting handler may rely on).
