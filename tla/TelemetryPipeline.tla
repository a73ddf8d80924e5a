------------------------- MODULE TelemetryPipeline -------------------------
(***************************************************************************)
(* The telemetry pipeline of backend/src/main.rs: POST /v1/telemetry       *)
(* handlers (ingest_telemetry) check the in-memory replay cache, reserve   *)
(* the integrity hash in it and queue a write task on a bounded channel;   *)
(* one background writer collects tasks and flushes them in one Postgres   *)
(* transaction (flush_telemetry_batch).  The process may be killed and     *)
(* restarted at any time; only the database survives.                      *)
(*                                                                         *)
(* A submission is one request body.  Its hash covers deal, latency,       *)
(* accuracy, amount, agent and nonce, not the metrics the AIS is computed  *)
(* from, so two submissions with different scores may share a hash.        *)
(*                                                                         *)
(* A statement that fails inside a Postgres transaction aborts it: the     *)
(* statements after it fail, and COMMIT rolls back and reports success.    *)
(***************************************************************************)
EXTENDS Naturals, Sequences, FiniteSets

CONSTANTS
    Handlers,       \* request slots: HTTP handlers that may run at once
    Submissions,    \* telemetry bodies
    Hashes,         \* integrity hashes
    AgentIds,       \* agent_id fields of the bodies
    UnknownUuids,   \* the 36-character ids no row of agents carries
    MockAddress,    \* "0xMockAgentAddress", the address such an id gets
    HashOf, AgentOf, AisOf,  \* what a submission's fields give
    BadSignature,   \* submissions whose signature does not recover the agent
    Overflowing,    \* submissions with a value too large for its column
    ChannelCap,     \* 10000 in the code
    BatchMax,       \* 100 in the code
    Registered,     \* accounts in table agents when the process first starts
    Bids,           \* market tasks BIDDED by each account at that time
    Outages,        \* whether the database may be out of reach
    Crashes         \* whether the process may be killed and restarted

Accounts == (AgentIds \ UnknownUuids) \cup {MockAddress}

Account(s) == IF AgentOf[s] \in UnknownUuids THEN MockAddress ELSE AgentOf[s]

NoScore == 0
NoBody == "none"

ASSUME PipelineAssumption ==
    /\ UnknownUuids \subseteq AgentIds
    /\ HashOf \in [Submissions -> Hashes]
    /\ AgentOf \in [Submissions -> AgentIds]
    /\ AisOf \in [Submissions -> Nat]
    /\ BadSignature \subseteq Submissions
    /\ Overflowing \subseteq Submissions
    /\ ChannelCap \in Nat \ {0}
    /\ BatchMax \in Nat \ {0}
    /\ Registered \subseteq Accounts
    /\ Bids \in [Accounts -> Nat]
    /\ Outages \in BOOLEAN
    /\ Crashes \in BOOLEAN

VARIABLES
    pc,         \* where each handler is
    body,       \* the submission each handler works on
    cache,      \* processed_tx_cache
    channel,    \* telemetry_tx / telemetry_rx
    buffer,     \* the writer's Vec of tasks
    writer,     \* "recv" while the loop awaits a task, "flush" in the flush
    agents,     \* table agents, by eth_address
    ais,        \* agents.current_ais
    rows,       \* table transaction_logs
    txCount,    \* agent_daily_snapshots.tx_count_24h
    openBids,   \* market_tasks with status BIDDED, per assigned agent
    settled,    \* market_tasks the oracle moved to COMPLETED
    cacheLoaded,\* the cache was read from the database at the last start
    lost        \* history: queued submissions that were dropped unwritten

handlerVars == <<pc, body>>
memVars == <<cache, channel, buffer, writer, cacheLoaded>>
logTables == <<ais, rows, txCount, openBids, settled>>
vars == <<handlerVars, memVars, agents, logTables, lost>>

Elements(q) == {q[i] : i \in DOMAIN q}
HashesOf(S) == {HashOf[s] : s \in S}
Queued == Elements(channel) \cup Elements(buffer)

Init ==
    /\ pc = [h \in Handlers |-> "idle"]
    /\ body = [h \in Handlers |-> NoBody]
    /\ cache = {}
    /\ channel = <<>>
    /\ buffer = <<>>
    /\ writer = "recv"
    /\ agents = Registered
    /\ ais = [a \in Accounts |-> NoScore]
    /\ rows = {}
    /\ txCount = [a \in Accounts |-> 0]
    /\ openBids = Bids
    /\ settled = [a \in Accounts |-> 0]
    /\ cacheLoaded = TRUE
    /\ lost = {}

-----------------------------------------------------------------------------
(* The request handler.                                                    *)

Goto(h, label) ==
    /\ pc' = [pc EXCEPT ![h] = label]
    /\ UNCHANGED body

Finish(h) ==
    /\ pc' = [pc EXCEPT ![h] = "idle"]
    /\ body' = [body EXCEPT ![h] = NoBody]

Receive(h) ==
    /\ pc[h] = "idle"
    /\ pc' = [pc EXCEPT ![h] = "lookup"]
    /\ \E s \in Submissions : body' = [body EXCEPT ![h] = s]
    /\ UNCHANGED <<memVars, agents, logTables, lost>>

\* A uuid nobody carries is never found, not even after its first report
\* registered an account for it: that row got an agent_id of its own.
Known(s) == AgentOf[s] \in agents \ UnknownUuids

FindAgent(h) ==
    /\ pc[h] = "lookup"
    /\ Goto(h, IF Known(body[h]) THEN "verify" ELSE "register")
    /\ UNCHANGED <<memVars, agents, logTables, lost>>

\* eth_address is UNIQUE: when another handler inserted the row since the
\* SELECT, the INSERT fails and the request ends with a 500.
AutoRegister(h) ==
    /\ pc[h] = "register"
    /\ IF Account(body[h]) \in agents THEN Finish(h) ELSE Goto(h, "verify")
    /\ agents' = agents \cup {Account(body[h])}
    /\ UNCHANGED <<memVars, logTables, lost>>

\* The signature check (401), then the replay check under the read lock (409).
CheckReplay(h) ==
    /\ pc[h] = "verify"
    /\ IF body[h] \in BadSignature \/ HashOf[body[h]] \in cache
       THEN Finish(h)
       ELSE Goto(h, "reserve")
    /\ UNCHANGED <<memVars, agents, logTables, lost>>

\* Mutant: the hash is not remembered.
Reserve_Skipped(h) ==
    /\ pc[h] = "reserve"
    /\ Goto(h, "send")
    /\ UNCHANGED <<memVars, agents, logTables, lost>>

\* The write lock is taken after the read lock was released.
Reserve(h) ==
    /\ pc[h] = "reserve"
    /\ Goto(h, "send")
    /\ cache' = cache \cup {HashOf[body[h]]}
    /\ UNCHANGED <<channel, buffer, writer, cacheLoaded, agents, logTables, lost>>

\* send() waits while the channel is full and cannot fail: its receiver
\* lives as long as the process.  The caller gets a 200.
Enqueue(h) ==
    /\ pc[h] = "send"
    /\ Len(channel) < ChannelCap
    /\ Finish(h)
    /\ channel' = Append(channel, body[h])
    /\ lost' = lost \ {body[h]}
    /\ UNCHANGED <<cache, buffer, writer, cacheLoaded, agents, logTables>>

\* A client that disconnects, or a query that fails, ends the handler where
\* it awaits: at its queries, or at the send while the channel has no room.
Abandon(h) ==
    /\ \/ pc[h] \in {"lookup", "register", "verify"}
       \/ pc[h] = "send" /\ Len(channel) = ChannelCap
    /\ Finish(h)
    /\ UNCHANGED <<memVars, agents, logTables, lost>>

HandlerStep(h) ==
    FindAgent(h) \/ AutoRegister(h) \/ CheckReplay(h) \/ Reserve(h) \/ Enqueue(h)

-----------------------------------------------------------------------------
(* The background writer.                                                  *)

\* Mutant: a full buffer takes no more tasks and is left to the timeout.
Recv_NeverFlushes ==
    /\ writer = "recv"
    /\ channel # <<>>
    /\ Len(buffer) < BatchMax
    /\ buffer' = Append(buffer, Head(channel))
    /\ channel' = Tail(channel)
    /\ UNCHANGED <<handlerVars, cache, writer, cacheLoaded, agents, logTables, lost>>

Recv ==
    /\ writer = "recv"
    /\ channel # <<>>
    /\ buffer' = Append(buffer, Head(channel))
    /\ channel' = Tail(channel)
    /\ writer' = IF Len(buffer') >= BatchMax THEN "flush" ELSE "recv"
    /\ UNCHANGED <<handlerVars, cache, cacheLoaded, agents, logTables, lost>>

\* Mutant: a timeout flushes full batches only.
Timeout_FullOnly ==
    /\ writer = "recv"
    /\ channel = <<>>
    /\ Len(buffer) >= BatchMax
    /\ writer' = "flush"
    /\ UNCHANGED <<handlerVars, cache, channel, buffer, cacheLoaded, agents,
                   logTables, lost>>

\* 100 ms without a task: the timeout polls the receiver before the timer.
Timeout ==
    /\ writer = "recv"
    /\ channel = <<>>
    /\ buffer # <<>>
    /\ writer' = "flush"
    /\ UNCHANGED <<handlerVars, cache, channel, buffer, cacheLoaded, agents,
                   logTables, lost>>

\* pool.begin() fails: the flush returns before it drains the buffer.
BeginFails ==
    /\ Outages
    /\ writer = "flush"
    /\ writer' = "recv"
    /\ UNCHANGED <<handlerVars, cache, channel, buffer, cacheLoaded, agents,
                   logTables, lost>>

OverflowIn(q) == Elements(q) \cap Overflowing # {}

DuplicateIn(q) ==
    \/ HashesOf(Elements(q)) \cap HashesOf(rows) # {}
    \/ \E i, j \in DOMAIN q : i # j /\ HashOf[q[i]] = HashOf[q[j]]

\* Mutant: on_chain_tx_hash is not UNIQUE.
StatementFails_NoUniqueIndex(q) == OverflowIn(q)

\* Some statement of the batch fails: a number its column cannot hold, or a
\* hash already in the table or earlier in the batch (23505).
StatementFails(q) == OverflowIn(q) \/ DuplicateIn(q)

TasksOf(a) == {i \in DOMAIN buffer : Account(buffer[i]) = a}

\* The UPDATE of agents, task by task: the last task of the batch wins.
AisAfter ==
    [a \in Accounts |->
        IF TasksOf(a) = {}
        THEN ais[a]
        ELSE LET last == CHOOSE i \in TasksOf(a) : \A j \in TasksOf(a) : j <= i
             IN  AisOf[buffer[last]]]

\* The upsert of the daily snapshot, task by task.
TxCountAfter == [a \in Accounts |-> txCount[a] + Cardinality(TasksOf(a))]

\* Each task completes one BIDDED market task of its agent, when one is left.
Settlements(a) ==
    LET n == Cardinality(TasksOf(a)) IN IF n <= openBids[a] THEN n ELSE openBids[a]

SettleBids ==
    /\ openBids' = [a \in Accounts |-> openBids[a] - Settlements(a)]
    /\ settled' = [a \in Accounts |-> settled[a] + Settlements(a)]

Drain ==
    /\ writer = "flush"
    /\ writer' = "recv"
    /\ buffer' = <<>>
    /\ UNCHANGED <<handlerVars, cache, channel, cacheLoaded, agents>>

\* Every statement succeeds, and so does the commit.
FlushCommits ==
    /\ ~StatementFails(buffer)
    /\ Drain
    /\ rows' = rows \cup Elements(buffer)
    /\ ais' = AisAfter
    /\ txCount' = TxCountAfter
    /\ SettleBids
    /\ UNCHANGED lost

\* Mutants: one of the updates runs on a connection of its own.
FlushRollsBack_KeepsAis ==
    /\ StatementFails(buffer) \/ Outages
    /\ Drain
    /\ lost' = lost \cup Elements(buffer)
    /\ ais' = AisAfter
    /\ UNCHANGED <<rows, txCount, openBids, settled>>

FlushRollsBack_KeepsSnapshot ==
    /\ StatementFails(buffer) \/ Outages
    /\ Drain
    /\ lost' = lost \cup Elements(buffer)
    /\ txCount' = TxCountAfter
    /\ UNCHANGED <<ais, rows, openBids, settled>>

FlushRollsBack_KeepsSettlement ==
    /\ StatementFails(buffer) \/ Outages
    /\ Drain
    /\ lost' = lost \cup Elements(buffer)
    /\ SettleBids
    /\ UNCHANGED <<ais, rows, txCount>>

\* A statement fails, or the connection breaks before the commit: nothing is
\* written, and the buffer has been drained all the same.
FlushRollsBack ==
    /\ StatementFails(buffer) \/ Outages
    /\ Drain
    /\ lost' = lost \cup Elements(buffer)
    /\ UNCHANGED logTables

WriterStep == Recv \/ Timeout \/ BeginFails \/ FlushCommits \/ FlushRollsBack

-----------------------------------------------------------------------------
(* The process is killed; main() starts it again and reads the hashes of    *)
(* transaction_logs into the cache, or leaves it empty when that fails.     *)

Restart ==
    /\ Crashes
    /\ pc' = [h \in Handlers |-> "idle"]
    /\ body' = [h \in Handlers |-> NoBody]
    /\ \/ cache' = HashesOf(rows) /\ cacheLoaded' = TRUE
       \/ Outages /\ cache' = {} /\ cacheLoaded' = FALSE
    /\ channel' = <<>>
    /\ buffer' = <<>>
    /\ writer' = "recv"
    /\ lost' = lost \cup (Queued \ rows)
    /\ UNCHANGED <<agents, logTables>>

Next ==
    \/ \E h \in Handlers : Receive(h) \/ HandlerStep(h) \/ Abandon(h)
    \/ WriterStep
    \/ Restart

\* The runtime polls every spawned task; the channel's semaphore serves the
\* waiting senders in order; an outage of the database ends.
Fairness ==
    /\ \A h \in Handlers : WF_vars(HandlerStep(h)) /\ SF_vars(Enqueue(h))
    /\ WF_vars(WriterStep)
    /\ SF_vars(FlushCommits \/ FlushRollsBack)

Spec == Init /\ [][Next]_vars /\ Fairness

-----------------------------------------------------------------------------
(* Properties.                                                             *)

Labels == {"idle", "lookup", "register", "verify", "reserve", "send"}

\* The variables keep their types: in particular no market task is settled
\* that was not open (lines 599-621 of the writer's flush).
TypeOK ==
    /\ pc \in [Handlers -> Labels]
    /\ body \in [Handlers -> Submissions \cup {NoBody}]
    /\ \A h \in Handlers : pc[h] # "idle" => body[h] \in Submissions
    /\ cache \subseteq Hashes
    /\ channel \in Seq(Submissions) /\ Len(channel) <= ChannelCap
    /\ buffer \in Seq(Submissions)
    /\ writer \in {"recv", "flush"}
    /\ agents \subseteq Accounts
    /\ ais \in [Accounts -> Nat]
    /\ rows \subseteq Submissions
    /\ txCount \in [Accounts -> Nat]
    /\ openBids \in [Accounts -> Nat]
    /\ settled \in [Accounts -> Nat]
    /\ cacheLoaded \in BOOLEAN
    /\ lost \subseteq Submissions

\* A hash that waits to be written, or is about to be queued, is in the
\* replay cache, and so is every hash of the log if the cache was loaded at
\* the last start: a request that comes after the answer to another one with
\* the same hash is refused, whatever the writer, the database and restarts
\* did in between.
ReplaysRefused ==
    /\ HashesOf(Queued) \subseteq cache
    /\ \A h \in Handlers : pc[h] = "send" => HashOf[body[h]] \in cache
    /\ cacheLoaded => HashesOf(rows) \subseteq cache

\* One integrity hash has one row, although the replay check of two
\* concurrent requests may both pass and a restart may forget the cache.
OneRowPerHash == \A r, t \in rows : HashOf[r] = HashOf[t] => r = t

RowsOf(a) == {r \in rows : Account(r) = a}

\* The daily snapshot counts the rows of the log: no flush counts a task it
\* does not write, or writes one it does not count.
SnapshotCountsLog == \A a \in Accounts : txCount[a] = Cardinality(RowsOf(a))

\* An agent's current_ais is the score of one of its rows in the log.
ScoreBackedByLog ==
    \A a \in Accounts : ais[a] # NoScore => \E r \in RowsOf(a) : AisOf[r] = ais[a]

\* The oracle completed as many of an agent's market tasks as the agent has
\* rows, or all of them: no reward is settled by a batch that rolled back.
SettledByLog ==
    \A a \in Accounts :
        /\ settled[a] + openBids[a] = Bids[a]
        /\ settled[a] <= Cardinality(RowsOf(a))
        /\ openBids[a] > 0 => settled[a] = Cardinality(RowsOf(a))

\* A task that was dropped unwritten was a duplicate: another row holds its
\* hash.  This is what "Suppressed duplicate transaction log insert in batch"
\* (line 534) says of a duplicate, and it fails: see the README.
OnlyDuplicatesDropped == HashesOf(lost) \subseteq HashesOf(rows)

\* The log only grows, and a batch is written as a whole or not at all.
BatchIsAtomic ==
    [][/\ rows \subseteq rows'
       /\ rows' # rows => rows' \ rows = Elements(buffer)]_vars

\* Every queued task is written or dropped in the end: none stays in the
\* channel or in a buffer that no new task comes to fill.
QueueDrains ==
    \A s \in Submissions : (s \in Queued) ~> (s \in rows \/ s \in lost)

\* Every request is answered, with the channel full or the database away.
HandlersAnswer == \A h \in Handlers : (pc[h] # "idle") ~> (pc[h] = "idle")

Log == INSTANCE TelemetryLog WITH pending <- Queued, durable <- rows

\* The pipeline implements the log its callers see.
ImplementsLog == Log!Spec
=============================================================================
