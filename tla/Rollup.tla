------------------------------- MODULE Rollup -------------------------------
(***************************************************************************)
(* commit_rollup_batch of backend/src/main.rs.  It selects the rows of     *)
(* transaction_logs that wait for a rollup, records a batch with their     *)
(* Merkle root and their number, marks rows as committed and tries to      *)
(* anchor the root.  It runs for HTTP callers and for the daily daemon at  *)
(* once, against rows the telemetry writer adds meanwhile, and its three   *)
(* statements share no transaction.                                        *)
(*                                                                         *)
(* rollup_batches keeps no list of rows: which rows a batch was built from *)
(* is known while it is built.  How many batches hold a row is counted as  *)
(* none, one, or more (Several).                                           *)
(*                                                                         *)
(* The SELECT names a column log_id, which the repository's migrations and *)
(* its ORM call transaction_id: on such a table every call ends with a 500 *)
(* and no row is ever rolled up (LogIdColumn).                             *)
(***************************************************************************)
EXTENDS Naturals, FiniteSets

CONSTANTS
    Rows,       \* transaction_logs the writer may insert
    Callers,    \* HTTP requests that may run at once
    Daemon,     \* the task main() spawns
    LogIdColumn,\* whether transaction_logs has the column the SELECT names
    Failures    \* whether statements fail, clients leave, the process is killed

Committers == Callers \cup {Daemon}

ASSUME RollupAssumption ==
    /\ IsFiniteSet(Rows)
    /\ LogIdColumn \in BOOLEAN /\ Failures \in BOOLEAN

VARIABLES
    status,     \* rollup_status of each row
    recorded,   \* number of rollup_batches each row is a leaf of
    pc,         \* where each committer is
    picked,     \* the rows each committer selected
    answered,   \* history: rows of the batches that were answered with 200
    serial,     \* history: commits ran one at a time, and none broke off
    late        \* history: rows that arrived between a SELECT and its UPDATE

vars == <<status, recorded, pc, picked, answered, serial, late>>

Several == 2
OneMore(n) == IF n = 0 THEN 1 ELSE Several

Pending == {r \in Rows : status[r] = "PENDING_ROLLUP"}
Committed == {r \in Rows : status[r] = "COMMITTED"}

Init ==
    /\ status = [r \in Rows |-> "absent"]
    /\ recorded = [r \in Rows |-> 0]
    /\ pc = [c \in Committers |-> "idle"]
    /\ picked = [c \in Committers |-> {}]
    /\ answered = {}
    /\ serial = TRUE
    /\ late = {}

-----------------------------------------------------------------------------
\* The telemetry writer commits a batch of rows.
Log(S) ==
    /\ S # {} /\ \A r \in S : status[r] = "absent"
    /\ status' = [r \in Rows |-> IF r \in S THEN "PENDING_ROLLUP" ELSE status[r]]
    /\ late' = IF \E c \in Committers : pc[c] \in {"insert", "update"}
               THEN late \cup S ELSE late
    /\ UNCHANGED <<recorded, pc, picked, answered, serial>>

\* Mutant: a batch of one row.
Select_One(c) ==
    /\ LogIdColumn
    /\ pc[c] = "idle"
    /\ Pending # {}
    /\ pc' = [pc EXCEPT ![c] = "insert"]
    /\ picked' = [picked EXCEPT ![c] = {CHOOSE r \in Pending : TRUE}]
    /\ serial' = (serial /\ \A d \in Committers : pc[d] = "idle")
    /\ UNCHANGED <<status, recorded, answered, late>>

\* Without the column the call ends with a 500, with nothing to roll up with
\* a 400.
Select(c) ==
    /\ LogIdColumn
    /\ pc[c] = "idle"
    /\ Pending # {}
    /\ pc' = [pc EXCEPT ![c] = "insert"]
    /\ picked' = [picked EXCEPT ![c] = Pending]
    /\ serial' = (serial /\ \A d \in Committers : pc[d] = "idle")
    /\ UNCHANGED <<status, recorded, answered, late>>

InsertBatch(c) ==
    /\ pc[c] = "insert"
    /\ pc' = [pc EXCEPT ![c] = "update"]
    /\ recorded' = [r \in Rows |->
                      IF r \in picked[c] THEN OneMore(recorded[r]) ELSE recorded[r]]
    /\ UNCHANGED <<status, picked, answered, serial, late>>

\* Mutant: the UPDATE is left out.
UpdateRows_Skipped(c) ==
    /\ pc[c] = "update"
    /\ pc' = [pc EXCEPT ![c] = "anchor"]
    /\ UNCHANGED <<status, recorded, picked, answered, serial, late>>

\* Every row that waits now, not the rows that were selected.
UpdateRows(c) ==
    /\ pc[c] = "update"
    /\ pc' = [pc EXCEPT ![c] = "anchor"]
    /\ status' = [r \in Rows |-> IF r \in Pending THEN "COMMITTED" ELSE status[r]]
    /\ UNCHANGED <<recorded, picked, answered, serial, late>>

Leave(c) ==
    /\ pc' = [pc EXCEPT ![c] = "idle"]
    /\ picked' = [picked EXCEPT ![c] = {}]

\* The anchor may fail: its error is logged, and the call answers 200.
Anchor(c) ==
    /\ pc[c] = "anchor"
    /\ Leave(c)
    /\ answered' = answered \cup picked[c]
    /\ UNCHANGED <<status, recorded, serial, late>>

\* A statement fails, before or after it took effect, or the client is gone,
\* or the process is killed.
BreakOff(c) ==
    /\ Failures
    /\ pc[c] # "idle"
    /\ Leave(c)
    /\ serial' = FALSE
    /\ UNCHANGED <<status, recorded, answered, late>>

Next ==
    \/ \E S \in SUBSET Rows : Log(S)
    \/ \E c \in Committers :
         Select(c) \/ InsertBatch(c) \/ UpdateRows(c) \/ Anchor(c) \/ BreakOff(c)

\* The daemon's interval ticks for ever, and not every of its commits fails.
Fairness ==
    /\ WF_vars(Select(Daemon)) /\ WF_vars(Anchor(Daemon))
    /\ SF_vars(InsertBatch(Daemon)) /\ SF_vars(UpdateRows(Daemon))

Spec == Init /\ [][Next]_vars /\ Fairness

-----------------------------------------------------------------------------
(* Properties.                                                             *)

Phases == {"idle", "insert", "update", "anchor"}

\* The variables keep their types, and a tree is built over some rows:
\* get_root of a tree without leaves would index an empty level.
TypeOK ==
    /\ status \in [Rows -> {"absent", "PENDING_ROLLUP", "COMMITTED"}]
    /\ recorded \in [Rows -> 0 .. Several]
    /\ pc \in [Committers -> Phases]
    /\ picked \in [Committers -> SUBSET Rows]
    /\ \A c \in Committers : picked[c] = {} <=> pc[c] = "idle"
    /\ answered \subseteq Rows
    /\ serial \in BOOLEAN /\ late \subseteq Rows

\* The rows of a batch that was answered with 200 are committed and stay so,
\* and each of them is in a batch: overlapping commits, failed statements and
\* rows that arrive between them do not change that.
AnsweredIsCommitted ==
    \A r \in answered : status[r] = "COMMITTED" /\ recorded[r] > 0

\* Commits that run one after the other and do not break off put no row in
\* two batches, although rows are added while they run.
SerialCommitsCountOnce == serial => \A r \in Rows : recorded[r] < Several

\* A row that is committed in no batch arrived between the SELECT and the
\* UPDATE of some commit (main.rs:1198): overlapping calls, calls that break
\* off, and calls after them leave out no other row.
UnbatchedCameLate == \A r \in Committed : recorded[r] = 0 => r \in late

\* Where the SELECT finds its column, a row that waits for a rollup is
\* committed in the end, with calls that break off and callers in between.
PendingIsCommitted ==
    LogIdColumn =>
        \A r \in Rows : (status[r] = "PENDING_ROLLUP") ~> (status[r] = "COMMITTED")

=============================================================================
