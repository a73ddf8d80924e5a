---------------------------- MODULE TelemetryLog ----------------------------
(***************************************************************************)
(* What the telemetry pipeline of the Rust backend promises its callers,   *)
(* with the process that keeps the promise left out: a submission waits,   *)
(* then it is written to transaction_logs or forgotten, what is written    *)
(* stays, and one integrity hash is written at most once.                  *)
(***************************************************************************)
CONSTANTS Submissions, Hashes, HashOf

VARIABLES pending,      \* submissions accepted and not yet decided
          durable       \* submissions with a row in transaction_logs

logVars == <<pending, durable>>

OneRowPerHash(S) == \A s, t \in S : HashOf[s] = HashOf[t] => s = t

Init ==
    /\ pending = {}
    /\ durable = {}

Accept(s) ==
    /\ pending' = pending \cup {s}
    /\ UNCHANGED durable

\* One decision may settle several submissions; a second copy of a settled
\* submission may still be waiting.
Persist(S) ==
    /\ durable' = durable \cup S
    /\ OneRowPerHash(durable')
    /\ pending' \subseteq pending

Forget ==
    /\ pending' \subseteq pending
    /\ UNCHANGED durable

Next ==
    \/ \E s \in Submissions : Accept(s)
    \/ \E S \in SUBSET pending : Persist(S)
    \/ Forget

Spec == Init /\ [][Next]_logVars
=============================================================================
