----------------------------- MODULE OracleCore -----------------------------
(***************************************************************************)
(* The ingestion service oracle-core/src/main.rs: a handler reserves the   *)
(* payload's nonce in Redis, gives the reservation an hour to live, and    *)
(* queues the payload for the one worker that verifies proofs and inserts  *)
(* rows.  A reservation is never given back, a key without a time to live  *)
(* never expires, and Redis outlives the process.                          *)
(*                                                                         *)
(* A payload stands for its agent and nonce.  The verifier (primitives),   *)
(* Redis and the table's schema are not in the repository's sources: calls *)
(* to them succeed or fail.                                                *)
(***************************************************************************)
EXTENDS Naturals, Sequences, FiniteSets

CONSTANTS
    Payloads,
    Sound,      \* the payloads whose proof verifies
    Handlers,   \* requests that may run at once
    QueueCap,   \* 1000 in the code
    MaxExpiries,\* bound: how often a key is seen to expire
    Faults,     \* whether calls fail, clients leave, the process is killed
    None

ASSUME CoreAssumption ==
    /\ Sound \subseteq Payloads /\ None \notin Payloads
    /\ IsFiniteSet(Handlers)
    /\ QueueCap \in Nat \ {0}
    /\ MaxExpiries \in Nat /\ Faults \in BOOLEAN

VARIABLES
    nonceKey,   \* each payload's key in Redis: "free", "kept" or "expiring"
    pc,         \* where each handler is
    payload,    \* what each handler works on
    queue,      \* telemetry_queue
    worker,     \* the payload under verification, or None
    rows,       \* rows of each payload in transaction_logs
    expired,    \* history: how often each key expired
    broken,     \* history: payloads of which a reservation was cut short
    accepted,   \* history: 202s for each payload
    failed      \* history: payloads lost by a kill or a failed INSERT

handling == <<pc, payload>>
past == <<expired, broken, accepted, failed>>
vars == <<nonceKey, handling, queue, worker, rows, past>>

Init ==
    /\ nonceKey = [p \in Payloads |-> "free"]
    /\ pc = [h \in Handlers |-> "idle"]
    /\ payload = [h \in Handlers |-> None]
    /\ queue = <<>> /\ worker = None
    /\ rows = [p \in Payloads |-> 0]
    /\ expired = [p \in Payloads |-> 0] /\ broken = {}
    /\ accepted = [p \in Payloads |-> 0] /\ failed = {}
-----------------------------------------------------------------------------
Leave(h) ==
    /\ pc' = [pc EXCEPT ![h] = "idle"]
    /\ payload' = [payload EXCEPT ![h] = None]

\* Mutant: the answer of SETNX is not looked at.
SetNx_Any(h, p) ==
    /\ pc[h] = "idle"
    /\ nonceKey' = [nonceKey EXCEPT ![p] = "kept"]
    /\ pc' = [pc EXCEPT ![h] = "expire"]
    /\ payload' = [payload EXCEPT ![h] = p]
    /\ UNCHANGED <<queue, worker, rows, past>>

\* A signed payload with a new nonce takes the key; a nonce that is known ends
\* with a 409 and changes nothing.
SetNx(h, p) ==
    /\ pc[h] = "idle"
    /\ nonceKey[p] = "free"
    /\ nonceKey' = [nonceKey EXCEPT ![p] = "kept"]
    /\ pc' = [pc EXCEPT ![h] = "expire"]
    /\ payload' = [payload EXCEPT ![h] = p]
    /\ UNCHANGED <<queue, worker, rows, past>>

\* Redis sets the key and its answer is lost: a 500.
SetNxUnanswered(p) ==
    /\ Faults /\ nonceKey[p] = "free"
    /\ nonceKey' = [nonceKey EXCEPT ![p] = "kept"]
    /\ broken' = broken \cup {p}
    /\ UNCHANGED <<handling, queue, worker, rows, expired, accepted, failed>>

\* Mutant: the key keeps no time to live.
Expire_Skipped(h) ==
    /\ pc[h] = "expire"
    /\ pc' = [pc EXCEPT ![h] = "send"]
    /\ UNCHANGED <<nonceKey, payload, queue, worker, rows, past>>

Expire(h) ==
    /\ pc[h] = "expire"
    /\ nonceKey' = [nonceKey EXCEPT ![payload[h]] = "expiring"]
    /\ pc' = [pc EXCEPT ![h] = "send"]
    /\ UNCHANGED <<payload, queue, worker, rows, past>>

\* EXPIRE fails, which the handler ignores.
ExpireFails(h) ==
    /\ Faults /\ pc[h] = "expire"
    /\ pc' = [pc EXCEPT ![h] = "send"]
    /\ broken' = broken \cup {payload[h]}
    /\ UNCHANGED <<nonceKey, payload, queue, worker, rows, expired, accepted,
                   failed>>

\* The handler waits for room; the answer for a full queue is never given.
Send(h) ==
    /\ pc[h] = "send"
    /\ Len(queue) < QueueCap
    /\ queue' = Append(queue, payload[h])
    /\ accepted' = [accepted EXCEPT ![payload[h]] = @ + 1]
    /\ Leave(h)
    /\ UNCHANGED <<nonceKey, worker, rows, expired, broken, failed>>

\* The client is gone: axum drops the handler where it waits.
ClientLeaves(h) ==
    /\ Faults /\ pc[h] # "idle"
    /\ broken' = IF pc[h] = "expire" THEN broken \cup {payload[h]} ELSE broken
    /\ Leave(h)
    /\ UNCHANGED <<nonceKey, queue, worker, rows, expired, accepted, failed>>

\* Mutant: the worker waits for a batch that the queue cannot hold.
Receive_IfFull ==
    /\ worker = None /\ Len(queue) > QueueCap
    /\ worker' = Head(queue) /\ queue' = Tail(queue)
    /\ UNCHANGED <<nonceKey, handling, rows, past>>

Receive ==
    /\ worker = None /\ queue # <<>>
    /\ worker' = Head(queue) /\ queue' = Tail(queue)
    /\ UNCHANGED <<nonceKey, handling, rows, past>>

\* Mutant: the worker drops what it verified.
Insert_Skipped ==
    /\ worker # None
    /\ worker' = None
    /\ UNCHANGED <<nonceKey, handling, queue, rows, past>>

\* A verified payload is inserted; the nonce is no key of the table.
Insert ==
    /\ worker \in Sound
    /\ rows' = [rows EXCEPT ![worker] = @ + 1]
    /\ worker' = None
    /\ UNCHANGED <<nonceKey, handling, queue, past>>

Reject ==
    /\ worker \in Payloads \ Sound
    /\ worker' = None
    /\ UNCHANGED <<nonceKey, handling, queue, rows, past>>

\* The error is ignored and the payload forgotten.
InsertFails ==
    /\ Faults /\ worker \in Sound
    /\ failed' = failed \cup {worker}
    /\ worker' = None
    /\ UNCHANGED <<nonceKey, handling, queue, rows, expired, broken, accepted>>

\* An hour has passed since EXPIRE, however long the payload has waited.
KeyExpires(p) ==
    /\ nonceKey[p] = "expiring" /\ expired[p] < MaxExpiries
    /\ nonceKey' = [nonceKey EXCEPT ![p] = "free"]
    /\ expired' = [expired EXCEPT ![p] = @ + 1]
    /\ UNCHANGED <<handling, queue, worker, rows, broken, accepted, failed>>

Queued == {queue[i] : i \in DOMAIN queue}

\* The process is killed and started again with an empty queue.
Restart ==
    /\ Faults
    /\ failed' = failed \cup Queued \cup ({worker} \ {None})
    /\ broken' = broken \cup {payload[h] : h \in {g \in Handlers : pc[g] = "expire"}}
    /\ pc' = [h \in Handlers |-> "idle"]
    /\ payload' = [h \in Handlers |-> None]
    /\ queue' = <<>> /\ worker' = None
    /\ UNCHANGED <<nonceKey, rows, expired, accepted>>

Verify == Insert \/ Reject \/ InsertFails

Next ==
    \/ \E h \in Handlers :
         \/ \E p \in Payloads : SetNx(h, p)
         \/ Expire(h) \/ ExpireFails(h) \/ Send(h) \/ ClientLeaves(h)
    \/ \E p \in Payloads : SetNxUnanswered(p) \/ KeyExpires(p)
    \/ Receive \/ Insert \/ Reject \/ InsertFails \/ Restart

\* Handlers and the worker run on while the process does; tokio's channel
\* lets the senders in first come, first served; Redis keeps time.
Fairness ==
    /\ \A h \in Handlers :
         /\ WF_vars(Expire(h) \/ ExpireFails(h)) /\ SF_vars(Send(h))
    /\ WF_vars(Receive) /\ WF_vars(Verify)
    /\ \A p \in Payloads : WF_vars(KeyExpires(p))

Spec == Init /\ [][Next]_vars /\ Fairness
-----------------------------------------------------------------------------
TypeOK ==
    /\ nonceKey \in [Payloads -> {"free", "kept", "expiring"}]
    /\ pc \in [Handlers -> {"idle", "expire", "send"}]
    /\ payload \in [Handlers -> Payloads \cup {None}]
    /\ \A h \in Handlers : payload[h] = None <=> pc[h] = "idle"
    /\ queue \in Seq(Payloads) /\ Len(queue) <= QueueCap
    /\ worker \in Payloads \cup {None}
    /\ rows \in [Payloads -> Nat]
    /\ expired \in [Payloads -> 0..MaxExpiries] /\ broken \subseteq Payloads
    /\ accepted \in [Payloads -> Nat] /\ failed \subseteq Payloads

\* Where a payload is on its way to a row.
Held(p) == Cardinality({h \in Handlers : payload[h] = p})
Waiting(p) == Cardinality({i \in DOMAIN queue : queue[i] = p})
UnderWay(p) == Held(p) + Waiting(p) + (IF worker = p THEN 1 ELSE 0)

\* A payload has one row, or is on its way to one, for each time its nonce was
\* free: replays add nothing until the key has expired (main.rs:469), wherever
\* the payload waits, handlers are dropped and the process is killed.
OncePerReservation ==
    \A p \in Payloads :
        rows[p] + UnderWay(p) <= expired[p] + (IF nonceKey[p] = "free" THEN 0 ELSE 1)

\* An accepted payload whose proof is sound is queued, under verification or
\* in the table, unless an INSERT failed or the process was killed meanwhile.
AcceptedIsNotLost ==
    \A p \in Sound \ failed :
        accepted[p] = rows[p] + Waiting(p) + (IF worker = p THEN 1 ELSE 0)

\* A nonce that was taken is free again in the end, its payload written or
\* not, unless the reservation was cut short between SETNX and EXPIRE
\* (main.rs:482): then it stays taken for good.
NonceComesBack ==
    \A p \in Payloads :
        nonceKey[p] # "free" ~>
            \/ nonceKey[p] = "free" \/ p \in broken
            \/ expired[p] = MaxExpiries

\* A handler that waits for room gets it, whatever the others do.
HandlersEnd == \A h \in Handlers : pc[h] = "send" ~> pc[h] = "idle"
=============================================================================
