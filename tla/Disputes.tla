------------------------------ MODULE Disputes ------------------------------
(***************************************************************************)
(* raise_dispute and resolve_dispute of backend/src/main.rs, against the   *)
(* telemetry writer that inserts the disputed rows and overwrites the      *)
(* score a slash lowers.  A resolution is up to three statements that      *)
(* share no transaction: SELECT the performer, UPDATE agents, UPDATE       *)
(* transaction_logs.  A deal is named by its integrity hash, which its     *)
(* reporter knows before the writer has inserted the row.                  *)
(***************************************************************************)
EXTENDS Integers, FiniteSetsExt

CONSTANTS
    Deals,
    Agents,
    AgentOf,        \* the performer of each deal
    Resolvers,      \* resolve_dispute requests that may run at once
    Reported,       \* scores telemetry reports
    MaxPenalty,     \* the largest penalty_points DECIMAL(3, 2) holds, in tenths
    MaxOpenings     \* bound: how often a dispute is opened

ASSUME DisputesAssumption ==
    /\ IsFiniteSet(Deals)
    /\ AgentOf \in [Deals -> Agents]
    /\ Reported \subseteq Nat
    /\ MaxPenalty \in Nat
    /\ MaxOpenings \in Nat

VARIABLES
    dispute,    \* dispute_status of each row, "absent" before it is inserted
    ais,        \* agents.current_ais, 0 before the first report
    penalty,    \* agents.penalty_points
    pc,         \* where each resolver is
    deal,       \* the deal it resolves
    justified,  \* its payload's justified
    hits,       \* history: penalties applied for each deal
    openings,   \* history: how often each dispute was opened
    early       \* history: resolutions that started before the row was there

vars == <<dispute, ais, penalty, pc, deal, justified, hits, openings, early>>
jobs == <<pc, deal, justified>>

Init ==
    /\ dispute = [d \in Deals |-> "absent"]
    /\ ais = [a \in Agents |-> 0]
    /\ penalty = [a \in Agents |-> 0]
    /\ pc = [r \in Resolvers |-> "idle"]
    /\ deal \in [Resolvers -> Deals]
    /\ justified = [r \in Resolvers |-> FALSE]
    /\ hits = [d \in Deals |-> 0]
    /\ openings = [d \in Deals |-> 0]
    /\ early = {}
-----------------------------------------------------------------------------
Open(d) ==
    /\ openings[d] < MaxOpenings
    /\ dispute' = [dispute EXCEPT ![d] = "PENDING"]
    /\ openings' = [openings EXCEPT ![d] = @ + 1]

\* The writer inserts the row, whose status is PENDING by default, and sets
\* the score of its agent.
LogDeal(d, score) ==
    /\ dispute[d] = "absent"
    /\ Open(d)
    /\ ais' = [ais EXCEPT ![AgentOf[d]] = score]
    /\ UNCHANGED <<penalty, jobs, hits, early>>

\* The status is PENDING whatever it was; a deal without a row has no status.
RaiseDispute(d) ==
    /\ dispute[d] \notin {"absent", "PENDING"}
    /\ Open(d)
    /\ UNCHANGED <<ais, penalty, jobs, hits, early>>

Goto(r, label) ==
    /\ pc' = [pc EXCEPT ![r] = label]
    /\ UNCHANGED <<deal, justified>>

\* Every deal may be resolved, disputed or not, decided or not.
ResolveDispute(r, d, j) ==
    /\ pc[r] = "idle"
    /\ pc' = [pc EXCEPT ![r] = IF j THEN "find" ELSE "status"]
    /\ deal' = [deal EXCEPT ![r] = d]
    /\ justified' = [justified EXCEPT ![r] = j]
    /\ UNCHANGED <<dispute, ais, penalty, hits, openings, early>>

\* Mutant: the status is written before the penalty.
FindPerformer_StatusFirst(r) ==
    /\ pc[r] = "find"
    /\ dispute[deal[r]] # "absent"
    /\ Goto(r, "penalise")
    /\ dispute' = [dispute EXCEPT ![deal[r]] = "SLASHED"]
    /\ UNCHANGED <<ais, penalty, hits, openings, early>>

\* A deal without a row has no performer to penalise.
FindPerformer(r) ==
    /\ pc[r] = "find"
    /\ IF dispute[deal[r]] = "absent"
       THEN Goto(r, "status") /\ early' = early \cup {deal[r]}
       ELSE Goto(r, "penalise") /\ UNCHANGED early
    /\ UNCHANGED <<dispute, ais, penalty, hits, openings>>

Performer(r) == AgentOf[deal[r]]
Floor == 300
Point == 10

\* Mutant: the column is wide enough.
Penalise_AnyWidth(r) ==
    /\ pc[r] = "penalise"
    /\ Goto(r, "status")
    /\ ais' = [ais EXCEPT ![Performer(r)] = Max({Floor, @ - 200})]
    /\ penalty' = [penalty EXCEPT ![Performer(r)] = @ + Point]
    /\ hits' = [hits EXCEPT ![deal[r]] = @ + 1]
    /\ UNCHANGED <<dispute, openings, early>>

\* 200 points less, but at least 300, and a whole penalty point more.
Penalise(r) ==
    /\ pc[r] = "penalise"
    /\ penalty[Performer(r)] + Point <= MaxPenalty
    /\ Goto(r, "status")
    /\ ais' = [ais EXCEPT ![Performer(r)] = Max({Floor, @ - 200})]
    /\ penalty' = [penalty EXCEPT ![Performer(r)] = @ + Point]
    /\ hits' = [hits EXCEPT ![deal[r]] = @ + 1]
    /\ UNCHANGED <<dispute, openings, early>>

SetStatus(r) ==
    /\ pc[r] = "status"
    /\ Goto(r, "idle")
    /\ dispute' = IF dispute[deal[r]] = "absent" THEN dispute
                  ELSE [dispute EXCEPT ![deal[r]] =
                          IF justified[r] THEN "SLASHED" ELSE "RESOLVED"]
    /\ UNCHANGED <<ais, penalty, hits, openings, early>>

\* A statement fails, penalty_points overflow among the reasons, or the
\* client is gone: the statements before it keep their effect.
BreakOff(r) ==
    /\ pc[r] # "idle"
    /\ Goto(r, "idle")
    /\ UNCHANGED <<dispute, ais, penalty, hits, openings, early>>

Next ==
    \/ \E d \in Deals, score \in Reported : LogDeal(d, score)
    \/ \E d \in Deals : RaiseDispute(d)
    \/ \E r \in Resolvers :
         \/ \E d \in Deals, j \in BOOLEAN : ResolveDispute(r, d, j)
         \/ FindPerformer(r) \/ Penalise(r) \/ SetStatus(r) \/ BreakOff(r)

Spec == Init /\ [][Next]_vars

-----------------------------------------------------------------------------
(* Properties.                                                             *)

\* The variables keep their types: the penalty points fit their column, and
\* a score under 300 is one that was reported.
TypeOK ==
    /\ dispute \in [Deals -> {"absent", "OPEN", "PENDING", "RESOLVED", "SLASHED"}]
    /\ ais \in [Agents -> Nat]
    /\ \A a \in Agents : ais[a] < Floor => ais[a] \in Reported \cup {0}
    /\ penalty \in [Agents -> 0 .. MaxPenalty]
    /\ pc \in [Resolvers -> {"idle", "find", "penalise", "status"}]
    /\ deal \in [Resolvers -> Deals]
    /\ justified \in [Resolvers -> BOOLEAN]
    /\ hits \in [Deals -> Nat]
    /\ openings \in [Deals -> 0 .. MaxOpenings]
    /\ early \subseteq Deals

\* The performer of a SLASHED deal was penalised for it, wherever resolutions
\* broke off, unless one looked for the performer before the row was there.
SlashedWasPenalised ==
    \A d \in Deals : dispute[d] = "SLASHED" => hits[d] > 0 \/ d \in early
=============================================================================
