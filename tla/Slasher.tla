------------------------------ MODULE Slasher ------------------------------
(***************************************************************************)
(* contracts/contracts/Slasher.sol.  A transaction is one step; its sender *)
(* is the deal's initiator for a dispute and the owner otherwise, and a    *)
(* call that a require stops changes nothing.  The deals are kept by       *)
(* IntegrityProtocol, a contract the repository does not hold: a deal is   *)
(* completed once, at any time.                                            *)
(***************************************************************************)
EXTENDS Naturals

CONSTANTS
    Deals,
    Windows,    \* challenge windows the owner sets; 24 hours at first
    FirstWindow,
    LastBlock   \* bound: the clock stops here

ASSUME SlasherAssumption ==
    /\ Windows \subseteq Nat
    /\ FirstWindow \in Windows
    /\ LastBlock \in Nat \ {0}

VARIABLES
    completed,  \* deals the protocol reports as completed
    createdAt,  \* disputes[d].createdAt, 0 for no dispute
    resolved,   \* disputes[d].resolved
    window,     \* challengeWindow
    now,        \* block.timestamp, from 1
    slashed     \* deals with a SlashExecuted event

slasherVars == <<completed, createdAt, resolved, window, now, slashed>>

SlasherInit ==
    /\ completed = {}
    /\ createdAt = [d \in Deals |-> 0]
    /\ resolved = [d \in Deals |-> FALSE]
    /\ window = FirstWindow
    /\ now = 1
    /\ slashed = {}

CompleteDeal(d) ==
    /\ d \notin completed
    /\ completed' = completed \cup {d}
    /\ UNCHANGED <<createdAt, resolved, window, now, slashed>>

Raised(d) == createdAt[d] # 0

\* Mutant: there is no window for a new dispute.
RaiseDispute_AnyTime(d) ==
    /\ d \in completed
    /\ createdAt' = [createdAt EXCEPT ![d] = now]
    /\ resolved' = [resolved EXCEPT ![d] = FALSE]
    /\ UNCHANGED <<completed, window, now, slashed>>

\* A dispute raised again inside the window replaces the one before, resolved
\* or not, and starts a window of its own.
RaiseDispute(d) ==
    /\ d \in completed
    /\ Raised(d) => now <= createdAt[d] + window
    /\ createdAt' = [createdAt EXCEPT ![d] = now]
    /\ resolved' = [resolved EXCEPT ![d] = FALSE]
    /\ UNCHANGED <<completed, window, now, slashed>>

\* Mutant: a dispute may be resolved again.
ResolveDispute_Again(d, justified) ==
    /\ Raised(d)
    /\ resolved' = [resolved EXCEPT ![d] = TRUE]
    /\ slashed' = IF justified THEN slashed \cup {d} ELSE slashed
    /\ UNCHANGED <<completed, createdAt, window, now>>

ResolveDispute(d, justified) ==
    /\ Raised(d)
    /\ ~resolved[d]
    /\ resolved' = [resolved EXCEPT ![d] = TRUE]
    /\ slashed' = IF justified THEN slashed \cup {d} ELSE slashed
    /\ UNCHANGED <<completed, createdAt, window, now>>

SetChallengeWindow(w) ==
    /\ window' = w
    /\ UNCHANGED <<completed, createdAt, resolved, now, slashed>>

Tick ==
    /\ now < LastBlock
    /\ now' = now + 1
    /\ UNCHANGED <<completed, createdAt, resolved, window, slashed>>

SlasherNext ==
    \/ \E d \in Deals :
         \/ CompleteDeal(d) \/ RaiseDispute(d)
         \/ \E justified \in BOOLEAN : ResolveDispute(d, justified)
    \/ \E w \in Windows : SetChallengeWindow(w)
    \/ Tick

SlasherSpec == SlasherInit /\ [][SlasherNext]_slasherVars

-----------------------------------------------------------------------------
(* Properties.                                                             *)

\* The variables keep their types, and only completed deals are in dispute.
SlasherTypeOK ==
    /\ completed \subseteq Deals
    /\ createdAt \in [Deals -> 0 .. now]
    /\ resolved \in [Deals -> BOOLEAN]
    /\ window \in Windows
    /\ now \in 1 .. LastBlock
    /\ \A d \in Deals : Raised(d) => d \in completed
    /\ \A d \in Deals : resolved[d] => Raised(d)
    /\ \A d \in slashed : Raised(d)

\* A decision is final once the window of its dispute has passed, unless the
\* owner sets a longer window afterwards.
Final(d) == resolved[d] /\ now > createdAt[d] + window

DecisionsBecomeFinal ==
    [][\A d \in Deals : Final(d) /\ window' <= window => Final(d)']_slasherVars

Case == INSTANCE Arbitration WITH
            open <- {d \in Deals : Raised(d) /\ ~resolved[d]}, slashed <- slashed

\* The contract keeps the promise of Arbitration: "Already resolved." stops a
\* second decision of one opening, however often disputes are raised again.
SlasherArbitrates == Case!Spec
=============================================================================
