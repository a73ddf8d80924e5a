---------------------------- MODULE Arbitration ----------------------------
(***************************************************************************)
(* What a dispute promises the performer of a deal: each opening of a      *)
(* dispute is decided at most once, and only a decision slashes.           *)
(***************************************************************************)
CONSTANT Deals

VARIABLES open,     \* deals with a dispute that waits for a decision
          slashed   \* deals whose performer was slashed

arbitrationVars == <<open, slashed>>

Init ==
    /\ open = {}
    /\ slashed = {}

Open(d) ==
    /\ open' = open \cup {d}
    /\ UNCHANGED slashed

Decide(d) ==
    /\ d \in open
    /\ open' = open \ {d}
    /\ slashed' \in {slashed, slashed \cup {d}}

Next == \E d \in Deals : Open(d) \/ Decide(d)

Spec == Init /\ [][Next]_arbitrationVars
=============================================================================
