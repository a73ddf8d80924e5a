--------------------------- MODULE MCDualWitness ---------------------------
(***************************************************************************)
(* A deal, two requests to the Rust backend and two Python resolvers, of    *)
(* each of which either may come first.                                    *)
(***************************************************************************)
EXTENDS DualWitness, TLC

CONSTANT alice

MCAgentOf == [d \in Deals |-> alice]

Alike == Permutations(Resolvers) \cup Permutations(Courts)
=============================================================================
