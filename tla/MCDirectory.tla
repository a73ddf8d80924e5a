---------------------------- MODULE MCDirectory ----------------------------
(***************************************************************************)
(* The agents table for TLC.  All properties are safety properties, and    *)
(* none tells the members of a set apart.                                  *)
(***************************************************************************)
EXTENDS AgentDirectory, TLC

Symmetries ==
    Permutations(Handles) \cup Permutations(Owners) \cup Permutations(Sessions)
=============================================================================
