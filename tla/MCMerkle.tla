------------------------------ MODULE MCMerkle ------------------------------
(***************************************************************************)
(* Trees over all sequences of up to five of two leaves, and over up to    *)
(* eight leaves that all differ.                                           *)
(***************************************************************************)
EXTENDS MerkleTree

CONSTANTS a, b, l1, l2, l3, l4, l5, l6, l7, l8

MCInputs ==
    UNION {[1 .. n -> {a, b}] : n \in 1 .. 5}
      \cup {SubSeq(<<l1, l2, l3, l4, l5, l6, l7, l8>>, 1, n) : n \in 1 .. 8}
=============================================================================
