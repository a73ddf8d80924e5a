----------------------------- MODULE MerkleTree -----------------------------
(***************************************************************************)
(* The two Merkle trees of the repository: the tree over a rollup batch    *)
(* (backend/src/merkle.rs), built level by level with an odd last node     *)
(* paired with itself, and the tree of fixed depth over the agents         *)
(* (backend/services/merkle_service.py), padded with a zero leaf.  A proof *)
(* is used by hashing a leaf with its siblings up to the root, as the      *)
(* tests of merkle.rs and the reputation circuit do.                       *)
(*                                                                         *)
(* A hash is the term of what was hashed: two hashes are equal when their  *)
(* inputs are.                                                             *)
(***************************************************************************)
EXTENDS Naturals, Sequences

CONSTANTS
    Inputs,     \* the sequences of leaves a tree is built over
    Depth,      \* TREE_DEPTH: 16 in the code
    ZeroLeaf    \* pads the tree of fixed depth

\* A batch without rows is refused before a tree is built; the agents' tree
\* gets a dummy leaf.
ASSUME TreeAssumption ==
    /\ Depth \in Nat
    /\ \A q \in Inputs : q # <<>> /\ q \in Seq({q[k] : k \in DOMAIN q})

VARIABLES
    leaves,     \* MerkleTree.leaves
    tree,       \* MerkleTree.tree, the levels so far
    current     \* current_level

treeVars == <<leaves, tree, current>>

\* Mutant: only one update of the hasher.
HashNodes_LeftOnly(left, right) == <<left>>

HashNodes(left, right) == <<left, right>>

\* Mutant: an odd last node is carried to the next level as it is.
NextLevel_Promotes(level) ==
    [k \in 1 .. (Len(level) + 1) \div 2 |->
        IF 2 * k <= Len(level) THEN HashNodes(level[2 * k - 1], level[2 * k])
                               ELSE level[2 * k - 1]]

\* The chunks of two of a level, hashed.
NextLevel(level) ==
    [k \in 1 .. (Len(level) + 1) \div 2 |->
        HashNodes(level[2 * k - 1],
                  level[IF 2 * k <= Len(level) THEN 2 * k ELSE 2 * k - 1])]

New ==
    /\ leaves \in Inputs
    /\ tree = <<leaves>>
    /\ current = leaves

AddLevel ==
    /\ Len(current) > 1
    /\ current' = NextLevel(current)
    /\ tree' = Append(tree, current')
    /\ UNCHANGED leaves

TreeSpec == New /\ [][AddLevel]_treeVars

Built == Len(current) <= 1

GetRoot == tree[Len(tree)][1]

\* The place of the sibling of node number idx of a level, and its ancestor's.
SiblingOf(idx) == IF idx % 2 = 0 THEN idx + 1 ELSE idx - 1

AncestorOf(idx, height) ==
    LET up[k \in 0 .. height] == IF k = 0 THEN idx ELSE up[k - 1] \div 2
    IN  up[height]

\* Mutant: a node without a sibling is proved with the first of its level.
GetProof_First(index) ==
    [height \in 1 .. Len(tree) - 1 |->
        LET sibling == SiblingOf(AncestorOf(index, height - 1))
        IN  tree[height][1 + IF sibling < Len(tree[height]) THEN sibling ELSE 0]]

\* The sibling on each level, or the node itself when it is the odd last.
GetProof(index) ==
    [height \in 1 .. Len(tree) - 1 |->
        LET idx == AncestorOf(index, height - 1)
            sibling == SiblingOf(idx)
        IN  tree[height][1 + IF sibling < Len(tree[height]) THEN sibling ELSE idx]]

\* What a verifier computes from a leaf, its index and its proof.
Climb(leaf, index, proof) ==
    LET node[height \in 0 .. Len(proof)] ==
          IF height = 0 THEN leaf
          ELSE IF AncestorOf(index, height - 1) % 2 = 0
               THEN HashNodes(node[height - 1], proof[height])
               ELSE HashNodes(proof[height], node[height - 1])
    IN  node[Len(proof)]

-----------------------------------------------------------------------------
(* The tree of fixed depth.                                                *)

\* Two to the power of depth.
TargetLen(depth) ==
    LET len[d \in 0 .. depth] == IF d = 0 THEN 1 ELSE 2 * len[d - 1]
    IN  len[depth]

Padded ==
    [k \in 1 .. TargetLen(Depth) |-> IF k <= Len(leaves) THEN leaves[k] ELSE ZeroLeaf]

PaddedLevels ==
    LET level[height \in 0 .. Depth] ==
          IF height = 0 THEN Padded ELSE NextLevel(level[height - 1])
    IN  level

StateRoot == PaddedLevels[Depth][1]

\* Mutant: the index moves up before the sibling is taken.
MerklePath_LateSibling(index) ==
    [height \in 1 .. Depth |->
        LET idx == AncestorOf(index, height)
        IN  PaddedLevels[height - 1][1 + SiblingOf(idx)]]

MerklePath(index) ==
    [height \in 1 .. Depth |->
        PaddedLevels[height - 1][1 + SiblingOf(AncestorOf(index, height - 1))]]

-----------------------------------------------------------------------------
(* Properties.                                                             *)

Indices == 0 .. Len(leaves) - 1

\* Reference: how many nodes a level has, and the row of them: a node stands
\* for the two below it, an odd last one for that one doubled.
WidthOf(height) ==
    LET width[k \in 0 .. height] ==
          IF k = 0 THEN Len(leaves) ELSE (width[k - 1] + 1) \div 2
    IN  width[height]

NodesOf(height) ==
    LET row[k \in 0 .. height] ==
          IF k = 0 THEN [j \in 0 .. WidthOf(0) - 1 |-> leaves[j + 1]]
          ELSE [j \in 0 .. WidthOf(k) - 1 |->
                  HashNodes(row[k - 1][2 * j],
                            row[k - 1][IF 2 * j + 1 < WidthOf(k - 1)
                                       THEN 2 * j + 1 ELSE 2 * j])]
    IN  row[height]

\* Every level built so far has the nodes of the reference tree, and none of
\* them is missing.
LevelsAreRight ==
    \A k \in 1 .. Len(tree) :
        /\ Len(tree[k]) = WidthOf(k - 1)
        /\ \A j \in 1 .. Len(tree[k]) : tree[k][j] = NodesOf(k - 1)[j - 1]

\* On every level reached so far the proof of a leaf leads to the leaf's
\* ancestor, and in the end to the root: test_merkle_proof_verification for
\* every number of leaves, odd ones included.
ProofsLeadToRoot ==
    \A index \in Indices :
        /\ Climb(leaves[index + 1], index, GetProof(index))
             = tree[Len(tree)][1 + AncestorOf(index, Len(tree) - 1)]
        /\ Built => Climb(leaves[index + 1], index, GetProof(index)) = GetRoot

\* A proof leads to the root for no other leaf of the batch.
ProofsBind ==
    Built => \A index \in Indices : \A other \in {leaves[j] : j \in DOMAIN leaves} :
        Climb(other, index, GetProof(index)) = GetRoot => other = leaves[index + 1]

\* The path get_merkle_proof returns leads from each agent's leaf to the root
\* calculate_reputation_root anchors, while the agents fit into the tree.
PathsLeadToStateRoot ==
    Len(leaves) <= TargetLen(Depth) =>
    \A index \in Indices : Climb(leaves[index + 1], index, MerklePath(index)) = StateRoot

=============================================================================
