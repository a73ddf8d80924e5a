\* Up to eight leaves: the tree of depth three may be full.  A built tree
\* does not change: the deadlock check is off.
CHECK_DEADLOCK FALSE
SPECIFICATION TreeSpec
CONSTANTS
    a = a
    b = b
    l1 = l1
    l2 = l2
    l3 = l3
    l4 = l4
    l5 = l5
    l6 = l6
    l7 = l7
    l8 = l8
    Inputs <- MCInputs
    Depth = 3
    ZeroLeaf = zero
INVARIANTS
    LevelsAreRight
    ProofsLeadToRoot
    ProofsBind
    PathsLeadToStateRoot
