\* Two agents, two handles, two owners, two requests at a time.
SPECIFICATION Spec
CONSTANTS
    Addrs = {a1, a2}
    Handles = {h1, h2}
    Aliases = {bot}
    Owners = {o1, o2}
    Claimable = {a1}
    None = None
    Sessions = {s1, s2}
SYMMETRY Symmetries
INVARIANTS
    HandlesUnique
    ClaimsAgree
PROPERTIES
    MergesKeepTheRest
    OwnersStay
