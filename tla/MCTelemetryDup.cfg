\* As MCTelemetry.cfg without kills, outages and bodies that fail by themselves.
SPECIFICATION Spec
CONSTANTS
    first = first
    retry = retry
    other = other
    huge = huge
    forged = forged
    k1 = k1
    k2 = k2
    k3 = k3
    k4 = k4
    alice = alice
    ghost = ghost
    mock = mock
    Handlers = {h1, h2}
    Submissions = {first, retry, other}
    Hashes = {k1, k2, k3, k4}
    AgentIds = {alice, ghost}
    UnknownUuids = {ghost}
    MockAddress = mock
    HashOf <- MCHashOf
    AgentOf <- MCAgentOf
    AisOf <- MCAisOf
    BadSignature = {}
    Overflowing = {}
    ChannelCap = 1
    BatchMax = 2
    Registered = {alice}
    Bids <- MCBids
    Outages = FALSE
    Crashes = FALSE
INVARIANTS
    OnlyDuplicatesDropped
