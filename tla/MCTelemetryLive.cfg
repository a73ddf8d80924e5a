\* As MCTelemetry.cfg, with two bodies that can both be written and no kill: four
\* copies of them can be queued, one more than the channel and a batch hold.
SPECIFICATION Spec
CONSTANTS
    first = first
    retry = retry
    other = other
    huge = huge
    forged = forged
    k1 = k1
    k2 = k2
    k3 = k3
    k4 = k4
    alice = alice
    ghost = ghost
    mock = mock
    Handlers = {h1, h2}
    Submissions = {first, forged}
    Hashes = {k1, k2, k3, k4}
    AgentIds = {alice, ghost}
    UnknownUuids = {ghost}
    MockAddress = mock
    HashOf <- MCHashOf
    AgentOf <- MCAgentOf
    AisOf <- MCAisOf
    BadSignature = {}
    Overflowing = {}
    ChannelCap = 1
    BatchMax = 2
    Registered = {}
    Bids <- MCBids
    Outages = TRUE
    Crashes = FALSE
PROPERTIES
    QueueDrains
    HandlersAnswer
