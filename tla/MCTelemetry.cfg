\* Two requests at a time, one free place in the channel, batches of two.
SPECIFICATION Spec
CONSTANTS
    first = first
    retry = retry
    other = other
    huge = huge
    forged = forged
    k1 = k1
    k2 = k2
    k3 = k3
    k4 = k4
    alice = alice
    ghost = ghost
    mock = mock
    Handlers = {h1, h2}
    Submissions = {first, retry, other, huge, forged}
    Hashes = {k1, k2, k3, k4}
    AgentIds = {alice, ghost}
    UnknownUuids = {ghost}
    MockAddress = mock
    HashOf <- MCHashOf
    AgentOf <- MCAgentOf
    AisOf <- MCAisOf
    BadSignature = {forged}
    Overflowing = {huge}
    ChannelCap = 1
    BatchMax = 2
    Registered = {alice}
    Bids <- MCBids
    Outages = TRUE
    Crashes = TRUE
INVARIANTS
    ReplaysRefused
    SnapshotCountsLog
    ScoreBackedByLog
    SettledByLog
PROPERTIES
    ImplementsLog
