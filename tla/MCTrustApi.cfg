\* A guest, a user, the guest's seed, one other agent with a Hermes
\* configuration, one loan or sync, of either sign.
SPECIFICATION Spec
CONSTANTS
    guest = guest
    user = user
    seed = seed
    agent = agent
    xibalba = xibalba
    short = short
    Users = {guest, user}
    Guests = {guest}
    Agents = {seed, agent}
    Seeds = {seed}
    SeedOwner <- MCSeedOwner
    SeedHandle <- MCSeedHandle
    SeedTier <- MCSeedTier
    SeedScore <- MCSeedScore
    SeedRank <- MCSeedRank
    Fleet = {agent}
    Handles = {xibalba, short}
    Price <- MCPrice
    Welcome = 6
    Loans <- MCLoans
    Deposits <- MCDeposits
    MaxCredits = 1
    Scores = {870}
    RustScores = {860}
    Operated = {agent}
    None = None
\* The process stays down once an agent has taken the seed's handle.
CHECK_DEADLOCK FALSE
INVARIANTS
    BindingLostOnlyOverMetadata
    SeedsLoseOnlyWhatTheyGaveUp
PROPERTIES
    BalancesMoveForAReason
    OverstatedOnlyAfterLowering
