\* A score above the floor; the column holds two points.
SPECIFICATION WitnessSpec
CONSTANTS
    alice = alice
    Deals = {d1}
    Agents = {alice}
    AgentOf <- MCAgentOf
    Resolvers = {web1, web2}
    Reported = {600}
    MaxPenalty = 20
    MaxOpenings = 2
    Courts = {c1, c2}
    MaxTrials = 2
    None = None
SYMMETRY
    Alike
INVARIANTS
    TypeOK
    PenaltiesAccountedFor
    SlashedWasPenalised
