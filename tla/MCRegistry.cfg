\* A fee of a quarter, at most a half: amounts of four and more burn tokens.
SPECIFICATION Spec
CONSTANTS
    Treasury = treasury
    Token = token
    Registry = registry
    Zero = zero
    Holders = {treasury, alice, token, registry}
    Callers = {treasury, alice}
    MaxSupply = 7
    BaseFee = 1
    MaxFee = 2
    FeeUnit = 4
    Multipliers = {1, 2, 5}
    Amounts = {2, 4}
    Agents = {alice}
    Tiers = {0, 3}
    MaxFees = 2
INVARIANTS
    LedgerAddsUp
    StakesAreBacked
    ShortfallIsFees
