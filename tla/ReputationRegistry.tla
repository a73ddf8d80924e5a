------------------------- MODULE ReputationRegistry -------------------------
(***************************************************************************)
(* contracts/contracts/ReputationRegistry.sol on top of the token whose    *)
(* transferFrom and transfer it calls.  The file as committed does not     *)
(* compile (a second contract header and "..." in its middle): the model   *)
(* is of the functions as written.                                         *)
(***************************************************************************)
EXTENDS IntegrityToken

CONSTANTS
    Registry,   \* address(this)
    Agents,     \* agents that LPs stake to
    Tiers,      \* verificationTier values; verifyAgent checks none
    MaxFees     \* bound: the fees kept of stakes

ASSUME RegistryAssumption ==
    /\ Registry \in Holders \ (Callers \cup {Token})
    /\ Agents \subseteq Callers
    /\ Tiers \subseteq Nat
    /\ 0 \in Tiers
    /\ MaxFees \in Nat

VARIABLES
    own,        \* agents[a].totalStaked
    external,   \* agents[a].externalStaked
    userStakes, \* userStakes[user][agent]
    tier,       \* agents[a].verificationTier
    fees        \* history: what the fee kept of stakes on their way in

registryVars == <<own, external, userStakes, tier, fees>>
vars == <<tokenVars, registryVars>>

Init ==
    /\ TokenInit
    /\ own = [a \in Callers |-> 0]
    /\ external = [a \in Agents |-> 0]
    /\ userStakes = [u \in Callers |-> [a \in Agents |-> 0]]
    /\ tier = [a \in Agents |-> 0]
    /\ fees = 0

\* What the registry does not get of a stake.
Kept(from, amount) == IF Exempt(from, Registry) THEN 0 ELSE FeeOf(amount)

Deposit(u, amount) ==
    /\ fees + Kept(u, amount) <= MaxFees
    /\ fees' = fees + Kept(u, amount)
    /\ Transfer(u, Registry, amount)

\* The stake counts in full, whatever of it arrives.
RegistryStake(u, amount) ==
    /\ Deposit(u, amount)
    /\ own' = [own EXCEPT ![u] = @ + amount]
    /\ UNCHANGED <<external, userStakes, tier>>

StakeToAgent(u, a, amount) ==
    /\ Deposit(u, amount)
    /\ userStakes' = [userStakes EXCEPT ![u][a] = @ + amount]
    /\ external' = [external EXCEPT ![a] = @ + amount]
    /\ UNCHANGED <<own, tier>>

\* Mutant: neither the user's stake nor the agent's total is lowered.
UnstakeFromAgent_KeepsStake(u, a, amount) ==
    /\ userStakes[u][a] >= amount
    /\ Transfer(Registry, u, amount)
    /\ UNCHANGED registryVars

UnstakeFromAgent(u, a, amount) ==
    /\ userStakes[u][a] >= amount
    /\ external[a] >= amount
    /\ userStakes' = [userStakes EXCEPT ![u][a] = @ - amount]
    /\ external' = [external EXCEPT ![a] = @ - amount]
    /\ Transfer(Registry, u, amount)
    /\ UNCHANGED <<own, tier, fees>>

RegistryUnstake(u, amount) ==
    /\ own[u] >= amount
    /\ own' = [own EXCEPT ![u] = @ - amount]
    /\ Transfer(Registry, u, amount)
    /\ UNCHANGED <<external, userStakes, tier, fees>>

\* verifyAgent and updateAIS, of which only the second checks the tier.
VerifyAgent(a, t) ==
    /\ tier' = [tier EXCEPT ![a] = t]
    /\ UNCHANGED <<tokenVars, own, external, userStakes, fees>>

UpdateAIS(a, t) ==
    /\ t \in 1 .. 3
    /\ VerifyAgent(a, t)

\* The payment stays with the registry and the tier as it is, until a
\* validator raises it.
UpgradeTier(a, target, amount) ==
    /\ target > tier[a]
    /\ target <= 3
    /\ Transfer(a, Registry, amount)
    /\ UNCHANGED registryVars

RegistryNext ==
    \/ \E u \in Callers, v \in Amounts :
         \/ RegistryStake(u, v) \/ RegistryUnstake(u, v)
         \/ \E a \in Agents : StakeToAgent(u, a, v) \/ UnstakeFromAgent(u, a, v)
    \/ \E a \in Agents, t \in Tiers :
         \/ VerifyAgent(a, t) \/ UpdateAIS(a, t)
         \/ \E v \in Amounts : UpgradeTier(a, t, v)

Next == (TokenNext /\ UNCHANGED registryVars) \/ RegistryNext

Spec == Init /\ [][Next]_vars

-----------------------------------------------------------------------------
(* Properties.                                                             *)

\* The variables of the token and the registry keep their types.
TypeOK ==
    /\ TokenTypeOK
    /\ own \in [Callers -> Nat]
    /\ external \in [Agents -> Nat]
    /\ userStakes \in [Callers -> [Agents -> Nat]]
    /\ tier \in [Agents -> Tiers]
    /\ fees \in 0 .. MaxFees

Owed == SumFunction(own) + SumFunction(external)

\* What the registry owes and does not hold is no more than the token's fee
\* kept of the stakes on their way in: nothing else drains it.
ShortfallIsFees == Owed <= balance[Registry] + fees
=============================================================================
