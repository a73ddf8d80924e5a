--------------------------- MODULE IntegrityToken ---------------------------
(***************************************************************************)
(* contracts/contracts/IntegrityToken.sol: the capped supply, the fee on   *)
(* transfers, half of it burnt, and staking inside the token.  A           *)
(* transaction is one step, and one that reverts changes nothing.  Role    *)
(* management and the unread reputation cache are left out: a validator    *)
(* may always set the multiplier.                                          *)
(***************************************************************************)
EXTENDS Integers, FiniteSetsExt, Functions

CONSTANTS
    Holders,    \* every account that holds tokens
    Callers,    \* those that send transactions of their own
    Treasury,   \* initialOwner
    Token,      \* address(this)
    Zero,       \* address(0), which holds nothing
    MaxSupply,
    BaseFee,    \* baseFeeBps, MaxFee and FeeUnit: 50, 200 and 10000
    MaxFee,
    FeeUnit,
    Multipliers,\* bound: the multipliers a validator tries to set
    Amounts     \* bound: the amounts of a call

ASSUME TokenAssumption ==
    /\ IsFiniteSet(Holders)
    /\ Callers \subseteq Holders \ {Token}
    /\ Treasury \in Callers
    /\ Token \in Holders
    /\ Zero \notin Holders
    /\ MaxSupply \in Nat
    /\ BaseFee \in Nat
    /\ FeeUnit \in Nat \ {0}
    /\ MaxFee \in 0 .. FeeUnit
    /\ Multipliers \subseteq Nat
    /\ Amounts \subseteq Nat \ {0}

VARIABLES
    balance,        \* balanceOf
    supply,         \* totalSupply
    totalMinted,
    multiplier,     \* feeMultiplier
    owner,          \* owner(), Zero once it is renounced
    stakes,         \* _stakes[a].amount
    totalStaked

tokenVars ==
    <<balance, supply, totalMinted, multiplier, owner, stakes, totalStaked>>

TokenInit ==
    /\ totalMinted = MaxSupply \div 2
    /\ supply = totalMinted
    /\ balance = [a \in Holders |-> IF a = Treasury THEN totalMinted ELSE 0]
    /\ multiplier = 1
    /\ owner = Treasury
    /\ stakes = [a \in Callers |-> 0]
    /\ totalStaked = 0
-----------------------------------------------------------------------------
(* _update.                                                                *)

\* Mutant: transfers to and from the token contract pay the fee.
Exempt_OwnerOnly(from, to) == owner \in {from, to}

Exempt(from, to) == owner \in {from, to} \/ Token \in {from, to}

FeeOf(value) == (value * Min({BaseFee * multiplier, MaxFee})) \div FeeUnit

Move(held, from, to, value) ==
    [a \in Holders |-> held[a] - (IF a = from THEN value ELSE 0)
                               + (IF a = to THEN value ELSE 0)]

\* Without an owner its share is burnt too.
Burnt(fee) == IF owner = Zero THEN fee ELSE fee \div 2

\* The receiver, the burn and the owner are paid one after the other, each
\* from what is left: a transfer to oneself needs less than its value.
Update(from, to, value) ==
    LET fee == IF Exempt(from, to) THEN 0 ELSE FeeOf(value)
        burn == fee \div 2
        paid == Move(balance, from, to, value - fee)
        burnt == Move(paid, from, Zero, burn)
    IN  /\ balance[from] >= value - fee
        /\ paid[from] >= burn
        /\ burnt[from] >= fee - burn
        /\ balance' = Move(burnt, from, owner, fee - burn)
        /\ supply' = supply - Burnt(fee)
        /\ UNCHANGED <<totalMinted, multiplier, owner>>
-----------------------------------------------------------------------------
Mint(to, amount) ==
    /\ owner # Zero
    /\ totalMinted + amount <= MaxSupply
    /\ totalMinted' = totalMinted + amount
    /\ supply' = supply + amount
    /\ balance' = Move(balance, Zero, to, amount)
    /\ UNCHANGED <<multiplier, owner, stakes, totalStaked>>

\* transfer, or transferFrom under an allowance that covers the value.
Transfer(from, to, value) ==
    /\ Update(from, to, value)
    /\ UNCHANGED <<stakes, totalStaked>>

Stake(account, amount) ==
    /\ Update(account, Token, amount)
    /\ stakes' = [stakes EXCEPT ![account] = @ + amount]
    /\ totalStaked' = totalStaked + amount

\* Mutant: the total is not lowered.
Unstake_KeepsTotal(account, amount) ==
    /\ stakes[account] >= amount
    /\ Update(Token, account, amount)
    /\ stakes' = [stakes EXCEPT ![account] = @ - amount]
    /\ UNCHANGED totalStaked

\* A total below the amount would revert too: the subtraction is checked.
Unstake(account, amount) ==
    /\ stakes[account] >= amount
    /\ totalStaked >= amount
    /\ Update(Token, account, amount)
    /\ stakes' = [stakes EXCEPT ![account] = @ - amount]
    /\ totalStaked' = totalStaked - amount

SetFeeMultiplier(m) ==
    /\ m \in 1 .. 4
    /\ multiplier' = m
    /\ UNCHANGED <<balance, supply, totalMinted, owner, stakes, totalStaked>>

\* transferOwnership and renounceOwnership, by the owner.
TransferOwnership(o) ==
    /\ owner # Zero
    /\ owner' = o
    /\ UNCHANGED <<balance, supply, totalMinted, multiplier, stakes, totalStaked>>

TokenNext ==
    \/ \E v \in Amounts :
         \/ \E a \in Holders : Mint(a, v)
         \/ \E a \in Callers : Stake(a, v) \/ Unstake(a, v)
         \/ \E a \in Callers, b \in Holders : Transfer(a, b, v)
    \/ \E m \in Multipliers : SetFeeMultiplier(m)
    \/ \E o \in Callers \cup {Zero} : TransferOwnership(o)

TokenSpec == TokenInit /\ [][TokenNext]_tokenVars

-----------------------------------------------------------------------------
(* Properties.                                                             *)

\* The variables keep their types; that the supply is never negative follows
\* from LedgerAddsUp.
TokenTypeOK ==
    /\ balance \in [Holders -> Nat]
    /\ supply \in Int
    /\ totalMinted \in Nat
    /\ multiplier \in 1 .. 4
    /\ owner \in Callers \cup {Zero}
    /\ stakes \in [Callers -> Nat]
    /\ totalStaked \in Nat

\* However much is burnt, no more than MAX_SUPPLY is ever minted.
SupplyIsCapped == supply <= totalMinted /\ totalMinted <= MaxSupply

\* Every token of the supply is in some balance, every staked one in a stake.
LedgerAddsUp ==
    /\ supply = SumFunction(balance)
    /\ totalStaked = SumFunction(stakes)

\* The token contract holds what was staked with it: staking pays no fee
\* ("No fee for minting, burning, staking", IntegrityToken.sol:171).
StakesAreBacked == totalStaked <= balance[Token]
=============================================================================
