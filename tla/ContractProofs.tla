--------------------------- MODULE ContractProofs ---------------------------
(***************************************************************************)
(* Proofs about the contracts: the token under the registry, for any       *)
(* accounts, amounts and fees, and the Slasher, for any deals, windows and *)
(* length of the run.                                                      *)
(***************************************************************************)
EXTENDS ReputationRegistry, Slasher, FiniteSetTheorems, TLAPS

-----------------------------------------------------------------------------
(* Sums.                                                                   *)

\* The units that f gives the members of s: f[k] of them for each k.
Units(f, s) == UNION {{k} \X (1 .. f[k]) : k \in s}

Pick(s) == CHOOSE x \in s : TRUE

\* The function that SumFunction builds, from the subsets of its domain.
Iter(f) ==
    CHOOSE g : g = [s \in SUBSET DOMAIN f |->
                      IF s = {} THEN 0 ELSE f[Pick(s)] + g[s \ {Pick(s)}]]

\* A finite set of members has finitely many units.
LEMMA UnitsFinite ==
    ASSUME NEW S, IsFiniteSet(S), NEW f \in [S -> Nat]
    PROVE  IsFiniteSet(Units(f, S)) /\ Cardinality(Units(f, S)) \in Nat
<1> DEFINE g == [k \in S |-> {k} \X (1 .. f[k])]
           T == {{k} \X (1 .. f[k]) : k \in S}
<1>1. g \in Surjection(S, T)
  BY DEF Surjection
<1>2. IsFiniteSet(T)
  <2> HIDE DEF T, g
  <2> QED
    BY <1>1, FS_Surjection
<1>3. \A U \in T : IsFiniteSet(U)
  <2> SUFFICES ASSUME NEW k \in S
               PROVE  IsFiniteSet({k} \X (1 .. f[k]))
    OBVIOUS
  <2>1. IsFiniteSet({k}) /\ f[k] \in Int
    BY FS_Singleton
  <2>2. IsFiniteSet(1 .. f[k])
    BY <2>1, FS_Interval
  <2> QED
    BY <2>1, <2>2, FS_Product
<1>4. IsFiniteSet(UNION T)
  BY <1>2, <1>3, FS_UNION
<1> QED
  BY <1>4, FS_CardinalityType DEF Units

\* One more member brings its units.
LEMMA UnitsGrow ==
    ASSUME NEW S, IsFiniteSet(S), NEW f \in [S -> Nat],
           NEW s \in SUBSET S, NEW k \in S \ s
    PROVE  Cardinality(Units(f, s \cup {k})) = Cardinality(Units(f, s)) + f[k]
<1> DEFINE U == Units(f, s)
           V == {k} \X (1 .. f[k])
<1>1. Units(f, s \cup {k}) = U \cup V
  BY DEF Units
<1>2. IsFiniteSet(s)
  BY FS_Subset
<1>3. IsFiniteSet(U) /\ Cardinality(U) \in Nat
  <2>1. [j \in s |-> f[j]] \in [s -> Nat]
    OBVIOUS
  <2>2. Units([j \in s |-> f[j]], s) = U
    BY DEF Units
  <2> QED
    BY <1>2, <2>1, <2>2, UnitsFinite
<1>4. IsFiniteSet(V) /\ Cardinality(V) = f[k]
  <2>1. f[k] \in Nat
    OBVIOUS
  <2>2. IsFiniteSet({k}) /\ Cardinality({k}) = 1
    BY FS_Singleton
  <2>3. IsFiniteSet(1 .. f[k]) /\ Cardinality(1 .. f[k]) = f[k]
    BY <2>1, FS_Interval
  <2>4. /\ IsFiniteSet(V)
        /\ Cardinality(V) = Cardinality({k}) * Cardinality(1 .. f[k])
    BY <2>2, <2>3, FS_Product
  <2> QED
    BY <2>1, <2>2, <2>3, <2>4
<1>5. U \cap V = {}
  BY DEF Units
<1> HIDE DEF U, V
<1>6. Cardinality(U \cup V)
        = Cardinality(U) + Cardinality(V) - Cardinality(U \cap V)
  BY <1>3, <1>4, FS_Union
<1>7. Cardinality(U \cap V) = 0
  <2>1. Cardinality({}) = 0
    BY FS_EmptySet
  <2> QED
    BY <1>5, <2>1
<1>8. f[k] \in Nat
  OBVIOUS
<1>9. Cardinality(U \cup V) = Cardinality(U) + f[k]
  BY <1>3, <1>4, <1>6, <1>7, <1>8
<1> QED
  BY <1>1, <1>9 DEF U

\* SumFunction counts the units: were it not so, a smallest set of arguments
\* would show it, and without its last member a smaller one.
LEMMA SumIsCount ==
    ASSUME NEW S, IsFiniteSet(S), NEW f \in [S -> Nat]
    PROVE  SumFunction(f) = Cardinality(Units(f, S))
<1> DEFINE Eqn(g) == g = [s \in SUBSET S |->
                      IF s = {} THEN 0 ELSE f[Pick(s)] + g[s \ {Pick(s)}]]
           count == [s \in SUBSET S |-> Cardinality(Units(f, s))]
<1>1. SumFunction(f) = Iter(f)[S]
  BY DEF SumFunction, SumFunctionOnSet, FoldFunctionOnSet, MapThenFoldSet,
         Iter, Pick
<1>2. \A s \in SUBSET S :
        count[s] = IF s = {} THEN 0 ELSE f[Pick(s)] + count[s \ {Pick(s)}]
  <2> SUFFICES ASSUME NEW s \in SUBSET S
               PROVE  count[s] = IF s = {} THEN 0
                                 ELSE f[Pick(s)] + count[s \ {Pick(s)}]
    OBVIOUS
  <2>1. CASE s = {}
    <3>1. Units(f, {}) = {}
      BY DEF Units
    <3> QED
      BY <2>1, <3>1, FS_EmptySet
  <2>2. CASE s # {}
    <3> DEFINE k == Pick(s)
               r == s \ {k}
    <3>1. k \in s
      BY <2>2 DEF Pick
    <3>2. r \in SUBSET S /\ k \in S \ r /\ s = r \cup {k}
      BY <3>1
    <3> HIDE DEF k, r
    <3>3. Cardinality(Units(f, s)) = Cardinality(Units(f, r)) + f[k]
      BY <3>2, UnitsGrow
    <3>4. Cardinality(Units(f, r)) \in Nat /\ f[k] \in Nat
      <4>1. IsFiniteSet(r)
        BY <3>2, FS_Subset
      <4>2. [j \in r |-> f[j]] \in [r -> Nat]
        BY <3>2
      <4>3. Units([j \in r |-> f[j]], r) = Units(f, r)
        BY DEF Units
      <4>4. Cardinality(Units(f, r)) \in Nat
        BY <4>1, <4>2, <4>3, UnitsFinite
      <4> QED
        BY <3>2, <4>4
    <3>5. count[s] = f[k] + count[r]
      BY <3>2, <3>3, <3>4
    <3> QED
      BY <2>2, <3>5 DEF k, r
  <2> QED
    BY <2>1, <2>2
<1>3. Eqn(count)
  <2> SUFFICES count = [s \in SUBSET S |->
                 IF s = {} THEN 0 ELSE f[Pick(s)] + count[s \ {Pick(s)}]]
    OBVIOUS
  <2> DEFINE rhs == [s \in SUBSET S |->
                 IF s = {} THEN 0 ELSE f[Pick(s)] + count[s \ {Pick(s)}]]
  <2>1. DOMAIN count = SUBSET S /\ DOMAIN rhs = SUBSET S
    OBVIOUS
  <2>2. \A s \in SUBSET S : rhs[s] = count[s]
    BY <1>2
  <2>3. /\ count = [s \in SUBSET S |-> count[s]]
        /\ rhs = [s \in SUBSET S |-> rhs[s]]
    OBVIOUS
  <2> HIDE DEF count, rhs
  <2>4. count = rhs
    BY <2>1, <2>2, <2>3
  <2> QED
    BY <2>4 DEF rhs
<1>4. Eqn(Iter(f))
  <2>1. \E g : Eqn(g)
    BY <1>3
  <2>2. DOMAIN f = S
    OBVIOUS
  <2>3. Iter(f) = CHOOSE g : Eqn(g)
    BY <2>2 DEF Iter
  <2> HIDE DEF Eqn
  <2> QED
    BY <2>1, <2>3
<1> DEFINE Wrong == {s \in SUBSET S : Iter(f)[s] # count[s]}
<1>5. ASSUME Wrong # {}
      PROVE  FALSE
  <2>1. Wrong \subseteq FiniteSubsetsOf(S)
    BY FS_FiniteSubsetsOfFinite
  <2>2. PICK s \in Wrong :
          \A r \in Wrong : <<r, s>> \notin StrictSubsetOrdering(S)
    <3> HIDE DEF Wrong
    <3>1. IsWellFoundedOn(StrictSubsetOrdering(S), FiniteSubsetsOf(S))
      BY FS_StrictSubsetOrderingWellFounded
    <3> QED
      BY <1>5, <2>1, <3>1, WFMin
  <2>3. s \in SUBSET S /\ Iter(f)[s] # count[s]
    OBVIOUS
  <2>4. Iter(f)[s] = IF s = {} THEN 0 ELSE f[Pick(s)] + Iter(f)[s \ {Pick(s)}]
    BY <1>4, <2>3
  <2>5. s # {} /\ Iter(f)[s \ {Pick(s)}] # count[s \ {Pick(s)}]
    BY <1>2, <2>3, <2>4
  <2>6. s \ {Pick(s)} \in Wrong
    BY <2>3, <2>5
  <2>7. Pick(s) \in s
    BY <2>5 DEF Pick
  <2>8. <<s \ {Pick(s)}, s>> \in StrictSubsetOrdering(S)
    BY <2>3, <2>7 DEF StrictSubsetOrdering
  <2> QED
    BY <2>2, <2>6, <2>8
<1> QED
  BY <1>1, <1>5

\* f and g differ at x at most.
AgreeBut(f, g, S, x) == \A k \in S \ {x} : g[k] = f[k]

\* A sum follows the one value that changes.
LEMMA SumChanges ==
    ASSUME NEW S, IsFiniteSet(S), NEW f \in [S -> Nat], NEW g \in [S -> Nat],
           NEW x \in S, AgreeBut(f, g, S, x)
    PROVE  /\ SumFunction(f) \in Nat /\ SumFunction(g) \in Nat
           /\ SumFunction(g) = SumFunction(f) - f[x] + g[x]
<1> DEFINE r == S \ {x}
<1>1. /\ Cardinality(Units(f, S)) \in Nat /\ Cardinality(Units(g, S)) \in Nat
  BY UnitsFinite
<1>2. /\ Cardinality(Units(f, r)) \in Nat
      /\ Units(f, r) = Units(g, r)
  <2>1. IsFiniteSet(r)
    BY FS_Subset
  <2>2. [j \in r |-> f[j]] \in [r -> Nat]
    OBVIOUS
  <2>3. Units([j \in r |-> f[j]], r) = Units(f, r)
    BY DEF Units
  <2>4. Units(f, r) = Units(g, r)
    BY DEF Units, AgreeBut
  <2> QED
    BY <2>1, <2>2, <2>3, <2>4, UnitsFinite
<1>3. r \in SUBSET S /\ x \in S \ r /\ r \cup {x} = S
  OBVIOUS
<1> HIDE DEF r
<1>4. Cardinality(Units(f, S)) = Cardinality(Units(f, r)) + f[x]
  <2>1. Cardinality(Units(f, r \cup {x})) = Cardinality(Units(f, r)) + f[x]
    BY <1>3, UnitsGrow
  <2> QED
    BY <1>3, <2>1
<1>5. Cardinality(Units(g, S)) = Cardinality(Units(g, r)) + g[x]
  <2>1. Cardinality(Units(g, r \cup {x})) = Cardinality(Units(g, r)) + g[x]
    BY <1>3, UnitsGrow
  <2> QED
    BY <1>3, <2>1
<1>6. f[x] \in Nat /\ g[x] \in Nat
  OBVIOUS
<1>7. /\ SumFunction(f) = Cardinality(Units(f, S))
      /\ SumFunction(g) = Cardinality(Units(g, S))
  BY SumIsCount
<1> QED
  BY <1>1, <1>2, <1>4, <1>5, <1>6, <1>7

\* Nothing adds up to nothing.
LEMMA SumOfZeros ==
    ASSUME NEW S, IsFiniteSet(S)
    PROVE  SumFunction([k \in S |-> 0]) = 0
<1> DEFINE f == [k \in S |-> 0]
<1>1. f \in [S -> Nat] /\ Units(f, S) = {}
  BY DEF Units
<1> HIDE DEF f
<1>2. SumFunction(f) = Cardinality(Units(f, S))
  BY <1>1, SumIsCount
<1> QED
  BY <1>1, <1>2, FS_EmptySet DEF f

-----------------------------------------------------------------------------
(* The fee.                                                                *)

USE TokenAssumption, RegistryAssumption

\* The rounded-down share of a value is at most the value.
LEMMA ShareBounds ==
    ASSUME NEW v \in Nat, NEW u \in Nat \ {0}, NEW r \in 0 .. u
    PROVE  (v * r) \div u \in 0 .. v
<1> DEFINE x == v * r
<1>1. x \in Nat /\ x <= v * u
  <2>1. r <= u /\ r \in Nat
    OBVIOUS
  <2>2. v * (u - r) \in Nat
    BY <2>1
  <2>3. v * (u - r) = v * u - v * r
    BY <2>1
  <2> QED
    BY <2>1, <2>2, <2>3
<1> HIDE DEF x
<1>2. x \div u \in Int /\ u * (x \div u) <= x /\ x < u * (x \div u) + u
  BY <1>1
<1>3. x \div u >= 0
  BY <1>1, <1>2
<1>4. x \div u <= v
  <2> SUFFICES ASSUME x \div u >= v + 1
               PROVE  FALSE
    BY <1>2
  <2> DEFINE q == x \div u
  <2>1. q \in Int /\ q - (v + 1) \in Nat
    BY <1>2
  <2> HIDE DEF q
  <2>2. u * (q - (v + 1)) >= 0
    BY <2>1
  <2>3. u * (q - (v + 1)) = u * q - v * u - u
    BY <2>1
  <2>4. u * q <= x
    BY <1>2 DEF q
  <2> QED
    BY <1>1, <2>1, <2>2, <2>3, <2>4
<1> QED
  BY <1>2, <1>3, <1>4 DEF x

\* The fee is part of the value and its burnt part is part of the fee.
LEMMA FeeBounds ==
    ASSUME TokenTypeOK, NEW v \in Nat
    PROVE  /\ FeeOf(v) \in 0 .. v
           /\ \A fee \in Nat : fee \div 2 \in 0 .. fee
<1> DEFINE rate == Min({BaseFee * multiplier, MaxFee})
<1>1. rate \in 0 .. FeeUnit
  <2> DEFINE b == BaseFee * multiplier
  <2>1. b \in Nat
    BY DEF TokenTypeOK
  <2> HIDE DEF b
  <2>2. \E m \in {b, MaxFee} : \A y \in {b, MaxFee} : m <= y
    <3>1. CASE b <= MaxFee
      BY <2>1, <3>1
    <3>2. CASE b > MaxFee
      BY <2>1, <3>2
    <3> QED
      BY <2>1, <3>1, <3>2
  <2>3. Min({b, MaxFee}) \in {b, MaxFee} /\ Min({b, MaxFee}) <= MaxFee
    BY <2>2 DEF Min
  <2> QED
    BY <2>1, <2>3 DEF b
<1>2. FeeOf(v) \in 0 .. v
  <2> HIDE DEF rate
  <2>1. (v * rate) \div FeeUnit \in 0 .. v
    BY <1>1, ShareBounds
  <2> QED
    BY <2>1 DEF FeeOf, rate
<1>3. \A fee \in Nat : fee \div 2 \in 0 .. fee
  OBVIOUS
<1> QED
  BY <1>2, <1>3

-----------------------------------------------------------------------------
(* One transfer.                                                           *)

\* A transfer leaves natural balances, never raises the supply, moves the
\* whole value to and from the token contract, and takes nothing from it
\* otherwise.
LEMMA UpdateEffect ==
    ASSUME TokenTypeOK, NEW from \in Holders, NEW to \in Holders,
           from = Token => to # Token,
           NEW v \in Nat, Update(from, to, v)
    PROVE  /\ balance' \in [Holders -> Nat]
           /\ supply' \in Int /\ supply' <= supply
           /\ to = Token => balance'[Token] = balance[Token] + v
           /\ from = Token => balance'[Token] = balance[Token] - v
           /\ from # Token => balance'[Token] >= balance[Token]
<1> DEFINE fee == IF Exempt(from, to) THEN 0 ELSE FeeOf(v)
           burn == fee \div 2
           paid == Move(balance, from, to, v - fee)
           burnt == Move(paid, from, Zero, burn)
<1>1. fee \in 0 .. v /\ burn \in 0 .. fee
  BY FeeBounds
<1>2. (from = Token \/ to = Token) => fee = 0
  BY DEF Exempt
<1>3. owner # Token /\ Zero # Token
  BY DEF TokenTypeOK
<1>4. /\ balance[from] >= v - fee
      /\ paid[from] >= burn
      /\ burnt[from] >= fee - burn
      /\ supply' = supply - Burnt(fee)
      /\ balance' = Move(burnt, from, owner, fee - burn)
  BY DEF Update
<1>5. Burnt(fee) \in Nat
  BY <1>1 DEF Burnt
<1> HIDE DEF fee, burn
<1>6. \A a \in Holders :
         paid[a] = balance[a] - (IF a = from THEN v - fee ELSE 0)
                              + (IF a = to THEN v - fee ELSE 0)
  BY DEF Move
<1> HIDE DEF paid
<1>7. \A a \in Holders :
         burnt[a] = paid[a] - (IF a = from THEN burn ELSE 0)
                            + (IF a = Zero THEN burn ELSE 0)
  BY DEF Move
<1> HIDE DEF burnt
<1>8. \A a \in Holders :
         balance'[a] = burnt[a] - (IF a = from THEN fee - burn ELSE 0)
                                + (IF a = owner THEN fee - burn ELSE 0)
  BY <1>4 DEF Move
<1>9. balance' = [a \in Holders |-> balance'[a]]
  BY <1>4 DEF Move
<1>10. ASSUME NEW a \in Holders
      PROVE  /\ balance'[a] \in Nat
             /\ a # from => balance'[a] >= balance[a]
  <2>1. balance[a] \in Nat /\ a # Zero
    BY DEF TokenTypeOK
  <2>2. CASE a = from
    BY <1>1, <1>4, <1>6, <1>7, <1>8, <2>1, <2>2
  <2>3. CASE a # from
    BY <1>1, <1>6, <1>7, <1>8, <2>1, <2>3
  <2> QED
    BY <2>2, <2>3
<1>11. balance' \in [Holders -> Nat]
  BY <1>9, <1>10
<1>12. supply' \in Int /\ supply' <= supply
  BY <1>4, <1>5 DEF TokenTypeOK
<1>13. to = Token => balance'[Token] = balance[Token] + v
  BY <1>1, <1>2, <1>3, <1>6, <1>7, <1>8 DEF TokenTypeOK
<1>14. from = Token => balance'[Token] = balance[Token] - v
  BY <1>1, <1>2, <1>3, <1>6, <1>7, <1>8 DEF TokenTypeOK
<1> QED
  BY <1>10, <1>11, <1>12, <1>13, <1>14

-----------------------------------------------------------------------------
(* The token.                                                              *)

TokenInv == TokenTypeOK /\ SupplyIsCapped /\ StakesAreBacked

\* Half of the cap is minted and nothing is staked.
LEMMA TokenInvInit == TokenInit => TokenInv
<1> SUFFICES ASSUME TokenInit
             PROVE  TokenInv
  OBVIOUS
<1>1. totalMinted \in Nat /\ totalMinted <= MaxSupply
  BY DEF TokenInit
<1> QED
  BY <1>1 DEF TokenInit, TokenInv, TokenTypeOK, SupplyIsCapped, StakesAreBacked

\* A transfer that is not the token contract's own takes nothing from it.
LEMMA TransferStep ==
    ASSUME TokenInv, NEW from \in Holders \ {Token}, NEW to \in Holders,
           NEW v \in Amounts, Transfer(from, to, v)
    PROVE  TokenInv'
<1>1. /\ balance' \in [Holders -> Nat]
      /\ supply' \in Int /\ supply' <= supply
      /\ balance'[Token] >= balance[Token]
  BY UpdateEffect DEF Transfer, TokenInv
<1>2. /\ UNCHANGED <<totalMinted, multiplier, owner>>
      /\ UNCHANGED <<stakes, totalStaked>>
  BY DEF Transfer, Update
<1> QED
  BY <1>1, <1>2 DEF TokenInv, TokenTypeOK, SupplyIsCapped, StakesAreBacked

\* Staking and unstaking move the whole amount, minting stays under the cap.
LEMMA TokenStep == TokenInv /\ [TokenNext]_tokenVars => TokenInv'
<1> SUFFICES ASSUME TokenInv, [TokenNext]_tokenVars
             PROVE  TokenInv'
  OBVIOUS
<1>1. ASSUME NEW a \in Holders, NEW v \in Amounts, Mint(a, v)
      PROVE  TokenInv'
  <2>1. /\ balance' = Move(balance, Zero, a, v)
        /\ UNCHANGED <<multiplier, owner, stakes, totalStaked>>
        /\ totalMinted' = totalMinted + v /\ totalMinted + v <= MaxSupply
        /\ supply' = supply + v
    BY <1>1 DEF Mint
  <2>2. /\ balance' \in [Holders -> Nat]
        /\ balance'[Token] >= balance[Token]
    BY <2>1 DEF Move, TokenInv, TokenTypeOK
  <2> QED
    BY <2>1, <2>2 DEF TokenInv, TokenTypeOK, SupplyIsCapped, StakesAreBacked
<1>2. ASSUME NEW a \in Callers, NEW v \in Amounts, Stake(a, v)
      PROVE  TokenInv'
  <2>1. /\ balance' \in [Holders -> Nat]
        /\ supply' \in Int /\ supply' <= supply
        /\ balance'[Token] = balance[Token] + v
    BY <1>2, UpdateEffect DEF Stake, TokenInv
  <2>2. UNCHANGED <<totalMinted, multiplier, owner>>
    BY <1>2 DEF Stake, Update
  <2>3. /\ stakes' = [stakes EXCEPT ![a] = stakes[a] + v]
        /\ totalStaked' = totalStaked + v
    BY <1>2 DEF Stake
  <2> QED
    BY <2>1, <2>2, <2>3
    DEF TokenInv, TokenTypeOK, SupplyIsCapped, StakesAreBacked
<1>3. ASSUME NEW a \in Callers, NEW v \in Amounts, Unstake(a, v)
      PROVE  TokenInv'
  <2>1. /\ balance' \in [Holders -> Nat]
        /\ supply' \in Int /\ supply' <= supply
        /\ balance'[Token] = balance[Token] - v
    BY <1>3, UpdateEffect DEF Unstake, TokenInv
  <2>2. UNCHANGED <<totalMinted, multiplier, owner>>
    BY <1>3 DEF Unstake, Update
  <2>3. /\ stakes' = [stakes EXCEPT ![a] = stakes[a] - v] /\ stakes[a] >= v
        /\ totalStaked' = totalStaked - v /\ totalStaked >= v
    BY <1>3 DEF Unstake
  <2> QED
    BY <2>1, <2>2, <2>3
    DEF TokenInv, TokenTypeOK, SupplyIsCapped, StakesAreBacked
<1>4. ASSUME NEW a \in Callers, NEW b \in Holders, NEW v \in Amounts,
             Transfer(a, b, v)
      PROVE  TokenInv'
  BY <1>4, TransferStep
<1>5. ASSUME NEW m \in Multipliers, SetFeeMultiplier(m)
      PROVE  TokenInv'
  BY <1>5 DEF SetFeeMultiplier, TokenInv, TokenTypeOK, SupplyIsCapped,
              StakesAreBacked
<1>6. ASSUME NEW o \in Callers \cup {Zero}, TransferOwnership(o)
      PROVE  TokenInv'
  BY <1>6 DEF TransferOwnership, TokenInv, TokenTypeOK, SupplyIsCapped,
              StakesAreBacked
<1>7. CASE UNCHANGED tokenVars
  BY <1>7 DEF tokenVars, TokenInv, TokenTypeOK, SupplyIsCapped, StakesAreBacked
<1> QED
  BY <1>1, <1>2, <1>3, <1>4, <1>5, <1>6, <1>7 DEF TokenNext

-----------------------------------------------------------------------------
(* The registry.                                                           *)

\* What the registry does to the token is a transfer to or from itself, or
\* nothing.
LEMMA RegistryOnToken ==
    ASSUME TokenInv, RegistryNext
    PROVE  TokenInv'
<1>1. /\ \A u \in Callers : u \in Holders \ {Token}
      /\ \A a \in Agents : a \in Holders \ {Token}
      /\ Registry \in Holders \ {Token}
  OBVIOUS
<1>2. ASSUME NEW u \in Callers, NEW v \in Amounts, RegistryStake(u, v)
      PROVE  TokenInv'
  BY <1>1, <1>2, TransferStep DEF RegistryStake, Deposit
<1>3. ASSUME NEW u \in Callers, NEW v \in Amounts, RegistryUnstake(u, v)
      PROVE  TokenInv'
  BY <1>1, <1>3, TransferStep DEF RegistryUnstake
<1>4. ASSUME NEW u \in Callers, NEW a \in Agents, NEW v \in Amounts,
             StakeToAgent(u, a, v)
      PROVE  TokenInv'
  BY <1>1, <1>4, TransferStep DEF StakeToAgent, Deposit
<1>5. ASSUME NEW u \in Callers, NEW a \in Agents, NEW v \in Amounts,
             UnstakeFromAgent(u, a, v)
      PROVE  TokenInv'
  BY <1>1, <1>5, TransferStep DEF UnstakeFromAgent
<1>6. ASSUME NEW a \in Agents, NEW t \in Tiers,
             VerifyAgent(a, t) \/ UpdateAIS(a, t)
      PROVE  TokenInv'
  <2>1. UNCHANGED tokenVars
    BY <1>6 DEF VerifyAgent, UpdateAIS
  <2> QED
    BY <2>1, TokenStep
<1>7. ASSUME NEW a \in Agents, NEW t \in Tiers, NEW v \in Amounts,
             UpgradeTier(a, t, v)
      PROVE  TokenInv'
  BY <1>1, <1>7, TransferStep DEF UpgradeTier
<1> QED
  BY <1>2, <1>3, <1>4, <1>5, <1>6, <1>7 DEF RegistryNext

\* Token calls by accounts and by the registry keep the invariant.
THEOREM TokenInvariant == Spec => []TokenInv
<1>1. Init => TokenInv
  BY TokenInvInit DEF Init
<1>2. TokenInv /\ [Next]_vars => TokenInv'
  <2> SUFFICES ASSUME TokenInv, [Next]_vars
               PROVE  TokenInv'
    OBVIOUS
  <2>1. CASE TokenNext
    BY <2>1, TokenStep
  <2>2. CASE RegistryNext
    BY <2>2, RegistryOnToken
  <2>3. CASE UNCHANGED vars
    BY <2>3, TokenStep DEF vars
  <2> QED
    BY <2>1, <2>2, <2>3 DEF Next
<1> QED
  BY <1>1, <1>2, PTL DEF Spec

\* No more than MAX_SUPPLY is ever minted, however much is burnt
\* (IntegrityToken.sol:94).
THEOREM CappedSupply == Spec => []SupplyIsCapped
BY TokenInvariant, PTL DEF TokenInv

\* The token contract holds every token staked with it, whoever owns it and
\* whatever the fee (IntegrityToken.sol:172).
THEOREM BackedStakes == Spec => []StakesAreBacked
BY TokenInvariant, PTL DEF TokenInv

-----------------------------------------------------------------------------
(* Types of the registry.                                                  *)

\* A deposit keeps a natural number of its fees under their bound.
LEMMA DepositFees ==
    ASSUME TypeOK, NEW u \in Callers, NEW v \in Amounts, Deposit(u, v)
    PROVE  fees' \in 0 .. MaxFees
<1>1. Kept(u, v) \in Nat
  BY FeeBounds DEF Kept, TypeOK
<1> QED
  BY <1>1 DEF Deposit, TypeOK

\* The stakes, totals and tiers of the registry keep their types: no total
\* is lowered under zero (ReputationRegistry.sol:236-239, 252-254).
THEOREM TypeCorrect == Spec => []TypeOK
<1>1. Init => TypeOK
  BY TokenInvInit DEF Init, TypeOK, TokenInv
<1>2. TypeOK /\ TokenInv' /\ [Next]_vars => TypeOK'
  <2> SUFFICES ASSUME TypeOK, TokenTypeOK', [Next]_vars
               PROVE  TypeOK'
    BY DEF TokenInv
  <2>1. CASE UNCHANGED registryVars
    BY <2>1 DEF registryVars, TypeOK
  <2>2. ASSUME NEW u \in Callers, NEW v \in Amounts, RegistryStake(u, v)
        PROVE  TypeOK'
    <3>1. fees' \in 0 .. MaxFees
      BY <2>2, DepositFees DEF RegistryStake
    <3> QED
      BY <2>2, <3>1 DEF RegistryStake, TypeOK
  <2>3. ASSUME NEW u \in Callers, NEW v \in Amounts, RegistryUnstake(u, v)
        PROVE  TypeOK'
    BY <2>3 DEF RegistryUnstake, TypeOK
  <2>4. ASSUME NEW u \in Callers, NEW a \in Agents, NEW v \in Amounts,
               StakeToAgent(u, a, v)
        PROVE  TypeOK'
    <3>1. fees' \in 0 .. MaxFees
      BY <2>4, DepositFees DEF StakeToAgent
    <3>2. userStakes' \in [Callers -> [Agents -> Nat]]
      BY <2>4 DEF StakeToAgent, TypeOK
    <3> QED
      BY <2>4, <3>1, <3>2 DEF StakeToAgent, TypeOK
  <2>5. ASSUME NEW u \in Callers, NEW a \in Agents, NEW v \in Amounts,
               UnstakeFromAgent(u, a, v)
        PROVE  TypeOK'
    <3>1. userStakes' \in [Callers -> [Agents -> Nat]]
      BY <2>5 DEF UnstakeFromAgent, TypeOK
    <3>2. external' \in [Agents -> Nat]
      BY <2>5 DEF UnstakeFromAgent, TypeOK
    <3> QED
      BY <2>5, <3>1, <3>2 DEF UnstakeFromAgent, TypeOK
  <2>6. ASSUME NEW a \in Agents, NEW t \in Tiers,
               VerifyAgent(a, t) \/ UpdateAIS(a, t)
        PROVE  TypeOK'
    BY <2>6 DEF VerifyAgent, UpdateAIS, TypeOK
  <2>7. ASSUME NEW a \in Agents, NEW t \in Tiers, NEW v \in Amounts,
               UpgradeTier(a, t, v)
        PROVE  TypeOK'
    BY <2>1, <2>7 DEF UpgradeTier
  <2> QED
    BY <2>1, <2>2, <2>3, <2>4, <2>5, <2>6, <2>7
    DEF Next, RegistryNext, vars
<1> QED
  BY <1>1, <1>2, TokenInvariant, PTL DEF Spec
-----------------------------------------------------------------------------
(* The ledger.                                                             *)

\* The part of a payment that goes through the books of the holders.
Known(a, v) == IF a \in Holders THEN v ELSE 0

\* A payment takes from one account what it gives to the other; address(0)
\* is no account.
LEMMA MoveKeepsSum ==
    ASSUME NEW held \in [Holders -> Nat], NEW from, NEW to, NEW v \in Nat,
           from \in Holders => held[from] >= v
    PROVE  /\ Move(held, from, to, v) \in [Holders -> Nat]
           /\ SumFunction(held) \in Nat
           /\ SumFunction(Move(held, from, to, v))
                = SumFunction(held) - Known(from, v) + Known(to, v)
<1> DEFINE less == [a \in Holders |-> held[a] - (IF a = from THEN v ELSE 0)]
           more == Move(held, from, to, v)
<1>1. less \in [Holders -> Nat]
  <2> SUFFICES ASSUME NEW a \in Holders
               PROVE  held[a] - (IF a = from THEN v ELSE 0) \in Nat
    OBVIOUS
  <2>1. held[a] \in Nat
    OBVIOUS
  <2> QED
    BY <2>1
<1>2. \A a \in Holders : more[a] = less[a] + (IF a = to THEN v ELSE 0)
  BY DEF Move
<1>3. more \in [Holders -> Nat]
  <2>1. more = [a \in Holders |-> more[a]]
    BY DEF Move
  <2>2. ASSUME NEW a \in Holders
        PROVE  more[a] \in Nat
    <3>1. less[a] \in Nat
      BY <1>1
    <3> HIDE DEF less, more
    <3> QED
      BY <1>2, <3>1
  <2> HIDE DEF less, more
  <2> QED
    BY <2>1, <2>2
<1>4. SumFunction(held) \in Nat
  <2>1. Token \in Holders /\ AgreeBut(held, held, Holders, Token)
    BY DEF AgreeBut
  <2> QED
    BY <2>1, SumChanges
<1>5. /\ SumFunction(less) \in Nat
      /\ SumFunction(less) = SumFunction(held) - Known(from, v)
  <2>1. CASE from \in Holders
    <3>1. AgreeBut(held, less, Holders, from)
      BY DEF AgreeBut
    <3>2. less[from] = held[from] - v /\ held[from] \in Nat
      BY <2>1
    <3> HIDE DEF less
    <3>3. SumFunction(less) = SumFunction(held) - held[from] + less[from]
      BY <1>1, <2>1, <3>1, SumChanges
    <3>4. SumFunction(less) \in Nat
      BY <1>1, <2>1, <3>1, SumChanges
    <3> QED
      BY <1>4, <2>1, <3>2, <3>3, <3>4 DEF Known
  <2>2. CASE from \notin Holders
    <3>1. \A a \in Holders : less[a] = held[a]
      BY <2>2
    <3> HIDE DEF less
    <3>2. less = held
      BY <1>1, <3>1
    <3> QED
      BY <1>4, <2>2, <3>2 DEF Known
  <2> QED
    BY <2>1, <2>2
<1>6. SumFunction(more) = SumFunction(less) + Known(to, v)
  <2>1. CASE to \in Holders
    <3> HIDE DEF less, more
    <3>1. AgreeBut(less, more, Holders, to)
      <4>1. \A k \in Holders : less[k] \in Nat
        BY <1>1
      <4> QED
        BY <1>2, <4>1 DEF AgreeBut
    <3>2. more[to] = less[to] + v /\ less[to] \in Nat
      BY <1>1, <1>2, <2>1
    <3>3. SumFunction(more) = SumFunction(less) - less[to] + more[to]
      BY <1>1, <1>3, <2>1, <3>1, SumChanges
    <3> QED
      BY <1>5, <2>1, <3>2, <3>3 DEF Known
  <2>2. CASE to \notin Holders
    <3> HIDE DEF less, more
    <3>1. \A a \in Holders : more[a] = less[a]
      <4>1. \A k \in Holders : less[k] \in Nat
        BY <1>1
      <4> QED
        BY <1>2, <2>2, <4>1
    <3>2. more = less
      BY <1>1, <1>3, <3>1
    <3> QED
      BY <1>5, <2>2, <3>2 DEF Known
  <2> QED
    BY <2>1, <2>2
<1> HIDE DEF less, more
<1>7. Known(from, v) \in Nat /\ Known(to, v) \in Nat
  BY DEF Known
<1>8. SumFunction(more) = SumFunction(held) - Known(from, v) + Known(to, v)
  BY <1>4, <1>5, <1>6, <1>7
<1> QED
  BY <1>3, <1>4, <1>8 DEF more

\* The three payments of a transfer lose what is burnt, and the supply with
\* them (IntegrityToken.sol:167-193).
LEMMA UpdateKeepsLedger ==
    ASSUME TokenTypeOK, NEW from \in Holders, NEW to \in Holders,
           NEW v \in Nat, Update(from, to, v),
           supply = SumFunction(balance)
    PROVE  supply' = SumFunction(balance')
<1> DEFINE fee == IF Exempt(from, to) THEN 0 ELSE FeeOf(v)
           burn == fee \div 2
           paid == Move(balance, from, to, v - fee)
           burnt == Move(paid, from, Zero, burn)
<1>1. fee \in 0 .. v /\ burn \in 0 .. fee
  BY FeeBounds
<1>2. Burnt(fee) = IF owner = Zero THEN fee ELSE burn
  BY DEF Burnt
<1>3. /\ balance[from] >= v - fee
      /\ paid[from] >= burn
      /\ burnt[from] >= fee - burn
      /\ supply' = supply - Burnt(fee)
      /\ balance' = Move(burnt, from, owner, fee - burn)
      /\ balance \in [Holders -> Nat] /\ owner \in Callers \cup {Zero}
  BY DEF Update, TokenTypeOK
<1> HIDE DEF fee, burn
<1>4. /\ paid \in [Holders -> Nat] /\ SumFunction(balance) \in Nat
      /\ SumFunction(paid)
           = SumFunction(balance) - Known(from, v - fee) + Known(to, v - fee)
  <2>1. v - fee \in Nat
    BY <1>1
  <2> QED
    BY <1>3, <2>1, MoveKeepsSum
<1>5. SumFunction(paid) = SumFunction(balance)
  BY <1>1, <1>4 DEF Known
<1> HIDE DEF paid
<1>6. /\ burnt \in [Holders -> Nat] /\ SumFunction(paid) \in Nat
      /\ SumFunction(burnt) = SumFunction(paid) - Known(from, burn)
                                                + Known(Zero, burn)
  <2>1. burn \in Nat
    BY <1>1
  <2> QED
    BY <1>3, <1>4, <2>1, MoveKeepsSum
<1>7. SumFunction(burnt) = SumFunction(balance) - burn
  BY <1>1, <1>5, <1>6 DEF Known
<1> HIDE DEF burnt
<1>8. /\ SumFunction(burnt) \in Nat
      /\ SumFunction(balance')
           = SumFunction(burnt) - Known(from, fee - burn)
                                + Known(owner, fee - burn)
  <2>1. fee - burn \in Nat
    BY <1>1
  <2> QED
    BY <1>3, <1>6, <2>1, MoveKeepsSum
<1>9. CASE owner = Zero
  <2>1. SumFunction(balance') = SumFunction(burnt) - (fee - burn)
    BY <1>1, <1>8, <1>9 DEF Known
  <2> QED
    BY <1>1, <1>2, <1>3, <1>4, <1>7, <1>9, <2>1
<1>10. CASE owner # Zero
  <2>1. SumFunction(balance') = SumFunction(burnt)
    BY <1>1, <1>3, <1>8, <1>10 DEF Known
  <2> QED
    BY <1>2, <1>3, <1>7, <1>10, <2>1
<1> QED
  BY <1>9, <1>10

\* Minting pays from nowhere what it adds to the supply.
LEMMA MintKeepsLedger ==
    ASSUME TokenTypeOK, NEW a \in Holders, NEW v \in Amounts, Mint(a, v),
           supply = SumFunction(balance)
    PROVE  supply' = SumFunction(balance')
<1>1. /\ balance \in [Holders -> Nat] /\ v \in Nat
      /\ balance' = Move(balance, Zero, a, v) /\ supply' = supply + v
  BY DEF Mint, TokenTypeOK
<1>2. /\ SumFunction(balance) \in Nat
      /\ SumFunction(balance') = SumFunction(balance) - Known(Zero, v)
                                                      + Known(a, v)
  BY <1>1, MoveKeepsSum
<1> QED
  BY <1>1, <1>2 DEF Known

Replaced(f, g, x, y) == g = [f EXCEPT ![x] = y]

\* A stake that changes changes the sum of stakes by as much.
LEMMA OneStakeChanges ==
    ASSUME NEW S \in SUBSET Holders, NEW f \in [S -> Nat], NEW x \in S,
           NEW y \in Nat
    PROVE  /\ SumFunction(f) \in Nat
           /\ \A g : Replaced(f, g, x, y)
                => SumFunction(g) = SumFunction(f) - f[x] + y
<1>1. IsFiniteSet(S) /\ AgreeBut(f, f, S, x)
  BY FS_Subset DEF AgreeBut
<1>2. SumFunction(f) \in Nat
  BY <1>1, SumChanges
<1>3. ASSUME NEW g, Replaced(f, g, x, y)
      PROVE  SumFunction(g) = SumFunction(f) - f[x] + y
  <2>1. g \in [S -> Nat] /\ g[x] = y /\ AgreeBut(f, g, S, x)
    BY <1>3 DEF AgreeBut, Replaced
  <2>2. SumFunction(g) = SumFunction(f) - f[x] + g[x]
    BY <1>1, <2>1, SumChanges
  <2> QED
    BY <2>1, <2>2
<1> QED
  BY <1>2, <1>3

\* Any transfer, by an account or by the registry, keeps the books.
LEMMA TransferKeepsLedger ==
    ASSUME TokenTypeOK, LedgerAddsUp, NEW from \in Holders, NEW to \in Holders,
           NEW v \in Amounts, Transfer(from, to, v)
    PROVE  LedgerAddsUp'
<1>1. v \in Nat /\ Update(from, to, v) /\ UNCHANGED <<stakes, totalStaked>>
  BY DEF Transfer
<1>2. supply' = SumFunction(balance')
  BY <1>1, UpdateKeepsLedger DEF LedgerAddsUp
<1> QED
  BY <1>1, <1>2 DEF LedgerAddsUp

\* What goes in and out of a stake goes in and out of the total.
LEMMA StakingKeepsLedger ==
    ASSUME TokenTypeOK, LedgerAddsUp, NEW a \in Callers, NEW v \in Amounts,
           Stake(a, v) \/ Unstake(a, v)
    PROVE  LedgerAddsUp'
<1>1. /\ v \in Nat /\ a \in Holders /\ Token \in Holders
      /\ stakes \in [Callers -> Nat] /\ totalStaked \in Nat
      /\ stakes[a] \in Nat /\ Callers \in SUBSET Holders
  BY DEF TokenTypeOK
<1>2. supply' = SumFunction(balance')
  <2>1. Update(a, Token, v) \/ Update(Token, a, v)
    BY DEF Stake, Unstake
  <2> QED
    BY <1>1, <2>1, UpdateKeepsLedger DEF LedgerAddsUp
<1>3. CASE Stake(a, v)
  <2>1. /\ stakes' = [stakes EXCEPT ![a] = stakes[a] + v]
        /\ totalStaked' = totalStaked + v
    BY <1>3 DEF Stake
  <2>2. SumFunction(stakes') = SumFunction(stakes) - stakes[a] + (stakes[a] + v)
    <3> DEFINE y == stakes[a] + v
    <3>1. y \in Nat /\ Replaced(stakes, stakes', a, y)
      BY <1>1, <2>1 DEF Replaced
    <3> HIDE DEF y
    <3>2. SumFunction(stakes') = SumFunction(stakes) - stakes[a] + y
      BY <1>1, <3>1, OneStakeChanges
    <3> QED
      BY <3>2 DEF y
  <2> QED
    BY <1>1, <1>2, <2>1, <2>2 DEF LedgerAddsUp
<1>4. CASE Unstake(a, v)
  <2>1. /\ stakes' = [stakes EXCEPT ![a] = stakes[a] - v]
        /\ totalStaked' = totalStaked - v /\ stakes[a] >= v
    BY <1>4 DEF Unstake
  <2>2. SumFunction(stakes') = SumFunction(stakes) - stakes[a] + (stakes[a] - v)
    <3> DEFINE y == stakes[a] - v
    <3>1. y \in Nat /\ Replaced(stakes, stakes', a, y)
      BY <1>1, <2>1 DEF Replaced
    <3> HIDE DEF y
    <3>2. SumFunction(stakes') = SumFunction(stakes) - stakes[a] + y
      BY <1>1, <3>1, OneStakeChanges
    <3> QED
      BY <3>2 DEF y
  <2> QED
    BY <1>1, <1>2, <2>1, <2>2 DEF LedgerAddsUp
<1> QED
  BY <1>3, <1>4

\* The first half of the cap is in the treasury and nothing is staked.
LEMMA LedgerInit == TokenInit => LedgerAddsUp
<1> SUFFICES ASSUME TokenInit
             PROVE  LedgerAddsUp
  OBVIOUS
<1> DEFINE zeros == [a \in Holders |-> 0]
<1>1. /\ totalMinted \in Nat /\ supply = totalMinted /\ Treasury \in Holders
      /\ balance = [a \in Holders |-> IF a = Treasury THEN totalMinted ELSE 0]
  BY DEF TokenInit
<1>2. /\ zeros \in [Holders -> Nat] /\ balance \in [Holders -> Nat]
      /\ zeros[Treasury] = 0 /\ balance[Treasury] = totalMinted
      /\ AgreeBut(zeros, balance, Holders, Treasury)
  BY <1>1 DEF AgreeBut
<1>3. SumFunction(zeros) = 0
  BY SumOfZeros
<1> HIDE DEF zeros
<1>4. SumFunction(balance)
        = SumFunction(zeros) - zeros[Treasury] + balance[Treasury]
  BY <1>1, <1>2, SumChanges
<1>5. SumFunction(stakes) = 0
  <2>1. IsFiniteSet(Callers)
    BY FS_Subset
  <2> QED
    BY <2>1, SumOfZeros DEF TokenInit
<1> QED
  BY <1>1, <1>2, <1>3, <1>4, <1>5 DEF LedgerAddsUp, TokenInit

\* A step of the token or of the registry keeps the books.
LEMMA LedgerStep ==
    ASSUME TokenTypeOK, LedgerAddsUp, [Next]_vars
    PROVE  LedgerAddsUp'
<1>1. Registry \in Holders /\ Callers \subseteq Holders /\ Agents \subseteq Callers
  OBVIOUS
<1>2. ASSUME NEW a \in Holders, NEW v \in Amounts, Mint(a, v)
      PROVE  LedgerAddsUp'
  BY <1>2, MintKeepsLedger DEF Mint, LedgerAddsUp
<1>3. ASSUME NEW a \in Callers, NEW v \in Amounts, Stake(a, v) \/ Unstake(a, v)
      PROVE  LedgerAddsUp'
  BY <1>3, StakingKeepsLedger
<1>4. ASSUME NEW a \in Holders, NEW b \in Holders, NEW v \in Amounts,
             Transfer(a, b, v)
      PROVE  LedgerAddsUp'
  BY <1>4, TransferKeepsLedger
<1>5. ASSUME UNCHANGED <<balance, supply, stakes, totalStaked>>
      PROVE  LedgerAddsUp'
  BY <1>5 DEF LedgerAddsUp
<1>6. CASE TokenNext
  BY <1>1, <1>2, <1>3, <1>4, <1>5, <1>6
  DEF TokenNext, SetFeeMultiplier, TransferOwnership
<1>7. CASE RegistryNext
  <2>1. ASSUME NEW u \in Callers, NEW v \in Amounts,
               \/ RegistryStake(u, v) \/ RegistryUnstake(u, v)
               \/ \E a \in Agents : StakeToAgent(u, a, v)
                                      \/ UnstakeFromAgent(u, a, v)
        PROVE  LedgerAddsUp'
    <3>1. Transfer(u, Registry, v) \/ Transfer(Registry, u, v)
      BY <2>1 DEF RegistryStake, RegistryUnstake, StakeToAgent,
                  UnstakeFromAgent, Deposit
    <3> QED
      BY <1>1, <1>4, <3>1
  <2>2. ASSUME NEW a \in Agents, NEW t \in Tiers,
               VerifyAgent(a, t) \/ UpdateAIS(a, t)
        PROVE  LedgerAddsUp'
    BY <1>5, <2>2 DEF VerifyAgent, UpdateAIS, tokenVars
  <2>3. ASSUME NEW a \in Agents, NEW t \in Tiers, NEW v \in Amounts,
               UpgradeTier(a, t, v)
        PROVE  LedgerAddsUp'
    BY <1>1, <1>4, <2>3 DEF UpgradeTier
  <2> QED
    BY <1>7, <2>1, <2>2, <2>3 DEF RegistryNext
<1>8. CASE UNCHANGED vars
  BY <1>5, <1>8 DEF vars, tokenVars
<1> QED
  BY <1>6, <1>7, <1>8 DEF Next

\* Every token of the supply is in some balance, every staked one in a stake:
\* the fee, its burnt part and the rest add up to each value moved, for a
\* transfer to oneself and without an owner too (IntegrityToken.sol:177-189).
THEOREM LedgerBalances == Spec => []LedgerAddsUp
<1>1. Init => LedgerAddsUp
  BY LedgerInit DEF Init
<1>2. TokenInv /\ LedgerAddsUp /\ [Next]_vars => LedgerAddsUp'
  BY LedgerStep DEF TokenInv
<1> QED
  BY <1>1, <1>2, TokenInvariant, PTL DEF Spec

-----------------------------------------------------------------------------
(* What the registry owes.                                                 *)

\* A transfer brings the registry its value without the fee, takes from it
\* what the registry sends, and otherwise leaves it at least what it had.
LEMMA RegistryGets ==
    ASSUME TokenTypeOK, NEW from \in Holders, NEW to \in Holders,
           NEW v \in Nat, Update(from, to, v)
    PROVE  /\ from # Registry => balance'[Registry] >= balance[Registry]
           /\ from # Registry /\ to = Registry
                => balance'[Registry] = balance[Registry] + v - Kept(from, v)
           /\ from = Registry /\ to # Registry
                => balance'[Registry] = balance[Registry] - v
<1> DEFINE fee == IF Exempt(from, to) THEN 0 ELSE FeeOf(v)
           burn == fee \div 2
           b1 == Move(balance, from, to, v - fee)
           b2 == Move(b1, from, Zero, burn)
<1>1. fee \in 0 .. v /\ burn \in 0 .. fee
  BY FeeBounds
<1>2. to = Registry => fee = Kept(from, v)
  BY DEF Kept
<1>3. /\ balance' = Move(b2, from, owner, fee - burn)
      /\ balance[Registry] \in Nat /\ Registry \in Holders
      /\ owner # Registry /\ Zero # Registry
  BY DEF Update, TokenTypeOK
<1> HIDE DEF fee, burn
<1>4. b1[Registry] = balance[Registry]
                       - (IF Registry = from THEN v - fee ELSE 0)
                       + (IF Registry = to THEN v - fee ELSE 0)
  BY <1>3 DEF Move
<1> HIDE DEF b1
<1>5. b1[Registry] \in Int
  BY <1>1, <1>3, <1>4
<1>6. b2[Registry] = b1[Registry] - (IF Registry = from THEN burn ELSE 0)
  BY <1>1, <1>3, <1>5 DEF Move
<1> HIDE DEF b2
<1>7. b2[Registry] \in Int
  BY <1>1, <1>5, <1>6
<1>8. balance'[Registry]
        = b2[Registry] - (IF Registry = from THEN fee - burn ELSE 0)
  BY <1>1, <1>3, <1>7 DEF Move
<1>9. CASE from # Registry
  <2>1. balance'[Registry] = balance[Registry]
                               + (IF Registry = to THEN v - fee ELSE 0)
    BY <1>1, <1>3, <1>4, <1>6, <1>8, <1>9
  <2> QED
    BY <1>1, <1>2, <1>3, <1>9, <2>1
<1>10. CASE from = Registry
  <2>1. to # Registry => balance'[Registry] = balance[Registry] - v
    BY <1>1, <1>3, <1>4, <1>6, <1>8, <1>10
  <2> QED
    BY <1>10, <2>1
<1> QED
  BY <1>9, <1>10

\* The debt is a number, and a stake that changes changes it by as much.
LEMMA DebtChanges ==
    ASSUME TypeOK
    PROVE  /\ Owed \in Nat
           /\ \A u \in Callers, y \in Nat :
                own' = [own EXCEPT ![u] = y] /\ external' = external
                  => Owed' = Owed - own[u] + y
           /\ \A a \in Agents, y \in Nat :
                external' = [external EXCEPT ![a] = y] /\ own' = own
                  => Owed' = Owed - external[a] + y
<1>1. /\ own \in [Callers -> Nat] /\ Callers \in SUBSET Holders
      /\ external \in [Agents -> Nat] /\ Agents \in SUBSET Holders
  BY DEF TypeOK
<1>2. SumFunction(own) \in Nat
  BY <1>1, OneStakeChanges
<1>3. SumFunction(external) \in Nat
  <2>1. CASE Agents = {}
    <3>1. external = [a \in Agents |-> 0] /\ IsFiniteSet(Agents)
      BY <1>1, <2>1, FS_EmptySet
    <3> QED
      BY <3>1, SumOfZeros
  <2>2. CASE Agents # {}
    BY <1>1, <2>2, OneStakeChanges
  <2> QED
    BY <2>1, <2>2
<1>4. ASSUME NEW u \in Callers, NEW y \in Nat,
             own' = [own EXCEPT ![u] = y], external' = external
      PROVE  Owed' = Owed - own[u] + y
  <2>0. Replaced(own, own', u, y)
    BY <1>4 DEF Replaced
  <2>1. SumFunction(own') = SumFunction(own) - own[u] + y
    BY <1>1, <2>0, OneStakeChanges
  <2>2. own[u] \in Nat
    BY <1>1
  <2> QED
    BY <1>2, <1>3, <1>4, <2>1, <2>2 DEF Owed
<1>5. ASSUME NEW a \in Agents, NEW y \in Nat,
             external' = [external EXCEPT ![a] = y], own' = own
      PROVE  Owed' = Owed - external[a] + y
  <2>0. Replaced(external, external', a, y)
    BY <1>5 DEF Replaced
  <2>1. SumFunction(external')
          = SumFunction(external) - external[a] + y
    BY <1>1, <2>0, OneStakeChanges
  <2>2. external[a] \in Nat
    BY <1>1
  <2> QED
    BY <1>2, <1>3, <1>5, <2>1, <2>2 DEF Owed
<1> QED
  BY <1>2, <1>3, <1>4, <1>5 DEF Owed

\* A deposit adds to the debt what arrives and what the fee kept.
LEMMA DepositCovers ==
    ASSUME TypeOK, ShortfallIsFees, NEW u \in Callers, NEW v \in Amounts,
           Deposit(u, v), Owed' = Owed + v
    PROVE  ShortfallIsFees'
<1>1. /\ v \in Nat /\ Owed \in Nat /\ fees \in Nat
      /\ Registry \in Holders /\ u \in Holders \ {Registry}
      /\ Kept(u, v) \in Nat /\ balance[Registry] \in Nat
  BY DebtChanges, FeeBounds DEF Kept, TypeOK, TokenTypeOK
<1>2. fees' = fees + Kept(u, v) /\ Update(u, Registry, v)
  BY DEF Deposit, Transfer
<1>3. balance'[Registry] = balance[Registry] + v - Kept(u, v)
  BY <1>1, <1>2, RegistryGets DEF TypeOK
<1> QED
  BY <1>1, <1>2, <1>3 DEF ShortfallIsFees

\* What is paid back is owed no longer.
LEMMA PayoutCovers ==
    ASSUME TypeOK, ShortfallIsFees, NEW u \in Callers, NEW v \in Amounts,
           Transfer(Registry, u, v), Owed' = Owed - v, fees' = fees
    PROVE  ShortfallIsFees'
<1>1. /\ v \in Nat /\ Owed \in Nat /\ fees \in Nat
      /\ Registry \in Holders /\ u \in Holders \ {Registry}
      /\ balance[Registry] \in Nat
  BY DebtChanges DEF TypeOK, TokenTypeOK
<1>2. Update(Registry, u, v)
  BY DEF Transfer
<1>3. balance'[Registry] = balance[Registry] - v
  BY <1>1, <1>2, RegistryGets DEF TypeOK
<1> QED
  BY <1>1, <1>3 DEF ShortfallIsFees

\* Nothing but a payout lowers what the registry holds.
LEMMA OthersCover ==
    ASSUME TypeOK, TypeOK', ShortfallIsFees, UNCHANGED <<own, external, fees>>,
           balance'[Registry] >= balance[Registry]
    PROVE  ShortfallIsFees'
<1>1. Owed' = Owed
  BY DEF Owed
<1>2. /\ Owed \in Nat /\ fees \in Nat /\ Registry \in Holders
      /\ balance[Registry] \in Nat /\ balance'[Registry] \in Nat
  BY DebtChanges DEF TypeOK, TokenTypeOK
<1> QED
  BY <1>1, <1>2 DEF ShortfallIsFees

\* A step of the token alone takes nothing from the registry.
LEMMA TokenCovers ==
    ASSUME TypeOK, TypeOK', ShortfallIsFees,
           TokenNext \/ UNCHANGED tokenVars, UNCHANGED registryVars
    PROVE  ShortfallIsFees'
<1> SUFFICES balance'[Registry] >= balance[Registry]
  BY OthersCover DEF registryVars
<1>1. /\ Registry \in Holders /\ Token \in Holders /\ Callers \subseteq Holders
      /\ Registry \notin Callers \cup {Token, Zero} /\ TokenTypeOK
      /\ balance \in [Holders -> Nat] /\ balance[Registry] \in Nat
  BY DEF TypeOK, TokenTypeOK
<1>2. ASSUME NEW from \in Callers \cup {Token}, NEW to \in Holders,
             NEW v \in Amounts, Update(from, to, v)
      PROVE  balance'[Registry] >= balance[Registry]
  BY <1>1, <1>2, RegistryGets
<1>3. ASSUME NEW a \in Holders, NEW v \in Amounts, Mint(a, v)
      PROVE  balance'[Registry] >= balance[Registry]
  <2>1. balance' = Move(balance, Zero, a, v) /\ v \in Nat
    BY <1>3 DEF Mint
  <2>2. balance'[Registry]
          = balance[Registry] - 0 + (IF Registry = a THEN v ELSE 0)
    BY <1>1, <2>1 DEF Move
  <2> QED
    BY <1>1, <2>1, <2>2
<1>4. ASSUME UNCHANGED balance
      PROVE  balance'[Registry] >= balance[Registry]
  BY <1>1, <1>4
<1> QED
  BY <1>1, <1>2, <1>3, <1>4
  DEF TokenNext, Stake, Unstake, Transfer, SetFeeMultiplier, TransferOwnership,
      tokenVars

\* A step of the registry takes on as much debt as it takes in and counts as
\* fees, and pays out no more than it strikes off.
LEMMA RegistryCovers ==
    ASSUME TypeOK, TypeOK', ShortfallIsFees, RegistryNext
    PROVE  ShortfallIsFees'
<1>1. /\ own \in [Callers -> Nat] /\ external \in [Agents -> Nat]
      /\ Owed \in Nat
  BY DebtChanges DEF TypeOK
<1>2. ASSUME NEW u \in Callers, NEW v \in Amounts, RegistryStake(u, v)
      PROVE  ShortfallIsFees'
  <2> DEFINE y == own[u] + v
  <2>1. y \in Nat /\ v \in Nat /\ own[u] \in Nat
    BY <1>1
  <2>2. own' = [own EXCEPT ![u] = y] /\ external' = external
    BY <1>2 DEF RegistryStake
  <2>3. Owed' = Owed - own[u] + y
    <3> HIDE DEF y
    <3> QED
      BY <2>1, <2>2, DebtChanges
  <2>4. Owed' = Owed + v
    BY <1>1, <2>1, <2>3
  <2> QED
    BY <1>2, <2>4, DepositCovers DEF RegistryStake
<1>3. ASSUME NEW u \in Callers, NEW a \in Agents, NEW v \in Amounts,
             StakeToAgent(u, a, v)
      PROVE  ShortfallIsFees'
  <2> DEFINE y == external[a] + v
  <2>1. y \in Nat /\ v \in Nat /\ external[a] \in Nat
    BY <1>1
  <2>2. external' = [external EXCEPT ![a] = y] /\ own' = own
    BY <1>3 DEF StakeToAgent
  <2>3. Owed' = Owed - external[a] + y
    <3> HIDE DEF y
    <3> QED
      BY <2>1, <2>2, DebtChanges
  <2>4. Owed' = Owed + v
    BY <1>1, <2>1, <2>3
  <2> QED
    BY <1>3, <2>4, DepositCovers DEF StakeToAgent
<1>4. ASSUME NEW u \in Callers, NEW v \in Amounts, RegistryUnstake(u, v)
      PROVE  ShortfallIsFees'
  <2> DEFINE y == own[u] - v
  <2>1. y \in Nat /\ v \in Nat /\ own[u] \in Nat
    BY <1>1, <1>4 DEF RegistryUnstake
  <2>2. own' = [own EXCEPT ![u] = y] /\ external' = external
    BY <1>4 DEF RegistryUnstake
  <2>3. Owed' = Owed - own[u] + y
    <3> HIDE DEF y
    <3> QED
      BY <2>1, <2>2, DebtChanges
  <2>4. Owed' = Owed - v
    BY <1>1, <2>1, <2>3
  <2> QED
    BY <1>4, <2>4, PayoutCovers DEF RegistryUnstake
<1>5. ASSUME NEW u \in Callers, NEW a \in Agents, NEW v \in Amounts,
             UnstakeFromAgent(u, a, v)
      PROVE  ShortfallIsFees'
  <2> DEFINE y == external[a] - v
  <2>1. y \in Nat /\ v \in Nat /\ external[a] \in Nat
    BY <1>1, <1>5 DEF UnstakeFromAgent
  <2>2. external' = [external EXCEPT ![a] = y] /\ own' = own
    BY <1>5 DEF UnstakeFromAgent
  <2>3. Owed' = Owed - external[a] + y
    <3> HIDE DEF y
    <3> QED
      BY <2>1, <2>2, DebtChanges
  <2>4. Owed' = Owed - v
    BY <1>1, <2>1, <2>3
  <2> QED
    BY <1>5, <2>4, PayoutCovers DEF UnstakeFromAgent
<1>6. ASSUME NEW a \in Agents, NEW t \in Tiers,
             VerifyAgent(a, t) \/ UpdateAIS(a, t)
      PROVE  ShortfallIsFees'
  <2>1. UNCHANGED <<balance, own, external, fees>>
    BY <1>6 DEF VerifyAgent, UpdateAIS, tokenVars
  <2>2. balance[Registry] \in Nat
    BY DEF TypeOK, TokenTypeOK
  <2> QED
    BY <2>1, <2>2, OthersCover
<1>7. ASSUME NEW a \in Agents, NEW t \in Tiers, NEW v \in Amounts,
             UpgradeTier(a, t, v)
      PROVE  ShortfallIsFees'
  <2>1. Update(a, Registry, v) /\ UNCHANGED registryVars
    BY <1>7 DEF UpgradeTier, Transfer
  <2>2. /\ a \in Holders /\ a # Registry /\ Registry \in Holders /\ v \in Nat
        /\ TokenTypeOK
    BY DEF TypeOK
  <2>3. balance'[Registry] >= balance[Registry]
    BY <2>1, <2>2, RegistryGets
  <2> QED
    BY <2>1, <2>3, OthersCover DEF registryVars
<1> QED
  BY <1>2, <1>3, <1>4, <1>5, <1>6, <1>7 DEF RegistryNext

\* What the registry owes and does not hold is no more than the fees kept of
\* the stakes on their way in (ReputationRegistry.sol:206-258).
THEOREM FeesAreTheShortfall == Spec => []ShortfallIsFees
<1>1. Init => ShortfallIsFees
  <2> SUFFICES ASSUME Init
               PROVE  ShortfallIsFees
    OBVIOUS
  <2>1. IsFiniteSet(Callers) /\ IsFiniteSet(Agents)
    BY FS_Subset
  <2>2. SumFunction(own) = 0 /\ SumFunction(external) = 0
    BY <2>1, SumOfZeros DEF Init
  <2>3. balance[Registry] \in Nat /\ fees = 0
    BY DEF Init, TokenInit
  <2> QED
    BY <2>2, <2>3 DEF ShortfallIsFees, Owed
<1>2. TypeOK /\ TypeOK' /\ ShortfallIsFees /\ [Next]_vars => ShortfallIsFees'
  BY TokenCovers, RegistryCovers DEF Next, vars
<1> QED
  BY <1>1, <1>2, TypeCorrect, PTL DEF Spec

-----------------------------------------------------------------------------
(* The Slasher: types.                                                     *)

USE SlasherAssumption

\* Every reachable state of the contract is well typed, and only completed
\* deals are in dispute (raiseDispute, resolveDispute).
THEOREM SlasherTypeCorrect == SlasherSpec => []SlasherTypeOK
<1>1. SlasherInit => SlasherTypeOK
  BY DEF SlasherInit, SlasherTypeOK, Raised
<1>2. SlasherTypeOK /\ [SlasherNext]_slasherVars => SlasherTypeOK'
  <2> SUFFICES ASSUME SlasherTypeOK, [SlasherNext]_slasherVars
               PROVE  SlasherTypeOK'
    OBVIOUS
  <2> USE DEF SlasherTypeOK, Raised
  <2>1. ASSUME NEW d \in Deals, CompleteDeal(d)
        PROVE  SlasherTypeOK'
    BY <2>1 DEF CompleteDeal
  <2>2. ASSUME NEW d \in Deals, RaiseDispute(d)
        PROVE  SlasherTypeOK'
    BY <2>2 DEF RaiseDispute
  <2>3. ASSUME NEW d \in Deals, NEW justified \in BOOLEAN,
               ResolveDispute(d, justified)
        PROVE  SlasherTypeOK'
    BY <2>3 DEF ResolveDispute
  <2>4. ASSUME NEW w \in Windows, SetChallengeWindow(w)
        PROVE  SlasherTypeOK'
    BY <2>4 DEF SetChallengeWindow
  <2>5. CASE Tick
    BY <2>5 DEF Tick
  <2>6. CASE UNCHANGED slasherVars
    BY <2>6 DEF slasherVars
  <2> QED
    BY <2>1, <2>2, <2>3, <2>4, <2>5, <2>6 DEF SlasherNext
<1> QED
  BY <1>1, <1>2, PTL DEF SlasherSpec

-----------------------------------------------------------------------------
(* The Slasher: decisions.                                                 *)

\* A decision whose window has passed is never cleared by raising the dispute
\* again, unless the owner sets a longer window (Slasher.sol:49).
THEOREM DecisionsStayFinal == SlasherSpec => DecisionsBecomeFinal
<1> DEFINE Stays == \A d \in Deals : Final(d) /\ window' <= window => Final(d)'
<1>1. SlasherTypeOK /\ SlasherTypeOK' /\ [SlasherNext]_slasherVars
        => [Stays]_slasherVars
  <2> SUFFICES ASSUME SlasherTypeOK, SlasherTypeOK', SlasherNext,
                      NEW d \in Deals, Final(d), window' <= window
               PROVE  Final(d)'
    BY DEF slasherVars
  <2>0. /\ createdAt[d] \in Nat /\ window \in Nat /\ now \in Nat
        /\ window' \in Nat
        /\ resolved[d] /\ now > createdAt[d] + window
        /\ createdAt[d] # 0
    BY DEF SlasherTypeOK, Final, Raised
  <2>1. ASSUME NEW e \in Deals, CompleteDeal(e)
        PROVE  Final(d)'
    BY <2>0, <2>1 DEF CompleteDeal, Final
  <2>2. ASSUME NEW e \in Deals, RaiseDispute(e)
        PROVE  Final(d)'
    <3>1. e # d
      BY <2>0, <2>2 DEF RaiseDispute, Raised
    <3> QED
      BY <2>0, <2>2, <3>1 DEF RaiseDispute, Final, SlasherTypeOK
  <2>3. ASSUME NEW e \in Deals, NEW justified \in BOOLEAN,
               ResolveDispute(e, justified)
        PROVE  Final(d)'
    BY <2>0, <2>3 DEF ResolveDispute, Final, SlasherTypeOK
  <2>4. ASSUME NEW w \in Windows, SetChallengeWindow(w)
        PROVE  Final(d)'
    BY <2>0, <2>4 DEF SetChallengeWindow, Final
  <2>5. CASE Tick
    BY <2>0, <2>5 DEF Tick, Final
  <2> QED
    BY <2>1, <2>2, <2>3, <2>4, <2>5 DEF SlasherNext
<1> QED
  BY <1>1, SlasherTypeCorrect, PTL DEF SlasherSpec, DecisionsBecomeFinal

-----------------------------------------------------------------------------
(* The Slasher: refinement.                                                *)

\* Every step of the contract is a step of Arbitration or changes nothing it
\* sees: an opening is decided at most once (Slasher.sol:70).
THEOREM SlasherRefinesArbitration == SlasherSpec => SlasherArbitrates
<1> DEFINE waiting == {d \in Deals : Raised(d) /\ ~resolved[d]}
<1>1. SlasherInit => Case!Init
  BY DEF SlasherInit, Case!Init, Raised
<1>2. SlasherTypeOK /\ SlasherTypeOK' /\ [SlasherNext]_slasherVars
        => [Case!Next]_<<waiting, slashed>>
  <2> SUFFICES ASSUME SlasherTypeOK, SlasherTypeOK', [SlasherNext]_slasherVars
               PROVE  Case!Next \/ UNCHANGED <<waiting, slashed>>
    OBVIOUS
  <2> USE DEF SlasherTypeOK, Raised
  <2>1. ASSUME NEW d \in Deals, CompleteDeal(d)
        PROVE  UNCHANGED <<waiting, slashed>>
    BY <2>1 DEF CompleteDeal
  <2>2. ASSUME NEW d \in Deals, RaiseDispute(d)
        PROVE  Case!Open(d)
    <3>1. /\ createdAt' = [createdAt EXCEPT ![d] = now] /\ now # 0
          /\ resolved' = [resolved EXCEPT ![d] = FALSE]
      BY <2>2 DEF RaiseDispute
    <3>2. waiting' = waiting \cup {d}
      BY <3>1
    <3> QED
      BY <2>2, <3>2 DEF RaiseDispute, Case!Open
  <2>3. ASSUME NEW d \in Deals, NEW justified \in BOOLEAN,
               ResolveDispute(d, justified)
        PROVE  Case!Decide(d)
    <3>1. /\ resolved' = [resolved EXCEPT ![d] = TRUE] /\ createdAt' = createdAt
          /\ d \in waiting
          /\ slashed' \in {slashed, slashed \cup {d}}
      BY <2>3 DEF ResolveDispute
    <3>2. waiting' = waiting \ {d}
      BY <3>1
    <3> QED
      BY <3>1, <3>2 DEF Case!Decide
  <2>4. ASSUME NEW w \in Windows, SetChallengeWindow(w)
        PROVE  UNCHANGED <<waiting, slashed>>
    BY <2>4 DEF SetChallengeWindow
  <2>5. CASE Tick
    BY <2>5 DEF Tick
  <2>6. CASE UNCHANGED slasherVars
    BY <2>6 DEF slasherVars
  <2> QED
    BY <2>1, <2>2, <2>3, <2>4, <2>5, <2>6 DEF SlasherNext, Case!Next
<1> QED
  BY <1>1, <1>2, SlasherTypeCorrect, PTL
  DEF SlasherSpec, SlasherArbitrates, Case!Spec, Case!arbitrationVars
=============================================================================
