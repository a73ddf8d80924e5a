--------------------------- MODULE TrustApiProofs ---------------------------
(***************************************************************************)
(* Proofs about TrustApi, for any users, agents, seeds, handles, amounts   *)
(* and scores.                                                             *)
(***************************************************************************)
EXTENDS TrustApi, TLAPS

USE UsersAssumption, SeedsAssumption, AmountsAssumption, SeedScoresAssumption

\* The smaller of two naturals.
LEMMA MinOfTwo ==
    ASSUME NEW x \in Nat, NEW y \in Nat
    PROVE  Min2(x, y) \in Nat /\ Min2(x, y) <= x /\ Min2(x, y) <= y
BY DEF Min2

\* Every tier has a ceiling for both scorers.
LEMMA Ceilings ==
    ASSUME NEW t
    PROVE  Ceiling(t) \in {600, 850, 1000} /\ RustCeiling(t) \in {600, 850, 1000}
<1>1. Ceiling(t) \in {600, 850, 1000}
  BY DEF Ceiling
<1>2. RustCeiling(t) \in {600, 850, 1000}
  BY DEF RustCeiling
<1> QED
  BY <1>1, <1>2

-----------------------------------------------------------------------------
(* Types.                                                                  *)

LEMMA TypeInit == Init => TypeOK
<1> SUFFICES ASSUME Init
             PROVE  TypeOK
  OBVIOUS
<1>1. /\ balance \in [Users -> Nat \cup {None}] /\ wallet \in SUBSET Users
      /\ credits \in Nat /\ up \in BOOLEAN
  BY DEF Init
<1>2. /\ owner \in [Agents -> Users \cup {None}]
      /\ handle \in [Agents -> Handles \cup {None}]
      /\ tier \in [Agents -> 1..4] /\ ais \in [Agents -> Nat]
  BY DEF Init
<1>3. /\ meta \in [Agents -> SUBSET {"controller", "other"}]
      /\ verified \in [Agents -> BOOLEAN]
  BY DEF Init
<1> QED
  BY <1>1, <1>2, <1>3 DEF TypeOK

\* The tier and the score of a seed's row are set when it is inserted.
LEMMA TypeStart == ASSUME TypeOK, Start PROVE TypeOK'
<1>1. /\ owner' \in [Agents -> Users \cup {None}]
      /\ handle' \in [Agents -> Handles \cup {None}]
  BY DEF Start, TypeOK
<1>2. /\ tier' \in [Agents -> 1..4] /\ ais' \in [Agents -> Nat]
  BY DEF Start, TypeOK
<1>3. /\ up' \in BOOLEAN /\ UNCHANGED <<balance, wallet, credits, verified>>
      /\ meta' \in [Agents -> SUBSET {"controller", "other"}]
  BY DEF Start, profiles, TypeOK
<1> QED
  BY <1>1, <1>2, <1>3 DEF TypeOK

LEMMA TypeUser ==
    ASSUME TypeOK, NEW u \in Users,
           \/ EnsureGuest(u) \/ GetProfile(u) \/ UpdateProfile(u)
           \/ CreateWallet(u)
    PROVE  TypeOK'
BY DEF EnsureGuest, GetProfile, UpdateProfile, CreateWallet, TypeOK, scoring,
       about

\* A loan or a sync adds an amount of either sign.
LEMMA CreditAdds ==
    ASSUME TypeOK, NEW u \in Users, NEW amount \in Loans \cup Deposits,
           Credit(u, amount)
    PROVE  /\ TypeOK'
           /\ balance[u] \in Int
           /\ balance' = [balance EXCEPT ![u] = balance[u] + amount]
           /\ credits' = credits + 1
           /\ UNCHANGED <<wallet, owner, handle, tier, ais, meta, verified, up>>
<1>1. balance[u] \in Int
  BY DEF Credit, HasProfile, TypeOK
<1>2. /\ balance' = [balance EXCEPT ![u] = balance[u] + amount]
      /\ credits' = credits + 1
      /\ UNCHANGED <<wallet, owner, handle, tier, ais, meta, verified, up>>
  BY DEF Credit, scoring, about
<1>3. balance[u] + amount \in Int /\ credits' \in Nat
  BY <1>1, <1>2 DEF TypeOK
<1> QED
  BY <1>1, <1>2, <1>3 DEF TypeOK

LEMMA UserIsCredited ==
    ASSUME NEW u \in Users, SyncVirtual(u) \/ RequestLoan(u)
    PROVE  \E amount \in Loans \cup Deposits : Credit(u, amount)
BY DEF SyncVirtual, RequestLoan

\* A handle is paid for with a balance that covers its price.
LEMMA HandleIsPaid ==
    ASSUME TypeOK, NEW u \in Users, NEW a \in Agents, NEW h \in Handles,
           RegisterXns(u, a, h)
    PROVE  /\ TypeOK'
           /\ balance[u] \in Int /\ balance[u] >= Price[h]
           /\ balance' = [balance EXCEPT ![u] = balance[u] - Price[h]]
           /\ handle' = [handle EXCEPT ![a] = h]
           /\ owner[a] = u /\ handle[a] # h
           /\ UNCHANGED <<wallet, credits, owner, tier, ais, meta, verified, up>>
<1>1. balance[u] \in Int /\ Price[h] \in Nat /\ balance[u] >= Price[h]
  BY DEF RegisterXns, HasProfile, TypeOK
<1>2. /\ balance' = [balance EXCEPT ![u] = balance[u] - Price[h]]
      /\ handle' = [handle EXCEPT ![a] = h]
      /\ owner[a] = u /\ handle[a] # h
      /\ UNCHANGED <<wallet, credits, owner, tier, ais, meta, verified, up>>
  BY DEF RegisterXns, scoring, about
<1>3. balance[u] - Price[h] \in Int
  BY <1>1
<1> QED
  BY <1>1, <1>2, <1>3 DEF TypeOK

LEMMA TypeRegister ==
    ASSUME TypeOK, NEW u \in Users, NEW a \in Agents,
           NEW h \in Handles \cup {None},
           RegisterAgent(u, a, h) \/ RegisterAgain(u, a, h)
    PROVE  TypeOK'
<1>1. CASE RegisterAgent(u, a, h)
  BY <1>1 DEF RegisterAgent, TypeOK, about
<1>2. CASE RegisterAgain(u, a, h)
  BY <1>2 DEF RegisterAgain, TypeOK, profiles, scoring
<1> QED
  BY <1>1, <1>2

\* Scores are the formulas' under a ceiling.
LEMMA ScoresAreNatural ==
    ASSUME NEW raw \in Nat, NEW t, NEW proved \in BOOLEAN
    PROVE  CalculateAis(raw, t) \in Nat /\ RustScore(raw, t, proved) \in Nat
<1>1. Ceiling(t) \in Nat /\ RustCeiling(t) \in Nat /\ 800 \in Nat
  BY Ceilings
<1>2. Min2(raw, Ceiling(t)) \in Nat /\ Min2(raw, RustCeiling(t)) \in Nat
  BY <1>1, MinOfTwo
<1>3. \A capped \in Nat : Min2(capped, 800) \in Nat
  BY MinOfTwo
<1> QED
  BY <1>2, <1>3 DEF CalculateAis, RustScore

LEMMA TypeAgent ==
    ASSUME TypeOK, NEW a \in Agents,
           \/ \E u \in Users :
                \/ UpgradeIdentity(u, a) \/ RecordAgentStake(u, a)
                \/ BindController(u, a) \/ UpdateMetadata(u, a)
           \/ ProcessTierPayment(a) \/ RustReport(a)
    PROVE  TypeOK'
<1>1. ASSUME NEW u \in Users, UpgradeIdentity(u, a)
      PROVE  TypeOK'
  BY <1>1 DEF UpgradeIdentity, TypeOK, profiles
<1>2. ASSUME NEW u \in Users, RecordAgentStake(u, a)
      PROVE  TypeOK'
  <2>1. PICK raw \in Scores : ais' = [ais EXCEPT ![a] = CalculateAis(raw, tier[a])]
    BY <1>2 DEF RecordAgentStake
  <2>2. CalculateAis(raw, tier[a]) \in Nat
    BY ScoresAreNatural
  <2> QED
    BY <1>2, <2>1, <2>2 DEF RecordAgentStake, TypeOK, profiles, about
<1>3. ASSUME NEW u \in Users, BindController(u, a)
      PROVE  TypeOK'
  BY <1>3 DEF BindController, ChangedInPlace, TypeOK, profiles, scoring
<1>4. ASSUME NEW u \in Users, UpdateMetadata(u, a)
      PROVE  TypeOK'
  BY <1>4 DEF UpdateMetadata, ChangedInPlace, TypeOK, profiles, scoring
<1>5. CASE ProcessTierPayment(a)
  BY <1>5 DEF ProcessTierPayment, TypeOK, profiles, about
<1>6. CASE RustReport(a)
  <2>1. PICK raw \in RustScores, t \in 1..3, proved \in BOOLEAN :
          ais' = [ais EXCEPT ![a] = RustScore(raw, t, proved)]
    BY <1>6 DEF RustReport
  <2>2. RustScore(raw, t, proved) \in Nat
    BY ScoresAreNatural
  <2> QED
    BY <1>6, <2>1, <2>2 DEF RustReport, TypeOK, profiles, about
<1> QED
  BY <1>1, <1>2, <1>3, <1>4, <1>5, <1>6

LEMMA TypeStep == TypeOK /\ [Next]_vars => TypeOK'
<1> SUFFICES ASSUME TypeOK, [Next]_vars
             PROVE  TypeOK'
  OBVIOUS
<1>1. CASE Start
  BY <1>1, TypeStart
<1>2. CASE Stop
  BY <1>2 DEF Stop, TypeOK, profiles, scoring, about
<1>3. ASSUME NEW u \in Users, UserStep(u)
      PROVE  TypeOK'
  <2>1. CASE \/ EnsureGuest(u) \/ GetProfile(u) \/ UpdateProfile(u)
             \/ CreateWallet(u)
    BY <2>1, TypeUser
  <2>2. CASE SyncVirtual(u) \/ RequestLoan(u)
    BY <2>2, UserIsCredited, CreditAdds
  <2>3. ASSUME NEW a \in Agents, NEW h \in Handles, RegisterXns(u, a, h)
        PROVE  TypeOK'
    BY <2>3, HandleIsPaid
  <2>4. ASSUME NEW a \in Agents, NEW h \in Handles \cup {None},
               RegisterAgent(u, a, h) \/ RegisterAgain(u, a, h)
        PROVE  TypeOK'
    BY <2>4, TypeRegister
  <2>5. ASSUME NEW a \in Operated,
               \/ UpgradeIdentity(u, a) \/ RecordAgentStake(u, a)
               \/ BindController(u, a) \/ UpdateMetadata(u, a)
        PROVE  TypeOK'
    BY <2>5, TypeAgent
  <2> QED
    BY <1>3, <2>1, <2>2, <2>3, <2>4, <2>5 DEF UserStep
<1>4. ASSUME NEW a \in Operated, ProcessTierPayment(a) \/ RustReport(a)
      PROVE  TypeOK'
  BY <1>4, TypeAgent
<1>5. CASE UNCHANGED vars
  BY <1>5 DEF vars, TypeOK, profiles, scoring, about
<1> QED
  BY <1>1, <1>2, <1>3, <1>4, <1>5 DEF Next

\* The tables keep their types; a balance is a whole number of either sign or
\* absent (trust_api.py:228-1109, identity_api.py:419-773).
THEOREM TypeCorrect == Spec => []TypeOK
BY TypeInit, TypeStep, PTL DEF Spec

-----------------------------------------------------------------------------
(* Wallet bindings.                                                        *)

\* Metadata is never emptied, and a binding stores itself where there was none.
LEMMA BindingStep ==
    TypeOK /\ BindingLostOnlyOverMetadata /\ [Next]_vars
      => BindingLostOnlyOverMetadata'
<1> SUFFICES ASSUME TypeOK, BindingLostOnlyOverMetadata, [Next]_vars,
                    NEW b \in Agents, verified'[b], "controller" \notin meta'[b]
             PROVE  meta'[b] # {}
  BY DEF BindingLostOnlyOverMetadata
<1>1. CASE UNCHANGED about
  BY <1>1 DEF about, BindingLostOnlyOverMetadata
<1>2. ASSUME NEW u \in Users, NEW a \in Agents, NEW h \in Handles \cup {None},
             RegisterAgain(u, a, h)
      PROVE  meta'[b] # {}
  <2>1. meta' = meta /\ (verified'[b] => verified[b])
    BY <1>2 DEF RegisterAgain, TypeOK
  <2> QED
    BY <2>1 DEF BindingLostOnlyOverMetadata
<1>3. ASSUME NEW u \in Users, NEW a \in Agents, UpgradeIdentity(u, a)
      PROVE  meta'[b] # {}
  <2>1. CASE b = a
    BY <1>3, <2>1 DEF UpgradeIdentity, TypeOK
  <2>2. CASE b # a
    BY <1>3, <2>2 DEF UpgradeIdentity, TypeOK, BindingLostOnlyOverMetadata
  <2> QED
    BY <2>1, <2>2
<1>4. ASSUME NEW u \in Users, NEW a \in Agents, BindController(u, a)
      PROVE  meta'[b] # {}
  <2>1. CASE b = a
    BY <1>4, <2>1 DEF BindController, ChangedInPlace, TypeOK
  <2>2. CASE b # a
    BY <1>4, <2>2 DEF BindController, TypeOK, BindingLostOnlyOverMetadata
  <2> QED
    BY <2>1, <2>2
<1>5. ASSUME NEW u \in Users, NEW a \in Agents, UpdateMetadata(u, a)
      PROVE  meta'[b] # {}
  <2>1. CASE b = a
    BY <1>5, <2>1 DEF UpdateMetadata, ChangedInPlace, TypeOK
  <2>2. CASE b # a
    BY <1>5, <2>2 DEF UpdateMetadata, TypeOK, BindingLostOnlyOverMetadata
  <2> QED
    BY <2>1, <2>2
<1>6. CASE Start
  <2>1. verified[b] /\ meta[b] \subseteq meta'[b]
    BY <1>6 DEF Start
  <2> QED
    BY <2>1 DEF BindingLostOnlyOverMetadata
<1> QED
  BY <1>1, <1>2, <1>3, <1>4, <1>5, <1>6
  DEF Next, UserStep, vars, about, Stop, EnsureGuest, GetProfile,
      UpdateProfile, CreateWallet, SyncVirtual, RequestLoan, Credit,
      RegisterXns, RegisterAgent, ProcessTierPayment, RecordAgentStake,
      RustReport

\* An agent shown as verified has its binding, unless metadata was there before
\* the binding was made (trust_api.py:825).
THEOREM BindingsAreKept == Spec => []BindingLostOnlyOverMetadata
<1>1. Init => BindingLostOnlyOverMetadata
  BY DEF Init, BindingLostOnlyOverMetadata
<1> QED
  BY <1>1, TypeCorrect, BindingStep, PTL DEF Spec

-----------------------------------------------------------------------------
(* Balances.                                                               *)

\* A guest the token check has not seen has at most the welcome amount: no
\* loan and no deposit passes the check.
GuestInv ==
    \A u \in Guests \ wallet : balance[u] # None => balance[u] <= Welcome

\* What a step does to the balances and the wallets.
Moves ==
    \/ balance' = balance /\ wallet \subseteq wallet'
    \/ \E u \in Guests \ wallet :
         /\ balance' = [balance EXCEPT ![u] = Welcome]
         /\ wallet' = wallet \cup {u}
    \/ \E u \in Users, w \in {0, Welcome} :
         /\ balance[u] = None
         /\ balance' = [balance EXCEPT ![u] = w]
         /\ wallet \subseteq wallet'
    \/ \E u \in Users, amount \in Loans \cup Deposits :
         /\ u \in Guests => u \in wallet
         /\ balance[u] \in Int /\ credits' = credits + 1
         /\ balance' = [balance EXCEPT ![u] = balance[u] + amount]
         /\ wallet' = wallet
    \/ \E u \in Users, a \in Agents, h \in Handles :
         /\ owner[a] = u /\ handle[a] # h /\ handle'[a] = h
         /\ balance[u] \in Int /\ balance[u] >= Price[h]
         /\ balance' = [balance EXCEPT ![u] = balance[u] - Price[h]]
         /\ wallet' = wallet

LEMMA EveryStepMoves == ASSUME TypeOK, [Next]_vars PROVE Moves
<1>1. ASSUME NEW u \in Users, EnsureGuest(u)
      PROVE  Moves
  BY <1>1 DEF EnsureGuest, Moves
<1>2. ASSUME NEW u \in Users, GetProfile(u) \/ UpdateProfile(u)
      PROVE  Moves
  BY <1>2 DEF GetProfile, UpdateProfile, HasProfile, Moves
<1>3. ASSUME NEW u \in Users, CreateWallet(u)
      PROVE  Moves
  BY <1>3 DEF CreateWallet, HasProfile, Moves
<1>4. ASSUME NEW u \in Users, SyncVirtual(u) \/ RequestLoan(u)
      PROVE  Moves
  <2>1. PICK amount \in Loans \cup Deposits : Credit(u, amount)
    BY <1>4, UserIsCredited
  <2>2. u \in Guests => u \in wallet
    BY <2>1 DEF Credit, Admitted
  <2> QED
    BY <2>1, <2>2, CreditAdds DEF Moves
<1>5. ASSUME NEW u \in Users, NEW a \in Agents, NEW h \in Handles,
             RegisterXns(u, a, h)
      PROVE  Moves
  <2>1. handle'[a] = h
    BY <1>5, HandleIsPaid DEF TypeOK
  <2> QED
    BY <1>5, <2>1, HandleIsPaid DEF Moves
<1>6. CASE balance' = balance /\ wallet \subseteq wallet'
  BY <1>6 DEF Moves
<1> QED
  BY <1>1, <1>2, <1>3, <1>4, <1>5, <1>6
  DEF Next, UserStep, vars, profiles, Start, Stop, RegisterAgent,
      RegisterAgain, UpgradeIdentity, RecordAgentStake, BindController,
      UpdateMetadata, ProcessTierPayment, RustReport

LEMMA GuestStep == TypeOK /\ GuestInv /\ [Next]_vars => GuestInv'
<1> SUFFICES ASSUME TypeOK, GuestInv, Moves,
                    NEW g \in Guests, g \notin wallet', balance'[g] # None
             PROVE  balance'[g] <= Welcome
  BY EveryStepMoves DEF GuestInv
<1> USE DEF GuestInv, TypeOK
<1>1. CASE balance' = balance /\ wallet \subseteq wallet'
  BY <1>1
<1>2. ASSUME NEW u \in Guests \ wallet,
             balance' = [balance EXCEPT ![u] = Welcome],
             wallet' = wallet \cup {u}
      PROVE  balance'[g] <= Welcome
  BY <1>2
<1>3. ASSUME NEW u \in Users, NEW w \in {0, Welcome},
             balance[u] = None, balance' = [balance EXCEPT ![u] = w],
             wallet \subseteq wallet'
      PROVE  balance'[g] <= Welcome
  BY <1>3
<1>4. ASSUME NEW u \in Users, NEW amount \in Loans \cup Deposits,
             u \in Guests => u \in wallet,
             balance' = [balance EXCEPT ![u] = balance[u] + amount],
             wallet' = wallet
      PROVE  balance'[g] <= Welcome
  BY <1>4
<1>5. ASSUME NEW u \in Users, NEW h \in Handles, balance[u] \in Int,
             balance' = [balance EXCEPT ![u] = balance[u] - Price[h]],
             wallet' = wallet
      PROVE  balance'[g] <= Welcome
  <2>1. Price[h] \in Nat
    OBVIOUS
  <2>2. CASE g = u
    BY <1>5, <2>1, <2>2
  <2>3. CASE g # u
    BY <1>5, <2>3
  <2> QED
    BY <2>2, <2>3
<1> QED
  BY <1>1, <1>2, <1>3, <1>4, <1>5 DEF Moves

\* A step that moves a balance has one of the reasons.
LEMMA ReasonStep ==
    ASSUME TypeOK, GuestInv, Moves, NEW u \in Users,
           HasProfile(u), balance'[u] # balance[u]
    PROVE  \/ Buys(u)
           \/ Credited(u)
           \/ balance[u] < balance'[u] /\ balance'[u] = Welcome
              /\ u \notin wallet /\ u \in wallet'
<1>1. balance[u] \in Int /\ balance \in [Users -> Int \cup {None}]
  BY DEF HasProfile, TypeOK
<1>2. ASSUME NEW g \in Guests \ wallet,
             balance' = [balance EXCEPT ![g] = Welcome],
             wallet' = wallet \cup {g}
      PROVE  /\ balance[u] < balance'[u] /\ balance'[u] = Welcome
             /\ u \notin wallet /\ u \in wallet'
  <2>1. g = u
    BY <1>1, <1>2
  <2>2. balance'[u] = Welcome /\ balance[u] <= Welcome
    BY <1>1, <1>2, <2>1 DEF GuestInv
  <2> QED
    BY <1>1, <1>2, <2>1, <2>2
<1>3. ASSUME NEW v \in Users, NEW w \in {0, Welcome}, balance[v] = None,
             balance' = [balance EXCEPT ![v] = w]
      PROVE  FALSE
  BY <1>1, <1>3
<1>4. ASSUME NEW v \in Users, NEW amount \in Loans \cup Deposits,
             v \in Guests => v \in wallet, credits' = credits + 1,
             balance' = [balance EXCEPT ![v] = balance[v] + amount]
      PROVE  Credited(u)
  <2>1. v = u
    BY <1>1, <1>4
  <2>2. balance'[u] = balance[u] + amount
    BY <1>1, <1>4, <2>1
  <2> QED
    BY <1>4, <2>1, <2>2 DEF Credited
<1>5. ASSUME NEW v \in Users, NEW a \in Agents, NEW h \in Handles,
             owner[a] = v, handle[a] # h, handle'[a] = h,
             balance[v] >= Price[h],
             balance' = [balance EXCEPT ![v] = balance[v] - Price[h]]
      PROVE  Buys(u)
  <2>1. v = u
    BY <1>1, <1>5
  <2>2. Price[h] \in Nat /\ h # None
    OBVIOUS
  <2>3. balance'[u] = balance[u] - Price[h] /\ balance'[u] >= 0
    BY <1>1, <1>5, <2>1, <2>2
  <2> QED
    BY <1>5, <2>1, <2>2, <2>3 DEF Buys
<1> QED
  BY <1>2, <1>3, <1>4, <1>5 DEF Moves

\* Whatever the order of requests and restarts, a balance moves only by a loan
\* or a sync, for a handle it covers or up to the welcome amount, and the
\* token check takes nothing away (trust_api.py:259).
THEOREM BalancesHaveReasons == Spec => BalancesMoveForAReason
<1>1. Init => GuestInv
  BY DEF Init, GuestInv
<1>2. TypeOK /\ GuestInv /\ [Next]_vars =>
        [\A u \in Users : HasProfile(u) /\ balance'[u] # balance[u] =>
            \/ Buys(u)
            \/ Credited(u)
            \/ balance[u] < balance'[u] /\ balance'[u] = Welcome
               /\ u \notin wallet /\ u \in wallet']_vars
  BY EveryStepMoves, ReasonStep
<1> QED
  BY <1>1, <1>2, TypeCorrect, GuestStep, PTL DEF Spec, BalancesMoveForAReason

-----------------------------------------------------------------------------
(* The seeds' handles.                                                     *)

\* No two agents have one handle, and a handle is given to nobody before the
\* seeds have theirs.
Unique == \A a, b \in Agents : a # b /\ handle[a] = handle[b] => handle[a] = None
Seeded == \A s \in Seeds : owner[s] # None /\ handle[s] # None
HandleInv ==
    /\ Unique
    /\ Seeded \/ (~up /\ \A a \in Agents : handle[a] = None)

\* Setting the handles of the seeds back meets none of the other agents'.
LEMMA StartSeeds == ASSUME TypeOK, HandleInv, Start PROVE HandleInv'
<1>1. \A a \in Agents :
        handle'[a] = IF a \in Seeds THEN SeedHandle[a] ELSE handle[a]
  BY DEF Start
<1>2. Seeded'
  BY <1>1 DEF Start, Seeded
<1>3. ASSUME NEW a \in Agents, NEW b \in Agents, a # b,
             handle'[a] = handle'[b], handle'[a] # None
      PROVE  FALSE
  <2>1. CASE a \in Seeds /\ b \in Seeds
    BY <1>1, <1>3, <2>1
  <2>2. CASE a \in Seeds /\ b \notin Seeds
    BY <1>1, <1>3, <2>2 DEF Start, Taken
  <2>3. CASE a \notin Seeds /\ b \in Seeds
    BY <1>1, <1>3, <2>3 DEF Start, Taken
  <2>4. CASE a \notin Seeds /\ b \notin Seeds
    BY <1>1, <1>3, <2>4 DEF HandleInv, Unique
  <2> QED
    BY <2>1, <2>2, <2>3, <2>4
<1> QED
  BY <1>2, <1>3 DEF HandleInv, Unique

\* A handle is given only while nobody else has it.
LEMMA HandleGiven ==
    ASSUME TypeOK, HandleInv, up, NEW a \in Agents, NEW h \in Handles \cup {None},
           Free(h, a), handle' = [handle EXCEPT ![a] = h],
           owner[a] # None => h # None,
           owner' = owner \/ (owner[a] = None /\ \E u \in Users :
                                owner' = [owner EXCEPT ![a] = u])
    PROVE  HandleInv'
<1>1. \A b \in Agents : handle'[b] = IF b = a THEN h ELSE handle[b]
  BY DEF TypeOK
<1>2. Unique'
  BY <1>1 DEF Unique, HandleInv, Free
<1>3. Seeded /\ (a \in Seeds => h # None)
  BY DEF HandleInv, Seeded
<1>4. Seeded'
  BY <1>1, <1>3 DEF Seeded, TypeOK
<1> QED
  BY <1>2, <1>4 DEF HandleInv

LEMMA HandleStep == TypeOK /\ HandleInv /\ [Next]_vars => HandleInv'
<1> SUFFICES ASSUME TypeOK, HandleInv, [Next]_vars
             PROVE  HandleInv'
  OBVIOUS
<1>1. CASE Start
  BY <1>1, StartSeeds
<1>2. ASSUME NEW u \in Users, NEW a \in Agents, NEW h \in Handles,
             RegisterXns(u, a, h)
      PROVE  HandleInv'
  <2>1. Free(h, a) /\ up /\ owner' = owner /\ h # None
    BY <1>2 DEF RegisterXns, Free
  <2> QED
    BY <1>2, <2>1, HandleGiven, HandleIsPaid
<1>3. ASSUME NEW u \in Users, NEW a \in Agents, NEW h \in Handles \cup {None},
             RegisterAgent(u, a, h)
      PROVE  HandleInv'
  BY <1>3, HandleGiven DEF RegisterAgent
<1>4. ASSUME NEW u \in Users, NEW a \in Agents, NEW h \in Handles \cup {None},
             RegisterAgain(u, a, h), h # None
      PROVE  HandleInv'
  BY <1>4, HandleGiven DEF RegisterAgain
<1>5. CASE UNCHANGED <<owner, handle>> /\ (up' => up)
  BY <1>5 DEF HandleInv, Unique, Seeded
<1> QED
  BY <1>1, <1>2, <1>3, <1>4, <1>5
  DEF Next, UserStep, vars, Stop, EnsureGuest, GetProfile, UpdateProfile,
      CreateWallet, SyncVirtual, RequestLoan, Credit, RegisterAgain,
      UpgradeIdentity, RecordAgentStake, BindController, UpdateMetadata,
      ProcessTierPayment, RustReport

\* Only a seed whose owner took another handle can have its own taken, and so
\* keep the process from starting (trust_api.py:343).
THEOREM SeedsLoseWhatTheyGaveUp == Spec => []SeedsLoseOnlyWhatTheyGaveUp
<1>1. Init => HandleInv
  BY DEF Init, HandleInv, Unique
<1>2. TypeOK /\ HandleInv => SeedsLoseOnlyWhatTheyGaveUp
  <2> SUFFICES ASSUME HandleInv, NEW s \in Seeds, Taken(s)
               PROVE  handle[s] \notin {SeedHandle[s], None}
    BY DEF SeedsLoseOnlyWhatTheyGaveUp
  <2>1. PICK a \in Agents \ {s} : handle[a] = SeedHandle[s]
    BY DEF Taken
  <2>2. SeedHandle[s] # None
    OBVIOUS
  <2> QED
    BY <2>1, <2>2 DEF HandleInv, Unique, Seeded
<1> QED
  BY <1>1, <1>2, TypeCorrect, HandleStep, PTL DEF Spec

-----------------------------------------------------------------------------
(* What is said of an agent.                                               *)

\* A stored score and the one under a ceiling are said to be the same.
Agree(score, shown) ==
    TrustLevel(score) = TrustLevel(shown) /\ Decision(score) = Decision(shown)

\* Levels rise with the score: a score between two of one level has it too.
LEMMA LevelsAreMonotone ==
    ASSUME NEW x \in Nat, NEW y \in Nat, NEW z \in Nat, x <= y, y <= z,
           Agree(z, x)
    PROVE  Agree(z, y)
<1>1. TrustLevel(z) = TrustLevel(y)
  BY DEF Agree, TrustLevel
<1>2. Decision(z) = Decision(y)
  BY DEF Agree, Decision
<1> QED
  BY <1>1, <1>2 DEF Agree

\* An agent under its ceiling, and one whose ceiling was raised, is not
\* overstated.
LEMMA NotOverstated ==
    ASSUME NEW score \in Nat, NEW t, NEW t2
    PROVE  /\ score <= Ceiling(t) => Agree(score, Min2(score, Ceiling(t)))
           /\ Ceiling(t) <= Ceiling(t2) /\ Agree(score, Min2(score, Ceiling(t)))
                => Agree(score, Min2(score, Ceiling(t2)))
<1> DEFINE c == Ceiling(t)
           c2 == Ceiling(t2)
<1>1. c \in Nat /\ c2 \in Nat
  BY Ceilings
<1> HIDE DEF c, c2
<1>2. score <= c => Min2(score, c) = score
  BY <1>1 DEF Min2
<1>3. c <= c2 => Min2(score, c) <= Min2(score, c2)
  BY <1>1 DEF Min2
<1>4. /\ Min2(score, c) \in Nat /\ Min2(score, c2) \in Nat
      /\ Min2(score, c2) <= score
  BY <1>1, MinOfTwo
<1>5. Agree(score, score)
  BY DEF Agree
<1>6. c <= c2 /\ Agree(score, Min2(score, c)) => Agree(score, Min2(score, c2))
  BY <1>3, <1>4, LevelsAreMonotone
<1>7. score <= c => Agree(score, Min2(score, c))
  BY <1>2, <1>5
<1> QED
  BY <1>6, <1>7 DEF c, c2

LEMMA OverstatedMeans ==
    ASSUME NEW a \in Agents
    PROVE  /\ Overstated(a) <=> ~Agree(ais[a], Min2(ais[a], Ceiling(tier[a])))
           /\ Overstated(a)' <=>
                ~Agree(ais'[a], Min2(ais'[a], Ceiling(tier'[a])))
<1>1. Overstated(a) <=> ~Agree(ais[a], Min2(ais[a], Ceiling(tier[a])))
  BY DEF Overstated, CredentialLevel, ProfileLevel, ShownAis, Agree
<1>2. Overstated(a)' <=> ~Agree(ais'[a], Min2(ais'[a], Ceiling(tier'[a])))
  BY DEF Overstated, CredentialLevel, ProfileLevel, ShownAis, Agree
<1> QED
  BY <1>1, <1>2

\* What a step does to an agent's score and tier.
LEMMA ScoreMoves ==
    ASSUME TypeOK, [Next]_vars, NEW a \in Agents
    PROVE  \/ ais'[a] = ais[a]
           \/ ais'[a] <= Ceiling(tier'[a])
           \/ tier'[a] = tier[a] /\ RustReport(a)
<1>1. CASE Start
  <2>1. CASE a \in Seeds /\ owner[a] = None
    <3>1. ais'[a] = SeedScore[a] /\ tier'[a] = SeedTier[a]
      BY <1>1, <2>1 DEF Start
    <3> QED
      BY <2>1, <3>1
  <2>2. CASE ~(a \in Seeds /\ owner[a] = None)
    BY <1>1, <2>2 DEF Start
  <2> QED
    BY <2>1, <2>2
<1>2. ASSUME NEW u \in Users, NEW b \in Agents, NEW h \in Handles \cup {None},
             RegisterAgent(u, b, h)
      PROVE  ais'[a] = ais[a] \/ ais'[a] <= Ceiling(tier'[a])
  <2>1. CASE a = b
    <3>1. ais'[a] = 0
      BY <1>2, <2>1 DEF RegisterAgent, TypeOK
    <3>2. Ceiling(tier'[a]) \in {600, 850, 1000}
      BY Ceilings
    <3> QED
      BY <3>1, <3>2
  <2>2. CASE a # b
    BY <1>2, <2>2 DEF RegisterAgent, TypeOK
  <2> QED
    BY <2>1, <2>2
<1>3. ASSUME NEW u \in Users, NEW b \in Agents, RecordAgentStake(u, b)
      PROVE  ais'[a] = ais[a] \/ ais'[a] <= Ceiling(tier'[a])
  <2>1. PICK raw \in Nat :
          ais' = [ais EXCEPT ![b] = Min2(raw, Ceiling(tier[b]))]
    BY <1>3 DEF RecordAgentStake, CalculateAis
  <2>2. tier' = tier
    BY <1>3 DEF RecordAgentStake
  <2>3. Ceiling(tier[b]) \in Nat
    BY Ceilings
  <2>4. Min2(raw, Ceiling(tier[b])) <= Ceiling(tier[b])
    BY <2>3, MinOfTwo
  <2>5. CASE a = b
    BY <2>1, <2>2, <2>4, <2>5 DEF TypeOK
  <2>6. CASE a # b
    BY <2>1, <2>6 DEF TypeOK
  <2> QED
    BY <2>5, <2>6
<1>4. ASSUME NEW b \in Agents, RustReport(b)
      PROVE  ais'[a] = ais[a] \/ (tier'[a] = tier[a] /\ RustReport(a))
  <2>1. CASE a = b
    BY <1>4, <2>1 DEF RustReport
  <2>2. CASE a # b
    BY <1>4, <2>2 DEF RustReport, TypeOK
  <2> QED
    BY <2>1, <2>2
<1>5. CASE ais' = ais
  BY <1>5
<1> QED
  BY <1>1, <1>2, <1>3, <1>4, <1>5
  DEF Next, UserStep, vars, scoring, Stop, EnsureGuest, GetProfile,
      UpdateProfile, CreateWallet, SyncVirtual, RequestLoan, Credit,
      RegisterXns, RegisterAgain, UpgradeIdentity, BindController,
      UpdateMetadata, ProcessTierPayment

LEMMA OverstatedStep ==
    ASSUME TypeOK, [Next]_vars, NEW a \in Agents, Overstated(a)', ~Overstated(a)
    PROVE  \/ Ceiling(tier'[a]) < Ceiling(tier[a])
           \/ ais'[a] > Ceiling(tier[a]) /\ RustReport(a)
<1>1. ais[a] \in Nat /\ ais'[a] \in Nat
  BY TypeStep DEF TypeOK
<1>2. Ceiling(tier[a]) \in Nat /\ Ceiling(tier'[a]) \in Nat
  BY Ceilings
<1>3. /\ Agree(ais[a], Min2(ais[a], Ceiling(tier[a])))
      /\ ~Agree(ais'[a], Min2(ais'[a], Ceiling(tier'[a])))
  BY OverstatedMeans
<1>4. ~(ais'[a] <= Ceiling(tier'[a]))
  BY <1>1, <1>3, NotOverstated
<1>5. CASE ais'[a] = ais[a]
  <2>1. ~(Ceiling(tier[a]) <= Ceiling(tier'[a]))
    BY <1>1, <1>3, <1>5, NotOverstated
  <2> QED
    BY <1>2, <2>1
<1>6. CASE tier'[a] = tier[a] /\ RustReport(a)
  BY <1>1, <1>2, <1>4, <1>6
<1> QED
  BY <1>4, <1>5, <1>6, ScoreMoves

\* A credential and the profile beside it, or a handshake and the page, come to
\* differ only by a lowered ceiling or by a report scored for another tier
\* (identity_api.py:279).
THEOREM OverstatedOnlyThen == Spec => OverstatedOnlyAfterLowering
<1>1. TypeOK /\ [Next]_vars =>
        [\A a \in Agents : Overstated(a)' /\ ~Overstated(a) =>
            \/ Ceiling(tier'[a]) < Ceiling(tier[a])
            \/ ais'[a] > Ceiling(tier[a]) /\ RustReport(a)]_vars
  BY OverstatedStep
<1> QED
  BY <1>1, TypeCorrect, PTL DEF Spec, OverstatedOnlyAfterLowering
=============================================================================
