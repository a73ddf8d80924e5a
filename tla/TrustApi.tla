----------------------------- MODULE TrustApi -----------------------------
(***************************************************************************)
(* Accounts and agents of the Python API: user profiles with a balance,    *)
(* agents with a handle, a tier, a score and metadata, and the seeds put   *)
(* back at every start (trust_api.py, identity_api.py, database.py).       *)
(*                                                                         *)
(* One process serves the endpoints; they are async functions without an   *)
(* await, so an endpoint is one action.  The token check of trust_api runs *)
(* before its endpoint and is an action of its own.  Amounts are in        *)
(* thousands of ITK, of either sign; one that is no number is left out.    *)
(* The Rust backend writes current_ais (external).                         *)
(***************************************************************************)
EXTENDS Integers, FiniteSets

CONSTANTS
    Users,      \* owner_uid's
    Guests,     \* the users whose token the API itself recognises
    Agents,     \* eth_address'es
    Seeds,      \* the agents the API registers itself
    SeedOwner,  \* the owner, handle, tier, score of each seed,
    SeedHandle,
    SeedTier,
    SeedScore,
    SeedRank,   \* and the order in which one commit updates their rows
    Fleet,      \* the agents that have a Hermes configuration file
    Handles,    \* XNS handles
    Price,      \* 5 for a handle of less than five characters, else 1
    Welcome,    \* the balance of a new profile
    Loans,      \* amounts asked for,
    Deposits,   \* amounts synchronised: the code checks no sign,
    MaxCredits, \* and how many of either an instance sees
    Scores,     \* what the scoring formula gives before any ceiling,
    RustScores, \* and the Rust backend's
    Operated,   \* the agents whose tier, score and metadata change
    None

ASSUME UsersAssumption == Guests \subseteq Users /\ None \notin Users
ASSUME SeedsAssumption ==
    /\ Seeds \subseteq Agents /\ Operated \subseteq Agents
    /\ Fleet \subseteq Agents
    /\ SeedOwner \in [Seeds -> Users]
    /\ SeedHandle \in [Seeds -> Handles]
    /\ SeedTier \in [Seeds -> {1, 2, 3}]
    /\ SeedScore \in [Seeds -> Nat]
    /\ SeedRank \in [Seeds -> Nat]
    /\ \A s, t \in Seeds : s # t => SeedHandle[s] # SeedHandle[t]
    /\ None \notin Handles
ASSUME AmountsAssumption ==
    /\ Price \in [Handles -> Nat]
    /\ Welcome \in Nat /\ MaxCredits \in Nat
    /\ Loans \subseteq Int /\ Deposits \subseteq Int
    /\ Scores \subseteq Nat /\ RustScores \subseteq Nat
    /\ None \notin Int

VARIABLES
    balance,    \* itk_balance, or None while the user has no profile
    wallet,     \* users whose profile has an app_wallet_address
    credits,    \* loans and deposits so far
    owner,      \* owner_uid, or None while there is no row for the agent
    handle,     \* xns_handle, UNIQUE, or None
    tier,       \* verification_tier
    ais,        \* current_ais
    meta,       \* agent_metadata: the binding's keys, any other keys
    verified,   \* controller_entity says "Verified via MetaMask"
    up          \* the process is serving

profiles == <<balance, wallet, credits>>
scoring == <<tier, ais>>
about == <<meta, verified>>
vars == <<profiles, owner, handle, scoring, about, up>>

\* The ceilings of the two scorers: an unknown tier is the lowest for Python
\* and the highest for Rust.
Ceiling(t) == CASE t = 2 -> 850 [] t = 3 -> 1000 [] OTHER -> 600
RustCeiling(t) == CASE t = 1 -> 600 [] t = 2 -> 850 [] OTHER -> 1000

\* No seed starts above its ceiling.
ASSUME SeedScoresAssumption == \A s \in Seeds : SeedScore[s] <= Ceiling(SeedTier[s])

Min2(x, y) == IF x < y THEN x ELSE y

Init ==
    /\ balance = [u \in Users |-> None] /\ wallet = {} /\ credits = 0
    /\ owner = [a \in Agents |-> None] /\ handle = [a \in Agents |-> None]
    /\ tier = [a \in Agents |-> 1] /\ ais = [a \in Agents |-> 0]
    /\ meta = [a \in Agents |-> {}] /\ verified = [a \in Agents |-> FALSE]
    /\ up = FALSE

(***************************************************************************)
(* The process starts, stops and starts again.                             *)
(***************************************************************************)
\* Setting seed s's handle meets the UNIQUE constraint: another agent has it,
\* and is not a seed whose own row was set back just before.
Taken(s) ==
    \E a \in Agents \ {s} :
        /\ handle[a] = SeedHandle[s]
        /\ a \in Seeds => SeedRank[a] > SeedRank[s]

\* A seed is inserted, or gets its owner and handle back; then the rows of the
\* fleet get their configuration, in a new dict.  An IntegrityError fails this
\* and every later attempt, and the process exits.
Start ==
    /\ ~up
    /\ \A s \in Seeds : ~Taken(s)
    /\ owner' = [a \in Agents |-> IF a \in Seeds THEN SeedOwner[a] ELSE owner[a]]
    /\ handle' =
         [a \in Agents |-> IF a \in Seeds THEN SeedHandle[a] ELSE handle[a]]
    /\ LET new == {s \in Seeds : owner[s] = None}
       IN /\ tier' = [a \in Agents |-> IF a \in new THEN SeedTier[a] ELSE tier[a]]
          /\ ais' = [a \in Agents |-> IF a \in new THEN SeedScore[a] ELSE ais[a]]
    /\ meta' = [a \in Agents |-> IF a \in Fleet /\ owner'[a] # None
                                 THEN meta[a] \cup {"other"} ELSE meta[a]]
    /\ up' = TRUE
    /\ UNCHANGED <<profiles, verified>>

Stop == up /\ up' = FALSE /\ UNCHANGED <<profiles, owner, handle, scoring, about>>

(***************************************************************************)
(* User profiles.                                                          *)
(***************************************************************************)
HasProfile(u) == balance[u] # None

\* Mutant: every request of a guest sets the balance anew.
EnsureGuest_Always(u) ==
    /\ up /\ u \in Guests
    /\ balance' = [balance EXCEPT ![u] = Welcome]
    /\ wallet' = wallet \cup {u}
    /\ UNCHANGED <<credits, owner, handle, scoring, about, up>>

\* trust_api's token check: a guest without a profile or without a wallet gets
\* a wallet, and the balance of a new guest.
EnsureGuest(u) ==
    /\ up /\ u \in Guests \ wallet
    /\ balance' = [balance EXCEPT ![u] = Welcome]
    /\ wallet' = wallet \cup {u}
    /\ UNCHANGED <<credits, owner, handle, scoring, about, up>>

\* A request that has passed it.  identity_api's check ensures nothing.
Admitted(u) == up /\ (u \in Guests => u \in wallet)

\* GET profile creates one on first access.
GetProfile(u) ==
    /\ up /\ ~HasProfile(u)
    /\ balance' = [balance EXCEPT ![u] = Welcome]
    /\ UNCHANGED <<wallet, credits, owner, handle, scoring, about, up>>

\* POST profile names the user, in a new profile if need be.
UpdateProfile(u) ==
    /\ up /\ ~HasProfile(u)
    /\ balance' = [balance EXCEPT ![u] = 0]
    /\ UNCHANGED <<wallet, credits, owner, handle, scoring, about, up>>

CreateWallet(u) ==
    /\ Admitted(u) /\ u \notin wallet
    /\ balance' = IF HasProfile(u) THEN balance ELSE [balance EXCEPT ![u] = 0]
    /\ wallet' = wallet \cup {u}
    /\ UNCHANGED <<credits, owner, handle, scoring, about, up>>

Credit(u, amount) ==
    /\ credits < MaxCredits /\ credits' = credits + 1
    /\ Admitted(u) /\ HasProfile(u)
    /\ balance' = [balance EXCEPT ![u] = @ + amount]
    /\ UNCHANGED <<wallet, owner, handle, scoring, about, up>>

SyncVirtual(u) == \E amount \in Deposits : Credit(u, amount)

\* The limit is five ITK per point of score, for each loan by itself; a
\* negative amount is below it.
RequestLoan(u) ==
    \E amount \in Loans, a \in Agents :
        owner[a] = u /\ 1000 * amount <= 5 * ais[a] /\ Credit(u, amount)

(***************************************************************************)
(* Agents.                                                                 *)
(***************************************************************************)
\* Mutant: the constraint is missing.
Free_Always(h, a) == TRUE

\* The UNIQUE constraint on xns_handle admits h for a.
Free(h, a) == h = None \/ \A b \in Agents \ {a} : handle[b] # h

\* A handle for an agent that has another, or none: the owner pays.  Asking
\* for the handle it has already is free and changes nothing.
RegisterXns(u, a, h) ==
    /\ up
    /\ \A b \in Agents : handle[b] # h
    /\ owner[a] = u /\ HasProfile(u) /\ balance[u] >= Price[h]
    /\ balance' = [balance EXCEPT ![u] = @ - Price[h]]
    /\ handle' = [handle EXCEPT ![a] = h]
    /\ UNCHANGED <<wallet, credits, owner, scoring, about, up>>

\* A new agent may bring a handle, and becomes the wallet of its owner.
RegisterAgent(u, a, h) ==
    /\ up /\ owner[a] = None /\ Free(h, a)
    /\ owner' = [owner EXCEPT ![a] = u]
    /\ handle' = [handle EXCEPT ![a] = h]
    /\ tier' = [tier EXCEPT ![a] = 1] /\ ais' = [ais EXCEPT ![a] = 0]
    /\ wallet' = IF HasProfile(u) THEN wallet \cup {u} ELSE wallet
    /\ UNCHANGED <<balance, credits, about, up>>

\* Registering again replaces the handle, if one is given, and the
\* controller_entity, if a description is.
RegisterAgain(u, a, h) ==
    /\ up /\ owner[a] = u /\ Free(h, a)
    /\ handle' = IF h = None THEN handle ELSE [handle EXCEPT ![a] = h]
    /\ \E described \in BOOLEAN :
         verified' = [verified EXCEPT ![a] = @ /\ ~described]
    /\ UNCHANGED <<profiles, owner, scoring, meta, up>>

\* A new dict with the old keys and the proof's; tier 3 names the controller.
UpgradeIdentity(u, a) ==
    /\ up /\ owner[a] = u
    /\ \E t \in {2, 3} :
         /\ tier' = [tier EXCEPT ![a] = t]
         /\ verified' = [verified EXCEPT ![a] = @ /\ t = 2]
    /\ meta' = [meta EXCEPT ![a] = @ \cup {"other"}]
    /\ UNCHANGED <<profiles, owner, handle, ais, up>>

\* Any tier at all, with no bound on the number.
ProcessTierPayment(a) ==
    /\ up /\ owner[a] # None
    /\ \E t \in 1..4 : tier' = [tier EXCEPT ![a] = t]
    /\ UNCHANGED <<profiles, owner, handle, ais, about, up>>

\* Mutant: no identity ceiling.
CalculateAis_NoCeiling(raw, t) == raw

CalculateAis(raw, t) == Min2(raw, Ceiling(t))

RecordAgentStake(u, a) ==
    /\ Admitted(u) /\ owner[a] = u
    /\ \E raw \in Scores : ais' = [ais EXCEPT ![a] = CalculateAis(raw, tier[a])]
    /\ UNCHANGED <<profiles, owner, handle, tier, about, up>>

\* A telemetry report to the Rust backend states the tier it is scored for;
\* more than 800 takes a proof.
RustScore(raw, t, proved) ==
    LET capped == Min2(raw, RustCeiling(t))
    IN IF proved THEN capped ELSE Min2(capped, 800)

RustReport(a) ==
    /\ owner[a] # None
    /\ \E raw \in RustScores, t \in 1..3, proved \in BOOLEAN :
         ais' = [ais EXCEPT ![a] = RustScore(raw, t, proved)]
    /\ UNCHANGED <<profiles, owner, handle, tier, about, up>>

\* Mutant: a copy is changed and never assigned to the row.
ChangedInPlace_Copy(dict, key) == dict

\* The dict of the loaded row is changed in place and assigned back: the ORM
\* compares it with itself and writes nothing, unless there was none.
ChangedInPlace(dict, key) == IF dict = {} THEN {key} ELSE dict

BindController(u, a) ==
    /\ Admitted(u) /\ owner[a] = u
    /\ meta' = [meta EXCEPT ![a] = ChangedInPlace(@, "controller")]
    /\ verified' = [verified EXCEPT ![a] = TRUE]
    /\ UNCHANGED <<profiles, owner, handle, scoring, up>>

\* PATCH metadata, or the wallet's signature.
UpdateMetadata(u, a) ==
    /\ Admitted(u) /\ owner[a] = u
    /\ meta' = [meta EXCEPT ![a] = ChangedInPlace(@, "other")]
    /\ UNCHANGED <<profiles, owner, handle, scoring, verified, up>>

(***************************************************************************)
(* What the read endpoints say of an agent.                                *)
(***************************************************************************)
\* The score an agent's page shows, its credential's and its profile's trust
\* level, and the answer to a handshake.
ShownAis(a) == Min2(ais[a], Ceiling(tier[a]))
TrustLevel(score) == CASE score >= 850 -> "AAA" [] score >= 750 -> "AA"
                       [] score >= 600 -> "BBB" [] score >= 400 -> "CCC"
                       [] OTHER -> "D"
CredentialLevel(a) == TrustLevel(ais[a])
ProfileLevel(a) == TrustLevel(ShownAis(a))
Decision(score) == CASE score >= 700 -> "APPROVED" [] score >= 400 -> "CAUTION"
                     [] OTHER -> "DENIED"

UserStep(u) ==
    \/ EnsureGuest(u) \/ GetProfile(u) \/ UpdateProfile(u) \/ CreateWallet(u)
    \/ SyncVirtual(u) \/ RequestLoan(u)
    \/ \E a \in Agents, h \in Handles : RegisterXns(u, a, h)
    \/ \E a \in Agents, h \in Handles \cup {None} :
         RegisterAgent(u, a, h) \/ RegisterAgain(u, a, h)
    \/ \E a \in Operated :
         \/ UpgradeIdentity(u, a) \/ RecordAgentStake(u, a)
         \/ BindController(u, a) \/ UpdateMetadata(u, a)

Next ==
    \/ Start \/ Stop
    \/ \E u \in Users : UserStep(u)
    \/ \E a \in Operated : ProcessTierPayment(a) \/ RustReport(a)

Spec == Init /\ [][Next]_vars
-----------------------------------------------------------------------------
\* A balance may be negative.
TypeOK ==
    /\ balance \in [Users -> Int \cup {None}]
    /\ wallet \in SUBSET Users /\ credits \in Nat
    /\ owner \in [Agents -> Users \cup {None}]
    /\ handle \in [Agents -> Handles \cup {None}]
    /\ tier \in [Agents -> 1..4] /\ ais \in [Agents -> Nat]
    /\ meta \in [Agents -> SUBSET {"controller", "other"}]
    /\ verified \in [Agents -> BOOLEAN] /\ up \in BOOLEAN

\* The step gives an agent of u a handle it did not have, for a price that the
\* balance covers.
Buys(u) == \E a \in Agents :
    /\ owner[a] = u /\ handle'[a] \notin {handle[a], None}
    /\ balance'[u] = balance[u] - Price[handle'[a]] /\ balance'[u] >= 0

\* The step is a loan or a sync of a user whom the token check has seen.
Credited(u) ==
    /\ u \in Guests => u \in wallet
    /\ credits' = credits + 1
    /\ \E amount \in Loans \cup Deposits : balance'[u] = balance[u] + amount

\* A balance moves only by the amount of a loan or a sync, whose sign nobody
\* checks (trust_api.py:935, 1023); by the price of a handle that an agent of
\* the user gets in the same step, which leaves no debt (XNS,
\* identity_api.py:467); or up to the welcome amount: the token check, which
\* sets the balance of a guest without a wallet anew (trust_api.py:259), never
\* takes anything away.
BalancesMoveForAReason ==
    [][\A u \in Users : HasProfile(u) /\ balance'[u] # balance[u] =>
          \/ Buys(u)
          \/ Credited(u)
          \/ balance[u] < balance'[u] /\ balance'[u] = Welcome
             /\ u \notin wallet /\ u \in wallet']_vars

\* Another agent has the handle of a seed, so that no start succeeds any more
\* (trust_api.py:343), only while the seed has a different one: its owner gave
\* the handle up, and nobody gets it before the seeds are registered.
SeedsLoseOnlyWhatTheyGaveUp ==
    \A s \in Seeds : Taken(s) => handle[s] \notin {SeedHandle[s], None}

\* The credential or a handshake says more of an agent than its page.
Overstated(a) ==
    \/ CredentialLevel(a) # ProfileLevel(a)
    \/ Decision(ais[a]) # Decision(ShownAis(a))

\* A credential and the profile it is shown with (identity_api.py:383), or a
\* handshake and the page, come to differ only when the tier falls under a
\* score already stored, or when a report was scored for a tier the agent does
\* not have.
OverstatedOnlyAfterLowering ==
    [][\A a \in Agents : Overstated(a)' /\ ~Overstated(a) =>
          \/ Ceiling(tier'[a]) < Ceiling(tier[a])
          \/ ais'[a] > Ceiling(tier[a]) /\ RustReport(a)]_vars

\* An agent shown as verified has the signed binding in its metadata, unless
\* metadata was there before it: then the binding was answered with
\* "CONTROLLER_BOUND" (trust_api.py:830) and never stored.
BindingLostOnlyOverMetadata ==
    \A a \in Agents : verified[a] /\ "controller" \notin meta[a] => meta[a] # {}
=============================================================================
