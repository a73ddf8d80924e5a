--------------------------- MODULE DisputesProofs ---------------------------
(***************************************************************************)
(* Proofs about Disputes and DualWitness, for any deals, agents, resolvers,*)
(* courts and bounds: first the Rust backend alone, then with the Python   *)
(* resolver at work on the same tables.                                    *)
(***************************************************************************)
EXTENDS DualWitness, TLAPS

USE DisputesAssumption

\* The larger of the floor and a score.
LEMMA FloorOfScore ==
    ASSUME NEW n \in Int
    PROVE  /\ Max({Floor, n}) \in Nat
           /\ Max({Floor, n}) >= Floor
<1>1. \E m \in {Floor, n} : \A y \in {Floor, n} : m >= y
  <2>1. CASE n <= Floor
    BY <2>1 DEF Floor
  <2>2. CASE n > Floor
    BY <2>2 DEF Floor
  <2> QED
    BY <2>1, <2>2 DEF Floor
<1>2. /\ Max({Floor, n}) \in {Floor, n}
      /\ Max({Floor, n}) >= Floor
  BY <1>1 DEF Max
<1> QED
  BY <1>2 DEF Floor

\* The initial state has the right types.
LEMMA TypeInit == Init => TypeOK
BY DEF Init, TypeOK

\* A penalty keeps the points inside their column and the score a natural
\* number that is not under the floor.
LEMMA TypePenalise ==
    ASSUME TypeOK, NEW r \in Resolvers, Penalise(r)
    PROVE  TypeOK'
<1> DEFINE a == Performer(r)
           low == Max({Floor, ais[a] - 200})
<1>1. /\ deal[r] \in Deals /\ a \in Agents /\ ais[a] \in Nat
      /\ penalty[a] \in 0 .. MaxPenalty
  BY DEF TypeOK, Performer
<1>2. low \in Nat /\ low >= Floor
  BY <1>1, FloorOfScore
<1>3. /\ ais' = [ais EXCEPT ![a] = low]
      /\ penalty' = [penalty EXCEPT ![a] = penalty[a] + Point]
      /\ penalty[a] + Point <= MaxPenalty
      /\ hits' = [hits EXCEPT ![deal[r]] = hits[deal[r]] + 1]
      /\ pc' = [pc EXCEPT ![r] = "status"]
      /\ UNCHANGED <<dispute, openings, early, deal, justified>>
  BY DEF Penalise, Goto
<1> HIDE DEF low, a
<1>4. penalty[a] + Point \in 0 .. MaxPenalty
  BY <1>1, <1>3 DEF Point
<1>5. hits[deal[r]] + 1 \in Nat
  BY <1>1 DEF TypeOK
<1>6. \A b \in Agents : ais'[b] < Floor => ais'[b] \in Reported \cup {0}
  <2> TAKE b \in Agents
  <2>1. CASE b = a
    <3>1. ais'[b] = low
      BY <1>1, <1>3, <2>1 DEF TypeOK
    <3> QED
      BY <1>2, <3>1 DEF Floor
  <2>2. CASE b # a
    BY <1>3, <2>2 DEF TypeOK
  <2> QED
    BY <2>1, <2>2
<1> QED
  BY <1>1, <1>2, <1>3, <1>4, <1>5, <1>6 DEF TypeOK

\* Every statement of a resolution, every row that is written and every
\* dispute that is raised keeps the types.
LEMMA TypeStep == TypeOK /\ [Next]_vars => TypeOK'
<1> SUFFICES ASSUME TypeOK, [Next]_vars
             PROVE  TypeOK'
  OBVIOUS
<1>1. ASSUME NEW d \in Deals, NEW score \in Reported, LogDeal(d, score)
      PROVE  TypeOK'
  BY <1>1 DEF LogDeal, Open, jobs, TypeOK, Floor
<1>2. ASSUME NEW d \in Deals, RaiseDispute(d)
      PROVE  TypeOK'
  BY <1>2 DEF RaiseDispute, Open, jobs, TypeOK
<1>3. ASSUME NEW r \in Resolvers, NEW d \in Deals, NEW j \in BOOLEAN,
             ResolveDispute(r, d, j)
      PROVE  TypeOK'
  BY <1>3 DEF ResolveDispute, TypeOK
<1>4. ASSUME NEW r \in Resolvers, FindPerformer(r)
      PROVE  TypeOK'
  BY <1>4 DEF FindPerformer, Goto, TypeOK
<1>5. ASSUME NEW r \in Resolvers, Penalise(r)
      PROVE  TypeOK'
  BY <1>5, TypePenalise
<1>6. ASSUME NEW r \in Resolvers, SetStatus(r)
      PROVE  TypeOK'
  BY <1>6 DEF SetStatus, Goto, TypeOK
<1>7. ASSUME NEW r \in Resolvers, BreakOff(r)
      PROVE  TypeOK'
  BY <1>7 DEF BreakOff, Goto, TypeOK
<1>8. CASE UNCHANGED vars
  BY <1>8 DEF vars, jobs, TypeOK
<1> QED
  BY <1>1, <1>2, <1>3, <1>4, <1>5, <1>6, <1>7, <1>8 DEF Next

\* The variables keep their types: penalty points never leave DECIMAL(3, 2),
\* and no resolution puts a score under the floor (main.rs:1803).
THEOREM TypeCorrect == Spec => []TypeOK
BY TypeInit, TypeStep, PTL DEF Spec

-----------------------------------------------------------------------------
(* What each statement of a resolution knows about the ones before it.     *)

JobInv ==
    \A r \in Resolvers :
        /\ pc[r] \in {"find", "penalise"} => justified[r]
        /\ pc[r] = "penalise" => dispute[deal[r]] # "absent"
        /\ pc[r] = "status" /\ justified[r] =>
               hits[deal[r]] > 0 \/ deal[r] \in early

SlashInv == JobInv /\ SlashedWasPenalised

\* At the start nothing is slashed and no resolution runs.
LEMMA SlashInit == Init => SlashInv
BY DEF Init, SlashInv, JobInv, SlashedWasPenalised

\* Penalties and early resolutions are never forgotten, a row never leaves,
\* and only a resolution that penalised or came early writes SLASHED.
LEMMA SlashStep == TypeOK /\ SlashInv /\ [Next]_vars => SlashInv'
<1> SUFFICES ASSUME TypeOK, SlashInv, [Next]_vars
             PROVE  SlashInv'
  OBVIOUS
<1> USE DEF TypeOK, SlashInv, JobInv, SlashedWasPenalised
<1>1. ASSUME NEW d \in Deals, NEW score \in Reported, LogDeal(d, score)
      PROVE  SlashInv'
  BY <1>1 DEF LogDeal, Open, jobs
<1>2. ASSUME NEW d \in Deals, RaiseDispute(d)
      PROVE  SlashInv'
  BY <1>2 DEF RaiseDispute, Open, jobs
<1>3. ASSUME NEW r \in Resolvers, NEW d \in Deals, NEW j \in BOOLEAN,
             ResolveDispute(r, d, j)
      PROVE  SlashInv'
  BY <1>3 DEF ResolveDispute
<1>4. ASSUME NEW r \in Resolvers, FindPerformer(r)
      PROVE  SlashInv'
  BY <1>4 DEF FindPerformer, Goto
<1>5. ASSUME NEW r \in Resolvers, Penalise(r)
      PROVE  SlashInv'
  <2>1. /\ hits' = [hits EXCEPT ![deal[r]] = hits[deal[r]] + 1]
        /\ pc' = [pc EXCEPT ![r] = "status"]
        /\ UNCHANGED <<dispute, early, deal, justified>>
    BY <1>5 DEF Penalise, Goto
  <2>2. \A d \in Deals : hits[d] > 0 => hits'[d] > 0
    BY <2>1
  <2>3. hits'[deal[r]] > 0
    BY <2>1
  <2> QED
    BY <2>1, <2>2, <2>3
<1>6. ASSUME NEW r \in Resolvers, SetStatus(r)
      PROVE  SlashInv'
  BY <1>6 DEF SetStatus, Goto
<1>7. ASSUME NEW r \in Resolvers, BreakOff(r)
      PROVE  SlashInv'
  BY <1>7 DEF BreakOff, Goto
<1>8. CASE UNCHANGED vars
  BY <1>8 DEF vars, jobs
<1> QED
  BY <1>1, <1>2, <1>3, <1>4, <1>5, <1>6, <1>7, <1>8 DEF Next

\* The performer of a SLASHED deal was penalised for it, for any number of
\* overlapping and broken-off resolutions, unless one came before the row
\* (main.rs:1785-1821).
THEOREM SlashedHasPenalty == Spec => []SlashedWasPenalised
BY TypeCorrect, SlashInit, SlashStep, PTL DEF Spec, SlashInv

(***************************************************************************)
(* DualWitness: what is shown above holds with the Python resolver as      *)
(* well, and the points of an agent are those of its slashes unless a      *)
(* judgement overwrote them.                                               *)
(***************************************************************************)
USE WitnessAssumption


Judgements ==
    [deal : Deals, breach : {0, 4, 10},
     status : {"OPEN", "PENDING", "RESOLVED", "SLASHED", "absent"},
     points : 0 .. MaxPenalty]

\* A court that is not adjourned has read its row, so the row is there.
CourtOK ==
    \A c \in Courts : court[c] # None =>
        /\ court[c] \in Judgements
        /\ court[c].status # "absent" /\ dispute[court[c].deal] # "absent"

WitnessTypeOK ==
    /\ TypeOK
    /\ CourtOK
    /\ court \in [Courts -> Judgements \cup {None}]
    /\ provider \in [Deals -> {"low", "high", None}]
    /\ customer \in [Deals -> {"insured", "fair", "over", "foul", None}]
    /\ \A d \in Deals : provider[d] # None => dispute[d] # "absent"
    /\ due \in [Agents -> Nat]
    /\ lost \subseteq Agents

\* What a conviction stores fits the column, and is what was read and the
\* breach while that is within the ceiling.
LEMMA AccumulatedPoints ==
    ASSUME NEW read \in 0 .. MaxPenalty, NEW breach \in {4, 10}
    PROVE  /\ Accumulated(read, breach) \in 0 .. MaxPenalty
           /\ read + breach <= 10 => Accumulated(read, breach) = read + breach
<1> DEFINE sum == read + breach
<1>1. sum \in Nat /\ sum > read
  OBVIOUS
<1> HIDE DEF sum
<1>2. \E m \in {10, sum} : \A y \in {10, sum} : y >= m
  <2>1. CASE sum <= 10
    BY <1>1, <2>1
  <2>2. CASE sum > 10
    BY <1>1, <2>2
  <2> QED
    BY <1>1, <2>1, <2>2
<1>3. Min({10, sum}) \in {10, sum} /\ Min({10, sum}) <= 10
      /\ Min({10, sum}) <= sum
  BY <1>1, <1>2 DEF Min
<1>4. /\ Min({10, sum}) \in 0 .. MaxPenalty
      /\ sum <= 10 => Min({10, sum}) = sum
  BY <1>1, <1>3 DEF Point
<1> QED
  BY <1>4 DEF Accumulated, sum

-----------------------------------------------------------------------------
(* Types.                                                                  *)

LEMMA WitnessTypeInit == WitnessInit => WitnessTypeOK
BY TypeInit DEF WitnessInit, WitnessTypeOK, CourtOK

\* The backend's steps keep the types, and no row disappears.
LEMMA BackendType == ASSUME WitnessTypeOK, Backend PROVE WitnessTypeOK'
<1>1. TypeOK'
  BY TypeStep DEF Backend, WitnessTypeOK
<1>2. \A d \in Deals : dispute[d] # "absent" => dispute'[d] # "absent"
  BY DEF Backend, Next, LogDeal, RaiseDispute, Open, ResolveDispute,
         FindPerformer, Penalise, SetStatus, BreakOff, WitnessTypeOK, TypeOK
<1>3. due' \in [Agents -> Nat]
  BY DEF Backend, WitnessTypeOK, Point
<1>4. UNCHANGED <<provider, customer, court, lost>>
  BY DEF Backend, evidence, trial
<1> QED
  BY <1>1, <1>2, <1>3, <1>4 DEF WitnessTypeOK, CourtOK, Judgements

\* A judgement reads a row that is there.
LEMMA JudgeType ==
    ASSUME WitnessTypeOK, NEW c \in Courts, NEW d \in Deals, Judge(c, d)
    PROVE  WitnessTypeOK'
<1> DEFINE verdict == [deal |-> d, breach |-> Breach(provider[d], customer[d]),
                       status |-> dispute[d], points |-> penalty[AgentOf[d]]]
<1>1. Breach(provider[d], customer[d]) \in {0, 4, 10}
  BY DEF Breach
<1>2. /\ dispute[d] \in {"OPEN", "PENDING", "RESOLVED", "SLASHED"}
      /\ penalty[AgentOf[d]] \in 0 .. MaxPenalty
  BY DEF WitnessTypeOK, TypeOK, Judge
<1>3. verdict \in Judgements /\ verdict.status # "absent" /\ verdict.deal = d
  BY <1>1, <1>2 DEF Judgements
<1>4. court' = [court EXCEPT ![c] = verdict]
  BY DEF Judge
<1>5. UNCHANGED <<vars, provider, customer, due, lost>>
  BY DEF Judge, evidence, history
<1> HIDE DEF verdict
<1>6. TypeOK'
  BY <1>5 DEF WitnessTypeOK, TypeOK, vars
<1>7. dispute[d] # "absent" /\ dispute' = dispute
  BY <1>2, <1>5 DEF vars
<1> QED
  BY <1>3, <1>4, <1>5, <1>6, <1>7 DEF WitnessTypeOK, CourtOK

\* A verdict is written where a row is, and where another was read it stays.
LEMMA VerdictType ==
    ASSUME WitnessTypeOK, NEW c \in Courts, court[c] # None,
           NEW verdict \in {"RESOLVED", "SLASHED"}, SetVerdict(c, verdict)
    PROVE  /\ dispute' \in [Deals -> {"absent", "OPEN", "PENDING", "RESOLVED",
                                      "SLASHED"}]
           /\ \A d \in Deals : dispute[d] # "absent" => dispute'[d] # "absent"
           /\ \A d \in Deals \ {court[c].deal} : dispute'[d] = dispute[d]
           /\ dispute'[court[c].deal] \in {dispute[court[c].deal], verdict}
<1>1. court[c].deal \in Deals
  BY DEF WitnessTypeOK, CourtOK, Judgements
<1> QED
  BY <1>1 DEF SetVerdict, Stored, WitnessTypeOK, TypeOK

\* A conviction stores points that fit their column.
LEMMA ConvictType ==
    ASSUME WitnessTypeOK, NEW c \in Courts, Convict(c)
    PROVE  WitnessTypeOK'
<1>1. PICK d \in Deals, read \in 0 .. MaxPenalty, breach \in {4, 10} :
        /\ d = court[c].deal /\ read = court[c].points
        /\ breach = court[c].breach
  BY DEF WitnessTypeOK, CourtOK, Judgements, Convict
<1> DEFINE a == AgentOf[d]
           new == Stored(penalty[a], read, Accumulated(read, breach))
<1>2. a \in Agents
  BY <1>1
<1>3. new \in 0 .. MaxPenalty
  BY <1>2, AccumulatedPoints DEF Stored, WitnessTypeOK, TypeOK
<1>4. /\ penalty' = [penalty EXCEPT ![a] = new]
      /\ hits' = [hits EXCEPT ![d] = hits[d] + 1]
      /\ due' = [due EXCEPT ![a] = due[a] + breach]
      /\ lost' \subseteq lost \cup {a}
      /\ court' = [court EXCEPT ![c] = None]
      /\ UNCHANGED <<ais, pc, deal, justified, openings, early, provider,
                     customer>>
  BY <1>1 DEF Convict, Adjourn, jobs, evidence
<1>5. /\ dispute' \in [Deals -> {"absent", "OPEN", "PENDING", "RESOLVED",
                                 "SLASHED"}]
      /\ \A e \in Deals : dispute[e] # "absent" => dispute'[e] # "absent"
  BY VerdictType DEF Convict
<1> HIDE DEF new, a
<1>6. hits[d] + 1 \in Nat /\ due[a] + breach \in Nat
  BY <1>1, <1>2 DEF WitnessTypeOK, TypeOK
<1>7. TypeOK'
  BY <1>3, <1>4, <1>5, <1>6 DEF WitnessTypeOK, TypeOK
<1>8. due' \in [Agents -> Nat] /\ lost' \subseteq Agents
  BY <1>2, <1>4, <1>6 DEF WitnessTypeOK
<1>9. \A e \in Courts : court'[e] # None => court'[e] = court[e]
  BY <1>4 DEF WitnessTypeOK
<1>10. CourtOK'
  BY <1>5, <1>9 DEF WitnessTypeOK, CourtOK, Judgements
<1> QED
  BY <1>4, <1>5, <1>7, <1>8, <1>10 DEF WitnessTypeOK

\* Every step of either service keeps the types.
LEMMA WitnessTypeStep ==
    WitnessTypeOK /\ [WitnessNext]_allVars => WitnessTypeOK'
<1> SUFFICES ASSUME WitnessTypeOK, [WitnessNext]_allVars
             PROVE  WitnessTypeOK'
  OBVIOUS
<1>1. CASE Backend
  BY <1>1, BackendType
<1>2. ASSUME NEW d \in Deals, LogScript(d)
      PROVE  WitnessTypeOK'
  BY <1>2 DEF LogScript, jobs, trial, history, WitnessTypeOK, TypeOK, CourtOK,
              Judgements
<1>3. ASSUME NEW d \in Deals,
             ReportTerms(d) \/ VerifyReceipt(d) \/ PurchaseCoverage(d)
      PROVE  WitnessTypeOK'
  <2>1. /\ \A e \in Deals : provider'[e] # None => provider[e] # None
        /\ provider' \in [Deals -> {"low", "high", None}]
        /\ customer' \in [Deals -> {"insured", "fair", "over", "foul", None}]
        /\ UNCHANGED <<vars, court, due, lost>>
    BY <1>3 DEF ReportTerms, VerifyReceipt, PurchaseCoverage, trial, history,
                WitnessTypeOK
  <2> QED
    BY <2>1 DEF vars, WitnessTypeOK, TypeOK, CourtOK, Judgements
<1>4. ASSUME NEW c \in Courts, NEW d \in Deals, Judge(c, d)
      PROVE  WitnessTypeOK'
  BY <1>4, JudgeType
<1>5. ASSUME NEW c \in Courts, Acquit(c)
      PROVE  WitnessTypeOK'
  <2>1. /\ dispute' \in [Deals -> {"absent", "OPEN", "PENDING", "RESOLVED",
                                   "SLASHED"}]
        /\ \A e \in Deals : dispute[e] # "absent" => dispute'[e] # "absent"
    BY <1>5, VerdictType DEF Acquit
  <2>2. /\ court' = [court EXCEPT ![c] = None]
        /\ UNCHANGED <<ais, penalty, pc, deal, justified, hits, openings, early,
                       provider, customer, due, lost>>
    BY <1>5 DEF Acquit, Adjourn, jobs, evidence, history
  <2>3. \A e \in Courts : court'[e] # None => court'[e] = court[e]
    BY <2>2 DEF WitnessTypeOK
  <2>4. CourtOK'
    BY <2>1, <2>3 DEF WitnessTypeOK, CourtOK, Judgements
  <2> QED
    BY <2>1, <2>2, <2>4 DEF WitnessTypeOK, TypeOK
<1>6. ASSUME NEW c \in Courts, Convict(c)
      PROVE  WitnessTypeOK'
  BY <1>6, ConvictType
<1>7. ASSUME NEW c \in Courts, Mistrial(c)
      PROVE  WitnessTypeOK'
  BY <1>7 DEF Mistrial, Adjourn, vars, evidence, history, WitnessTypeOK, TypeOK,
              CourtOK, Judgements
<1>8. CASE UNCHANGED allVars
  BY <1>8 DEF allVars, vars, jobs, evidence, trial, history, WitnessTypeOK,
              TypeOK, CourtOK, Judgements
<1> QED
  BY <1>1, <1>2, <1>3, <1>4, <1>5, <1>6, <1>7, <1>8 DEF WitnessNext

\* With both services at work the points fit their column, a judgement is
\* about a row that is there, and no resolution puts a score under the floor.
THEOREM WitnessTypeCorrect == WitnessSpec => []WitnessTypeOK
BY WitnessTypeInit, WitnessTypeStep, PTL DEF WitnessSpec

-----------------------------------------------------------------------------
(* A SLASHED deal was penalised.                                           *)

\* The resolver writes SLASHED together with its penalty, and never takes a
\* row away; the rest is SlashStep.
LEMMA WitnessSlashStep ==
    WitnessTypeOK /\ SlashInv /\ [WitnessNext]_allVars => SlashInv'
<1> SUFFICES ASSUME WitnessTypeOK, SlashInv, [WitnessNext]_allVars
             PROVE  SlashInv'
  OBVIOUS
<1>1. CASE Backend
  BY <1>1, SlashStep DEF Backend, WitnessTypeOK
<1>2. ASSUME NEW d \in Deals, LogScript(d)
      PROVE  SlashInv'
  BY <1>2 DEF LogScript, jobs, SlashInv, JobInv, SlashedWasPenalised,
              WitnessTypeOK, TypeOK
<1>3. CASE UNCHANGED vars
  BY <1>3 DEF vars, SlashInv, JobInv, SlashedWasPenalised
<1>4. ASSUME NEW c \in Courts, Acquit(c)
      PROVE  SlashInv'
  <2>1. /\ \A d \in Deals : dispute[d] # "absent" => dispute'[d] # "absent"
        /\ \A d \in Deals : dispute'[d] \in {dispute[d], "RESOLVED"}
    BY <1>4, VerdictType DEF Acquit
  <2>2. UNCHANGED <<pc, deal, justified, hits, early>>
    BY <1>4 DEF Acquit, jobs
  <2> QED
    BY <2>1, <2>2 DEF SlashInv, JobInv, SlashedWasPenalised, WitnessTypeOK,
                      TypeOK
<1>5. ASSUME NEW c \in Courts, Convict(c)
      PROVE  SlashInv'
  <2>1. PICK e \in Deals : e = court[c].deal
    BY <1>5 DEF Convict, WitnessTypeOK, CourtOK, Judgements
  <2>2. /\ \A d \in Deals : dispute[d] # "absent" => dispute'[d] # "absent"
        /\ \A d \in Deals \ {e} : dispute'[d] = dispute[d]
    BY <1>5, <2>1, VerdictType DEF Convict
  <2>3. /\ hits' = [hits EXCEPT ![e] = hits[e] + 1]
        /\ UNCHANGED <<pc, deal, justified, early>>
    BY <1>5, <2>1 DEF Convict, jobs
  <2>4. hits \in [Deals -> Nat]
    BY DEF WitnessTypeOK, TypeOK
  <2>5. hits'[e] > 0 /\ \A d \in Deals : hits[d] > 0 => hits'[d] > 0
    BY <2>3, <2>4
  <2> QED
    BY <2>2, <2>3, <2>5 DEF SlashInv, JobInv, SlashedWasPenalised,
                            WitnessTypeOK, TypeOK
<1> QED
  BY <1>1, <1>2, <1>3, <1>4, <1>5
  DEF WitnessNext, ReportTerms, VerifyReceipt, PurchaseCoverage, Judge,
      Mistrial, allVars

\* A SLASHED deal was penalised by one of the two services, whatever they
\* overwrite of each other, unless a resolution came before the row.
THEOREM WitnessSlashedHasPenalty == WitnessSpec => []SlashedWasPenalised
<1>1. WitnessInit => SlashInv
  BY SlashInit DEF WitnessInit
<1> QED
  BY <1>1, WitnessTypeCorrect, WitnessSlashStep, PTL DEF WitnessSpec, SlashInv

-----------------------------------------------------------------------------
(* The points of an agent.                                                 *)

\* A step of the backend changes the points of an agent by what is due.
LEMMA BackendPoints ==
    ASSUME WitnessTypeOK, Backend, NEW a \in Agents, penalty[a] = due[a]
    PROVE  penalty'[a] = due'[a]
<1> DEFINE slashed == \E r \in Resolvers : Penalise(r) /\ Performer(r) = a
<1>1. due'[a] = due[a] + IF slashed THEN Point ELSE 0
  BY DEF Backend
<1>2. penalty[a] \in Nat /\ penalty \in [Agents -> 0 .. MaxPenalty]
  BY DEF WitnessTypeOK, TypeOK
<1>3. ASSUME NEW r \in Resolvers, Penalise(r)
      PROVE  penalty'[a] = IF Performer(r) = a THEN penalty[a] + Point
                           ELSE penalty[a]
  BY <1>2, <1>3 DEF Penalise
<1>4. CASE slashed
  BY <1>1, <1>3, <1>4
<1>5. CASE ~slashed
  <2>1. penalty'[a] = penalty[a]
    BY <1>3, <1>5 DEF Backend, Next, LogDeal, RaiseDispute, ResolveDispute,
                      FindPerformer, SetStatus, BreakOff
  <2> QED
    BY <1>1, <1>2, <1>5, <2>1
<1> QED
  BY <1>4, <1>5

\* A conviction that saw all points and stays within the ceiling adds its
\* breach.
LEMMA ConvictPoints ==
    ASSUME WitnessTypeOK, PenaltiesAccountedFor, NEW c \in Courts, Convict(c)
    PROVE  PenaltiesAccountedFor'
<1>1. PICK d \in Deals, read \in 0 .. MaxPenalty, breach \in {4, 10} :
        /\ d = court[c].deal /\ read = court[c].points
        /\ breach = court[c].breach
  BY DEF WitnessTypeOK, CourtOK, Judgements, Convict
<1>2. PICK a \in Agents : a = AgentOf[d]
  BY <1>1
<1>3. /\ penalty' = [penalty EXCEPT ![a] =
                       Stored(penalty[a], read, Accumulated(read, breach))]
      /\ due' = [due EXCEPT ![a] = due[a] + breach]
      /\ lost' = IF penalty[a] # read \/ read + breach > 10
                 THEN lost \cup {a} ELSE lost
  BY <1>1, <1>2 DEF Convict
<1>4. penalty \in [Agents -> 0 .. MaxPenalty] /\ due \in [Agents -> Nat]
  BY DEF WitnessTypeOK, TypeOK
<1> SUFFICES ASSUME NEW b \in Agents, b \notin lost'
             PROVE  penalty'[b] = due'[b]
  BY DEF PenaltiesAccountedFor
<1>5. penalty[b] = due[b]
  BY <1>3 DEF PenaltiesAccountedFor
<1>6. CASE b # a
  BY <1>3, <1>4, <1>5, <1>6
<1>7. CASE b = a
  <2>1. penalty[a] = read /\ read + breach <= 10
    BY <1>1, <1>3, <1>4, <1>7
  <2>2. Accumulated(read, breach) = read + breach
    BY <2>1, AccumulatedPoints
  <2>3. penalty'[a] = read + breach
    BY <1>1, <1>3, <1>4, <2>1, <2>2 DEF Stored
  <2> QED
    BY <1>3, <1>4, <1>5, <1>7, <2>1, <2>3
<1> QED
  BY <1>6, <1>7

LEMMA PointsStep ==
    WitnessTypeOK /\ PenaltiesAccountedFor /\ [WitnessNext]_allVars
      => PenaltiesAccountedFor'
<1> SUFFICES ASSUME WitnessTypeOK, PenaltiesAccountedFor, [WitnessNext]_allVars
             PROVE  PenaltiesAccountedFor'
  OBVIOUS
<1>1. CASE Backend
  <2>1. lost' = lost
    BY <1>1 DEF Backend
  <2> QED
    BY <1>1, <2>1, BackendPoints DEF PenaltiesAccountedFor
<1>2. ASSUME NEW c \in Courts, Convict(c)
      PROVE  PenaltiesAccountedFor'
  BY <1>2, ConvictPoints
<1>3. CASE UNCHANGED <<penalty, due, lost>>
  BY <1>3 DEF PenaltiesAccountedFor
<1> QED
  BY <1>1, <1>2, <1>3
  DEF WitnessNext, LogScript, ReportTerms, VerifyReceipt, PurchaseCoverage,
      Judge, Acquit, Mistrial, vars, history, allVars

\* An agent has the points of all its slashes by both services, however they
\* interleave and break off, unless a judgement met the ceiling or stored
\* over a slash it had not seen (dispute_resolver.py:86).
THEOREM PointsAreAccountedFor == WitnessSpec => []PenaltiesAccountedFor
<1>1. WitnessInit => PenaltiesAccountedFor
  BY DEF WitnessInit, Init, PenaltiesAccountedFor
<1> QED
  BY <1>1, WitnessTypeCorrect, PointsStep, PTL DEF WitnessSpec
=============================================================================
