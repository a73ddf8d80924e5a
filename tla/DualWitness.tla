---------------------------- MODULE DualWitness ----------------------------
(***************************************************************************)
(* The Python side of the rows that Disputes is about: the provider's and  *)
(* the customer's metadata (trust_api.py) and the resolver that judges     *)
(* them (dispute_resolver.py), at work on the tables of the Rust backend   *)
(* while it raises and resolves disputes.                                  *)
(*                                                                         *)
(* A judgement is one ORM session: it reads the row and the agent, and one *)
(* commit at its end writes the attributes that differ from what it read.  *)
(* The customer's endpoint stores the receipt and then fails before the    *)
(* resolver is called (tx.transaction_id), so judgements are started by    *)
(* simulate_slash.py or by hand.  Their transaction to the Slasher is sent *)
(* before the commit and its outcome never read: see Slasher.              *)
(***************************************************************************)
EXTENDS Disputes

CONSTANTS
    Courts,     \* resolver processes that may run at once
    MaxTrials,  \* bound: judgements an instance sees
    None

ASSUME WitnessAssumption ==
    /\ MaxTrials \in Nat
    /\ Point <= MaxPenalty     \* the column holds the resolver's ceiling
    /\ None \notin {"low", "high", "insured", "fair", "over", "foul"}

VARIABLES
    provider,   \* provider_metadata: what was allocated, or None
    customer,   \* customer_metadata: what was received, or None
    court,      \* the judgement each resolver is about to commit, or None
    trials,     \* judgements so far
    due,        \* history: all points the agent's slashes gave it
    lost        \* history: agents of which a judgement overwrote points

evidence == <<provider, customer>>
trial == <<court, trials>>
history == <<due, lost>>
allVars == <<vars, evidence, trial, history>>

WitnessInit ==
    /\ Init
    /\ provider = [d \in Deals |-> None]
    /\ customer = [d \in Deals |-> None]
    /\ court = [c \in Courts |-> None]
    /\ trials = 0
    /\ due = [a \in Agents |-> 0]
    /\ lost = {}
-----------------------------------------------------------------------------
\* simulate_slash.py inserts a row of its own, with both witnesses.
LogScript(d) ==
    /\ dispute[d] = "absent" /\ openings[d] < MaxOpenings
    /\ dispute' = [dispute EXCEPT ![d] = "OPEN"]
    /\ openings' = [openings EXCEPT ![d] = @ + 1]
    /\ provider' = [provider EXCEPT ![d] = "low"]
    /\ customer' = [customer EXCEPT ![d] = "foul"]
    /\ UNCHANGED <<ais, penalty, jobs, hits, early, trial, history>>

\* The provider reports its terms under the deal's id.  The Rust backend keys
\* its rows by their hash, so of all rows only the script's is ever found.
ReportTerms(d) ==
    /\ provider[d] # None
    /\ \E terms \in {"low", "high"} :
         provider' = [provider EXCEPT ![d] = terms]
    /\ UNCHANGED <<vars, customer, trial, history>>

\* The customer may name the hash; any signed-in user is taken for it.
VerifyReceipt(d) ==
    /\ dispute[d] # "absent"
    /\ \E word \in {"fair", "over", "foul"} :
         customer' = [customer EXCEPT ![d] = word]
    /\ UNCHANGED <<vars, provider, trial, history>>

\* Coverage is noted in the customer's metadata: in a new dict, or in place,
\* where the ORM does not see it.
PurchaseCoverage(d) ==
    /\ dispute[d] # "absent" /\ customer[d] = None
    /\ customer' = [customer EXCEPT ![d] = "insured"]
    /\ UNCHANGED <<vars, provider, trial, history>>

\* The largest penalty among the breaches, in tenths of a point.
Breach(terms, word) ==
    CASE word = "foul" -> 10
      [] word = "over" /\ terms = "low" -> 4
      [] OTHER -> 0

\* With one witness missing the call ends with PENDING.
Judge(c, d) ==
    /\ court[c] = None
    /\ provider[d] # None /\ customer[d] # None
    /\ trials < MaxTrials /\ trials' = trials + 1
    /\ court' = [court EXCEPT ![c] =
                   [deal |-> d, breach |-> Breach(provider[d], customer[d]),
                    status |-> dispute[d], points |-> penalty[AgentOf[d]]]]
    /\ UNCHANGED <<vars, evidence, history>>

\* The commit writes an attribute only when the judgement changed it.
Stored(now, read, new) == IF new = read THEN now ELSE new

SetVerdict(c, verdict) ==
    LET d == court[c].deal
    IN dispute' = [dispute EXCEPT ![d] = Stored(@, court[c].status, verdict)]

Adjourn(c) == court' = [court EXCEPT ![c] = None]

Acquit(c) ==
    /\ court[c] # None /\ court[c].breach = 0
    /\ SetVerdict(c, "RESOLVED") /\ Adjourn(c)
    /\ UNCHANGED <<ais, penalty, jobs, hits, openings, early, evidence, trials,
                   history>>

\* Mutant: the points are the verdict's, not the agent's and the verdict's.
Accumulated_Replaces(points, breach) == breach

\* Points are accumulated up to 1.0: less than what the Rust backend may have
\* given the agent already.
Accumulated(points, breach) == Min({10, points + breach})

Convict(c) ==
    /\ court[c] # None /\ court[c].breach > 0
    /\ SetVerdict(c, "SLASHED") /\ Adjourn(c)
    /\ LET d == court[c].deal
           a == AgentOf[d]
           read == court[c].points
           breach == court[c].breach
       IN /\ penalty' =
               [penalty EXCEPT ![a] = Stored(@, read, Accumulated(read, breach))]
          /\ hits' = [hits EXCEPT ![d] = @ + 1]
          /\ due' = [due EXCEPT ![a] = @ + breach]
          /\ lost' = IF penalty[a] # read \/ read + breach > 10
                     THEN lost \cup {a} ELSE lost
    /\ UNCHANGED <<ais, jobs, openings, early, evidence, trials>>

\* The process ends or the commit fails: nothing is written.
Mistrial(c) ==
    /\ court[c] # None /\ Adjourn(c)
    /\ UNCHANGED <<vars, evidence, trials, history>>

\* The Rust backend's steps, of which a penalty counts as due.
Backend ==
    /\ Next
    /\ due' = [a \in Agents |->
                 due[a] + IF \E r \in Resolvers : Penalise(r) /\ Performer(r) = a
                          THEN Point ELSE 0]
    /\ UNCHANGED <<evidence, trial, lost>>

WitnessNext ==
    \/ Backend
    \/ \E d \in Deals :
         LogScript(d) \/ ReportTerms(d) \/ VerifyReceipt(d) \/ PurchaseCoverage(d)
    \/ \E c \in Courts :
         \/ \E d \in Deals : Judge(c, d)
         \/ Acquit(c) \/ Convict(c) \/ Mistrial(c)

WitnessSpec == WitnessInit /\ [][WitnessNext]_allVars

-----------------------------------------------------------------------------
\* Both services write penalty_points, one by adding to the column and one by
\* storing what it computed from an earlier read (dispute_resolver.py:86): an
\* agent has the points of all its slashes unless a judgement met the ceiling
\* of 1.0 or did not see a slash that came while it ran.
PenaltiesAccountedFor ==
    \A a \in Agents : penalty[a] = due[a] \/ a \in lost
=============================================================================
