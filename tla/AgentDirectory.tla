--------------------------- MODULE AgentDirectory ---------------------------
(***************************************************************************)
(* The agents table of backend/src/main.rs and the handlers that share it: *)
(* register_agent, agent_handshake, register_xns_handle,                   *)
(* update_agent_metadata and claim_ownership, and the telemetry writer     *)
(* that sets an alias.  A handler is a sequence of statements that share   *)
(* no transaction; it reads, decides, and writes later.                    *)
(***************************************************************************)
EXTENDS Naturals, FiniteSets

CONSTANTS
    Addrs,      \* eth_address values; case is not told apart
    Handles,    \* normalised XNS handles
    Aliases,
    Owners,     \* owner wallets
    Claimable,  \* bound: agents that someone claims
    None,       \* no alias, no handle, no owner
    Sessions    \* requests served at a time

ASSUME DirectoryAssumption ==
    /\ None \notin Addrs \cup Handles \cup Aliases \cup Owners
    /\ Claimable \subseteq Addrs

VARIABLES
    rows,       \* agents that have a row
    meta,       \* agents.metadata, as far as the handlers tell it apart
    owner,      \* agents.owner_address
    claims,     \* active rows of ownership_claims, counted by owner
    job,        \* what each session is doing
    loose,      \* history: handles written without a check that still held
    mixed       \* history: agents with overlapping or broken-off claims

vars == <<rows, meta, owner, claims, job, loose, mixed>>
table == <<rows, meta, owner, claims>>
history == <<loose, mixed>>

Blank == [alias |-> None, handle |-> None]

\* A job's value goes into the field of its agent's metadata; "sound" says
\* that nothing its check or its copy relied on was written since.
NoJob == [at |-> "idle", addr |-> None, field |-> "none", value |-> None,
          copy |-> Blank, sound |-> FALSE]

Init ==
    /\ rows = {}
    /\ meta = [a \in Addrs |-> Blank]
    /\ owner = [a \in Addrs |-> None]
    /\ claims = [a \in Addrs |-> [o \in Owners |-> 0]]
    /\ job = [s \in Sessions |-> NoJob]
    /\ loose = {}
    /\ mixed = {}
-----------------------------------------------------------------------------
(* Requests.                                                               *)

Begin(s, label, a, field, value, sound) ==
    /\ job[s].at = "idle"
    /\ job' = [job EXCEPT ![s] = [at |-> label, addr |-> a, field |-> field,
                                   value |-> value, copy |-> Blank, sound |-> sound]]
    /\ UNCHANGED <<table, history>>

\* A handle is checked first, unless the payload brings metadata of its own.
RegisterAgent(s, a, h) ==
    \/ Begin(s, IF h = None THEN "insert" ELSE "check", a, "new", h, TRUE)
    \/ Begin(s, "insert", a, "new", h, FALSE)

AgentHandshake(s, a) == Begin(s, "find", a, "new", None, TRUE)

RegisterXnsHandle(s, a, h) == Begin(s, "check", a, "handle", h, TRUE)

\* The extra fields may set a handle too, which nothing checks.
UpdateAgentMetadata(s, a) ==
    \/ \E x \in Aliases : Begin(s, "read", a, "alias", x, TRUE)
    \/ \E h \in Handles : Begin(s, "read", a, "handle", h, FALSE)

ClaimOwnership(s, a, o) == Begin(s, "agent", a, "owner", o, TRUE)

-----------------------------------------------------------------------------
(* Steps of the handlers.                                                  *)

Goto(s, label) == job' = [job EXCEPT ![s].at = label]
Done(s) == job' = [job EXCEPT ![s] = NoJob]

HoldersOf(h) == {a \in rows : meta[a].handle = h}

\* Mutant: a handle another agent has is taken as free.
CheckHandle_Ignored(s) ==
    /\ job[s].at = "check"
    /\ Goto(s, IF job[s].field = "new" THEN "insert" ELSE "read")
    /\ UNCHANGED <<table, history>>

\* The SELECT returns one row of those that have the handle.
CheckHandle(s) ==
    LET j == job[s]
    IN  /\ j.at = "check"
        /\ \/ /\ HoldersOf(j.value) = {} \/ j.addr \in HoldersOf(j.value)
              /\ Goto(s, IF j.field = "new" THEN "insert" ELSE "read")
           \/ /\ HoldersOf(j.value) \ {j.addr} # {}
              /\ Done(s)
        /\ UNCHANGED <<table, history>>

\* Does a job rely on no other agent, or on agent a, not getting handle h?
Relies(j, a, h) ==
    \/ j.at = "write" /\ j.field = "alias" /\ j.addr = a
    \/ j.at \in {"insert", "read", "write"} /\ j.field # "alias"
         /\ j.addr # a /\ j.value = h

\* Session s writes metadata m of agent a and is done.
Put(s, a, m) ==
    /\ rows' = rows \cup {a}
    /\ meta' = [meta EXCEPT ![a] = m]
    /\ job' = [t \in Sessions |->
                 IF t = s THEN NoJob
                 ELSE [job[t] EXCEPT !.sound =
                         @ /\ (m.handle = meta[a].handle \/ ~Relies(job[t], a, m.handle))]]
    /\ loose' = IF job[s].sound THEN loose ELSE loose \cup ({m.handle} \ {None})
    /\ UNCHANGED <<owner, claims, mixed>>

\* INSERT ... ON CONFLICT only touches last_active_at of a row that is there.
InsertAgent(s) ==
    LET j == job[s]
    IN  /\ j.at = "insert"
        /\ IF j.addr \in rows
           THEN Done(s) /\ UNCHANGED <<table, loose, mixed>>
           ELSE \E x \in Aliases \cup {None} :
                  Put(s, j.addr, [alias |-> x, handle |-> j.value])

\* A handshake with an unknown target inserts it; the INSERT fails if the row
\* has arrived since.
FindTarget(s) ==
    /\ job[s].at = "find"
    /\ IF job[s].addr \in rows THEN Done(s) ELSE Goto(s, "bare")
    /\ UNCHANGED <<table, history>>

InsertTarget(s) ==
    LET j == job[s]
    IN  /\ j.at = "bare"
        /\ IF j.addr \in rows THEN Done(s) /\ UNCHANGED <<table, loose, mixed>>
                              ELSE Put(s, j.addr, Blank)

ReadMetadata(s) ==
    LET j == job[s]
    IN  /\ j.at = "read"
        /\ IF j.addr \in rows
           THEN job' = [job EXCEPT ![s].at = "write", ![s].copy = meta[j.addr]]
           ELSE Done(s)
        /\ UNCHANGED <<table, history>>

\* Mutant: the other fields are not merged.
WriteMetadata_Replaces(s) ==
    LET j == job[s]
    IN  /\ j.at = "write"
        /\ Put(s, j.addr, [Blank EXCEPT ![j.field] = j.value])

\* The whole column is written back from the copy.
WriteMetadata(s) ==
    LET j == job[s]
    IN  /\ j.at = "write"
        /\ Put(s, j.addr, [j.copy EXCEPT ![j.field] = j.value])

\* The telemetry writer sets the alias in one statement, jsonb_set.
SetAlias(a, x) ==
    /\ a \in rows
    /\ meta' = [meta EXCEPT ![a].alias = x]
    /\ UNCHANGED <<rows, owner, claims, job, history>>

-----------------------------------------------------------------------------
(* Steps of claim_ownership.                                               *)

FindAgent(s) ==
    /\ job[s].at = "agent"
    /\ IF job[s].addr \in rows THEN Goto(s, "claim") ELSE Done(s)
    /\ UNCHANGED <<table, history>>

ActiveOwners(a) == {o \in Owners : claims[a][o] > 0}

\* Mutant: a claim of another owner does not stop this one.
CheckClaim_Ignored(s) ==
    /\ job[s].at = "claim"
    /\ Goto(s, "owner")
    /\ UNCHANGED <<table, history>>

\* The SELECT returns one of the active claims.
CheckClaim(s) ==
    LET j == job[s]
    IN  /\ j.at = "claim"
        /\ \/ /\ ActiveOwners(j.addr) = {} \/ j.value \in ActiveOwners(j.addr)
              /\ Goto(s, "owner")
           \/ /\ ActiveOwners(j.addr) \ {j.value} # {}
              /\ Done(s)
        /\ UNCHANGED <<table, history>>

Claiming == {"owner", "revoke", "record"}

ClaimsOn(a) == {s \in Sessions : job[s].at \in Claiming /\ job[s].addr = a}

\* A claim that writes while another one is past its check.
Mixing(s) == IF ClaimsOn(job[s].addr) = {s} THEN mixed
             ELSE mixed \cup {job[s].addr}

SetOwner(s) ==
    /\ job[s].at = "owner"
    /\ owner' = [owner EXCEPT ![job[s].addr] = job[s].value]
    /\ mixed' = Mixing(s)
    /\ Goto(s, "revoke")
    /\ UNCHANGED <<rows, meta, claims, loose>>

\* Mutant: the claims before stay active.
RevokeClaims_None(s) ==
    /\ job[s].at = "revoke"
    /\ mixed' = Mixing(s)
    /\ Goto(s, "record")
    /\ UNCHANGED <<rows, meta, owner, claims, loose>>

RevokeClaims(s) ==
    /\ job[s].at = "revoke"
    /\ claims' = [claims EXCEPT ![job[s].addr] = [o \in Owners |-> 0]]
    /\ mixed' = Mixing(s)
    /\ Goto(s, "record")
    /\ UNCHANGED <<rows, meta, owner, loose>>

RecordClaim(s) ==
    /\ job[s].at = "record"
    /\ claims' = [claims EXCEPT ![job[s].addr][job[s].value] = @ + 1]
    /\ mixed' = Mixing(s)
    /\ Done(s)
    /\ UNCHANGED <<rows, meta, owner, loose>>

\* A statement fails or the client is gone: what was written stays.
BreakOff(s) ==
    /\ job[s].at # "idle"
    /\ mixed' = IF job[s].at \in {"revoke", "record"}
                THEN mixed \cup {job[s].addr} ELSE mixed
    /\ Done(s)
    /\ UNCHANGED <<table, loose>>

Next ==
    \/ \E s \in Sessions, a \in Addrs :
         \/ \E h \in Handles \cup {None} : RegisterAgent(s, a, h)
         \/ \E h \in Handles : RegisterXnsHandle(s, a, h)
         \/ a \in Claimable /\ \E o \in Owners : ClaimOwnership(s, a, o)
         \/ AgentHandshake(s, a) \/ UpdateAgentMetadata(s, a)
    \/ \E s \in Sessions :
         \/ CheckHandle(s) \/ InsertAgent(s) \/ FindTarget(s) \/ InsertTarget(s)
         \/ ReadMetadata(s) \/ WriteMetadata(s)
         \/ FindAgent(s) \/ CheckClaim(s) \/ SetOwner(s)
         \/ RevokeClaims(s) \/ RecordClaim(s) \/ BreakOff(s)
    \/ \E a \in Addrs, x \in Aliases : SetAlias(a, x)

Spec == Init /\ [][Next]_vars

-----------------------------------------------------------------------------
(* Properties.                                                             *)

Metas == [alias : Aliases \cup {None}, handle : Handles \cup {None}]

Jobs == [at : {"idle", "check", "insert", "find", "bare", "read", "write",
               "agent", "claim", "owner", "revoke", "record"},
         addr : Addrs \cup {None}, field : {"none", "new", "handle", "alias", "owner"},
         value : Handles \cup Aliases \cup Owners \cup {None},
         copy : Metas, sound : BOOLEAN]

\* The variables keep their types; only agents with a row have metadata or an
\* owner, and a job that is not idle has an agent.
TypeOK ==
    /\ rows \subseteq Addrs
    /\ meta \in [Addrs -> Metas]
    /\ owner \in [Addrs -> Owners \cup {None}]
    /\ claims \in [Addrs -> [Owners -> Nat]]
    /\ job \in [Sessions -> Jobs]
    /\ loose \subseteq Handles
    /\ mixed \subseteq Addrs
    /\ \A a \in Addrs \ rows :
         meta[a] = Blank /\ owner[a] = None /\ ActiveOwners(a) = {}

\* Two agents never have the same handle, whatever handlers run, break off or
\* overwrite each other, unless it was written unchecked or after its check
\* was outdated ("reject if another agent already owns this handle",
\* main.rs:960).
HandlesUnique ==
    \A h \in Handles \ loose : Cardinality(HoldersOf(h)) <= 1

\* A session writes metadata of a back from an outdated copy.
OldCopy(s, a) ==
    /\ job[s].at = "write" /\ job[s].addr = a /\ job[s].copy # meta[a]
    /\ job'[s] = NoJob

\* One write changes one field of an agent's metadata and keeps the rest
\* ("non-destructive metadata merge-update", main.rs:2735), unless it
\* wrote back a copy that was out of date.
MergesKeepTheRest ==
    [][\A a \in rows : \/ meta'[a].alias = meta[a].alias
                       \/ meta'[a].handle = meta[a].handle
                       \/ \E s \in Sessions : OldCopy(s, a)]_vars

\* Between claims, the owner of an agent is the owner of its one active claim,
\* unless claims overlapped or broke off halfway.
ClaimsAgree ==
    \A a \in Addrs \ mixed : ClaimsOn(a) = {} =>
        \/ owner[a] = None /\ ActiveOwners(a) = {}
        \/ ActiveOwners(a) = {owner[a]} /\ claims[a][owner[a]] = 1

\* An agent that is owned stays with its owner: no claim takes it over
\* ("Agent already claimed by ... Revoke first", main.rs:2932), unless claims
\* overlapped or broke off halfway.
OwnersStay ==
    [][\A a \in Addrs : owner[a] \in {None, owner'[a]} \/ a \in mixed']_vars
=============================================================================
