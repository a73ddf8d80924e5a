-------------------------- MODULE DirectoryProofs --------------------------
(***************************************************************************)
(* Proofs about AgentDirectory, for any agents, handles and sessions.      *)
(***************************************************************************)
EXTENDS AgentDirectory, FiniteSetTheorems, TLAPS

USE DirectoryAssumption

-----------------------------------------------------------------------------
(* Types.                                                                  *)

Types ==
    /\ rows \subseteq Addrs
    /\ meta \in [Addrs -> Metas]
    /\ job \in [Sessions -> Jobs]
    /\ \A s \in Sessions : job[s].at # "idle" => job[s].addr \in Addrs
    /\ \A s \in Sessions : job[s].at \in {"check", "read", "write"} =>
         job[s].field \in {"new", "handle", "alias"}
    /\ \A s \in Sessions : job[s].at \in {"read", "write"} =>
         job[s].field \in {"handle", "alias"}
    /\ \A s \in Sessions :
         /\ job[s].field \in {"new", "handle"} => job[s].value \in Handles \cup {None}
         /\ job[s].field = "alias" => job[s].value \in Aliases
         /\ job[s].at = "check" => job[s].field # "alias"
         /\ job[s].at \in {"insert", "bare", "find"} => job[s].field = "new"
    /\ \A a \in Addrs \ rows : meta[a].handle = None

LEMMA NoJobType == NoJob \in Jobs /\ Blank \in Metas
BY DEF NoJob, Jobs, Blank, Metas

\* A request begins with a well-typed job.
LEMMA BeginTypes ==
    ASSUME Types, NEW s \in Sessions, NEW a \in Addrs,
           NEW label \in {"check", "insert", "find", "read", "agent"},
           NEW field \in {"new", "handle", "alias", "owner"},
           NEW value \in Handles \cup Aliases \cup Owners \cup {None},
           NEW sound \in BOOLEAN,
           label \in {"check", "insert", "find"} => field \in {"new", "handle"},
           label \in {"insert", "find"} => field = "new",
           label = "read" => field \in {"handle", "alias"},
           field \in {"new", "handle"} => value \in Handles \cup {None},
           field = "alias" => value \in Aliases,
           Begin(s, label, a, field, value, sound)
    PROVE  Types'
<1> DEFINE new == [at |-> label, addr |-> a, field |-> field, value |-> value,
                   copy |-> Blank, sound |-> sound]
<1>1. /\ job' = [job EXCEPT ![s] = new]
      /\ UNCHANGED <<rows, meta>>
  BY DEF Begin, table
<1>2. new \in Jobs
  BY NoJobType DEF Jobs
<1>3. /\ new.at = label /\ new.addr = a /\ new.field = field
      /\ new.value = value
  OBVIOUS
<1> HIDE DEF new
<1>4. job' \in [Sessions -> Jobs]
  BY <1>1, <1>2 DEF Types
<1>5. \A t \in Sessions : job'[t] = IF t = s THEN new ELSE job[t]
  BY <1>1 DEF Types
<1> QED
  BY <1>1, <1>3, <1>4, <1>5 DEF Types

\* A session that is done is idle.
LEMMA DoneTypes ==
    ASSUME Types, NEW s \in Sessions, Done(s), UNCHANGED <<rows, meta>>
    PROVE  Types'
<1>1. /\ job' \in [Sessions -> Jobs]
      /\ \A t \in Sessions : job'[t] = IF t = s THEN NoJob ELSE job[t]
  BY NoJobType DEF Done, Types
<1>2. /\ NoJob.at = "idle" /\ NoJob.field = "none"
  BY DEF NoJob
<1> QED
  BY <1>1, <1>2 DEF Types

\* A session that goes on keeps the rest of its job.
LEMMA GotoTypes ==
    ASSUME Types, NEW s \in Sessions, NEW label \in {"bare", "read", "insert", "claim", "owner", "revoke", "record"},
           Goto(s, label), UNCHANGED <<rows, meta>>,
           job[s].at # "idle",
           label = "read" => job[s].field \in {"handle", "alias"},
           label \in {"insert", "bare"} => job[s].field = "new"
    PROVE  Types'
<1> DEFINE new == [job[s] EXCEPT !.at = label]
<1>1. /\ job' = [job EXCEPT ![s] = new]
      /\ UNCHANGED <<rows, meta>>
  BY DEF Goto
<1>2. /\ new \in Jobs
      /\ new.at = label /\ new.addr = job[s].addr /\ new.field = job[s].field
      /\ new.value = job[s].value
  <2>1. job[s] \in Jobs
    BY DEF Types
  <2> QED
    BY <2>1 DEF Jobs
<1> HIDE DEF new
<1>3. /\ job' \in [Sessions -> Jobs]
      /\ \A t \in Sessions : job'[t] = IF t = s THEN new ELSE job[t]
  BY <1>1, <1>2 DEF Types
<1> QED
  BY <1>1, <1>2, <1>3 DEF Types

\* After a write of well-typed metadata the other jobs are as they were, but
\* for their soundness.
LEMMA PutJobs ==
    ASSUME Types, NEW s \in Sessions, NEW a \in Addrs, NEW m \in Metas,
           Put(s, a, m)
    PROVE  /\ job' \in [Sessions -> Jobs]
           /\ job'[s] = NoJob
           /\ \A t \in Sessions \ {s} :
                /\ job'[t].at = job[t].at /\ job'[t].addr = job[t].addr
                /\ job'[t].field = job[t].field /\ job'[t].value = job[t].value
                /\ job'[t].copy = job[t].copy
                /\ job'[t].sound => job[t].sound
                /\ job'[t].sound =>
                     m.handle = meta[a].handle \/ ~Relies(job[t], a, m.handle)
<1> DEFINE keep(t) == job[t].sound /\ (m.handle = meta[a].handle
                                         \/ ~Relies(job[t], a, m.handle))
           new(t) == IF t = s THEN NoJob ELSE [job[t] EXCEPT !.sound = keep(t)]
<1>1. job' = [t \in Sessions |-> new(t)]
  BY DEF Put
<1>2. \A t \in Sessions : keep(t) \in BOOLEAN
  BY DEF Types, Jobs
<1> HIDE DEF keep
<1>3. ASSUME NEW t \in Sessions, t # s
      PROVE  /\ new(t) \in Jobs
             /\ new(t).at = job[t].at /\ new(t).addr = job[t].addr
             /\ new(t).field = job[t].field /\ new(t).value = job[t].value
             /\ new(t).copy = job[t].copy /\ new(t).sound = keep(t)
  <2>1. job[t] \in Jobs
    BY DEF Types
  <2> QED
    BY <1>2, <1>3, <2>1 DEF Jobs
<1>4. new(s) = NoJob
  OBVIOUS
<1> HIDE DEF new
<1>5. \A t \in Sessions : job'[t] = new(t)
  BY <1>1
<1>6. job' \in [Sessions -> Jobs]
  BY <1>1, <1>3, <1>4, NoJobType
<1> QED
  BY <1>3, <1>4, <1>5, <1>6 DEF keep

LEMMA PutTypes ==
    ASSUME Types, NEW s \in Sessions, NEW a \in Addrs, NEW m \in Metas,
           Put(s, a, m)
    PROVE  Types'
<1>1. NoJob.at = "idle" /\ NoJob.field = "none"
  BY DEF NoJob
<1>2. /\ rows' \subseteq Addrs /\ meta' \in [Addrs -> Metas]
      /\ \A b \in Addrs \ rows' : meta'[b].handle = None
  BY DEF Put, Types
<1>3. job' \in [Sessions -> Jobs] /\ job'[s] = NoJob
  BY PutJobs
<1>4. ASSUME NEW t \in Sessions
      PROVE  /\ job'[t].at \in {"idle", job[t].at}
             /\ job'[t].at # "idle" =>
                  job'[t].addr = job[t].addr /\ job'[t].field = job[t].field
             /\ job'[t].field \in {"none", job[t].field}
             /\ job'[t].field # "none" => job'[t].value = job[t].value
  BY <1>1, PutJobs
<1> QED
  BY <1>2, <1>3, <1>4 DEF Types

\* Every metadata a session writes is well typed.
LEMMA WriteType ==
    ASSUME Types, NEW s \in Sessions, job[s].at = "write"
    PROVE  /\ job[s].addr \in Addrs
           /\ [job[s].copy EXCEPT ![job[s].field] = job[s].value] \in Metas
<1>1. /\ job[s].copy \in Metas
      /\ job[s].field \in {"handle", "alias"}
      /\ job[s].field = "handle" => job[s].value \in Handles \cup {None}
      /\ job[s].field = "alias" => job[s].value \in Aliases
      /\ job[s].addr \in Addrs
  BY DEF Types, Jobs
<1>2. CASE job[s].field = "handle"
  BY <1>1, <1>2 DEF Metas
<1>3. CASE job[s].field = "alias"
  BY <1>1, <1>3 DEF Metas
<1> QED
  BY <1>1, <1>2, <1>3

\* The types are inductive.
LEMMA TypesStep ==
    ASSUME Types, [Next]_vars
    PROVE  Types'
<1>1. CASE UNCHANGED vars
  BY <1>1 DEF vars, Types
<1>2. ASSUME NEW s \in Sessions, NEW a \in Addrs, NEW h \in Handles \cup {None},
             RegisterAgent(s, a, h)
      PROVE  Types'
  BY <1>2, BeginTypes DEF RegisterAgent
<1>3. ASSUME NEW s \in Sessions, NEW a \in Addrs, NEW h \in Handles,
             RegisterXnsHandle(s, a, h)
      PROVE  Types'
  BY <1>3, BeginTypes DEF RegisterXnsHandle
<1>4. ASSUME NEW s \in Sessions, NEW a \in Addrs, NEW o \in Owners,
             ClaimOwnership(s, a, o)
      PROVE  Types'
  BY <1>4, BeginTypes DEF ClaimOwnership
<1>5. ASSUME NEW s \in Sessions, NEW a \in Addrs, AgentHandshake(s, a)
      PROVE  Types'
  BY <1>5, BeginTypes DEF AgentHandshake
<1>6. ASSUME NEW s \in Sessions, NEW a \in Addrs, UpdateAgentMetadata(s, a)
      PROVE  Types'
  BY <1>6, BeginTypes DEF UpdateAgentMetadata
<1>7. ASSUME NEW s \in Sessions, CheckHandle(s)
      PROVE  Types'
  <2>1. /\ job[s].at = "check" /\ job[s].field \in {"new", "handle"}
        /\ UNCHANGED <<rows, meta>>
    BY <1>7 DEF CheckHandle, Types, table
  <2>2. Done(s) \/ Goto(s, IF job[s].field = "new" THEN "insert" ELSE "read")
    BY <1>7 DEF CheckHandle
  <2> QED
    BY <2>1, <2>2, DoneTypes, GotoTypes
<1>8. ASSUME NEW s \in Sessions, InsertAgent(s)
      PROVE  Types'
  <2>1. CASE Done(s) /\ UNCHANGED table
    BY <2>1, DoneTypes DEF table
  <2>2. CASE \E x \in Aliases \cup {None} :
               Put(s, job[s].addr, [alias |-> x, handle |-> job[s].value])
    <3>1. job[s].addr \in Addrs /\ job[s].value \in Handles \cup {None}
      BY <1>8 DEF InsertAgent, Types
    <3>2. \A x \in Aliases \cup {None} :
            [alias |-> x, handle |-> job[s].value] \in Metas
      BY <3>1 DEF Metas
    <3> QED
      BY <2>2, <3>1, <3>2, PutTypes
  <2> QED
    BY <1>8, <2>1, <2>2 DEF InsertAgent
<1>9. ASSUME NEW s \in Sessions, FindTarget(s)
      PROVE  Types'
  <2>1. /\ job[s].at = "find" /\ job[s].field = "new"
        /\ UNCHANGED <<rows, meta>>
        /\ Done(s) \/ Goto(s, "bare")
    BY <1>9 DEF FindTarget, Types, table
  <2> QED
    BY <2>1, DoneTypes, GotoTypes
<1>10. ASSUME NEW s \in Sessions, InsertTarget(s)
       PROVE  Types'
  <2>1. job[s].addr \in Addrs
    BY <1>10 DEF InsertTarget, Types
  <2>2. Put(s, job[s].addr, Blank) \/ (Done(s) /\ UNCHANGED <<rows, meta>>)
    BY <1>10 DEF InsertTarget, table
  <2> QED
    BY <2>1, <2>2, DoneTypes, PutTypes, NoJobType
<1>11. ASSUME NEW s \in Sessions, ReadMetadata(s)
       PROVE  Types'
  <2>1. CASE Done(s)
    BY <1>11, <2>1, DoneTypes DEF ReadMetadata, table
  <2>2. CASE job' = [job EXCEPT ![s].at = "write", ![s].copy = meta[job[s].addr]]
    <3> DEFINE new == [job[s] EXCEPT !.at = "write", !.copy = meta[job[s].addr]]
    <3>1. job[s] \in Jobs /\ job[s].at = "read" /\ meta[job[s].addr] \in Metas
      BY <1>11 DEF ReadMetadata, Types
    <3>2. /\ new \in Jobs /\ new.at = "write" /\ new.addr = job[s].addr
          /\ new.field = job[s].field /\ new.value = job[s].value
      BY <3>1 DEF Jobs
    <3>3. job' = [job EXCEPT ![s] = new]
      BY <2>2 DEF Types
    <3> HIDE DEF new
    <3>4. /\ job' \in [Sessions -> Jobs]
          /\ \A t \in Sessions : job'[t] = IF t = s THEN new ELSE job[t]
      BY <3>2, <3>3 DEF Types
    <3> QED
      BY <1>11, <3>1, <3>2, <3>4 DEF ReadMetadata, Types, table
  <2> QED
    BY <1>11, <2>1, <2>2 DEF ReadMetadata
<1>12. ASSUME NEW s \in Sessions, WriteMetadata(s)
       PROVE  Types'
  BY <1>12, WriteType, PutTypes DEF WriteMetadata
<1>13. ASSUME NEW s \in Sessions, FindAgent(s)
       PROVE  Types'
  <2>1. /\ job[s].at = "agent" /\ UNCHANGED <<rows, meta>>
        /\ Done(s) \/ Goto(s, "claim")
    BY <1>13 DEF FindAgent, table
  <2> QED
    BY <2>1, DoneTypes, GotoTypes
<1>14. ASSUME NEW s \in Sessions, CheckClaim(s)
       PROVE  Types'
  <2>1. /\ job[s].at = "claim" /\ UNCHANGED <<rows, meta>>
        /\ Done(s) \/ Goto(s, "owner")
    BY <1>14 DEF CheckClaim, table
  <2> QED
    BY <2>1, DoneTypes, GotoTypes
<1>15. ASSUME NEW s \in Sessions, SetOwner(s) \/ RevokeClaims(s)
       PROVE  Types'
  <2>1. /\ job[s].at \in {"owner", "revoke"} /\ UNCHANGED <<rows, meta>>
        /\ Goto(s, "revoke") \/ Goto(s, "record")
    BY <1>15 DEF SetOwner, RevokeClaims
  <2> QED
    BY <2>1, GotoTypes
<1>16. ASSUME NEW s \in Sessions, RecordClaim(s) \/ BreakOff(s)
       PROVE  Types'
  BY <1>16, DoneTypes DEF RecordClaim, BreakOff, table
<1>17. ASSUME NEW a \in Addrs, NEW x \in Aliases, SetAlias(a, x)
       PROVE  Types'
  <2>1. meta' \in [Addrs -> Metas]
    <3>1. [meta[a] EXCEPT !.alias = x] \in Metas
      BY DEF Types, Metas
    <3>2. meta' = [meta EXCEPT ![a] = [meta[a] EXCEPT !.alias = x]]
      BY <1>17 DEF SetAlias, Types
    <3> QED
      BY <3>1, <3>2 DEF Types
  <2> QED
    BY <1>17, <2>1 DEF SetAlias, Types
<1> QED
  BY <1>1, <1>2, <1>3, <1>4, <1>5, <1>6, <1>7, <1>8, <1>9, <1>10, <1>11,
     <1>12, <1>13, <1>14, <1>15, <1>16, <1>17 DEF Next

-----------------------------------------------------------------------------
(* Handles.                                                                *)

\* No two agents hold a handle that was always written on a check that held.
OneHolder ==
    \A h \in Handles \ loose : \A a, b \in HoldersOf(h) : a = b

\* What the check of a sound job found about its handle is still so.
CheckHolds(s) ==
    /\ job[s].sound
    /\ job[s].at \in {"insert", "read", "write"} /\ job[s].field # "alias"
    /\ job[s].value \in Handles \ loose
    => HoldersOf(job[s].value) \subseteq {job[s].addr}

\* A sound job that sets an alias has a copy with the agent's handle.
CopyHolds(s) ==
    job[s].sound /\ job[s].at = "write" /\ job[s].field = "alias"
    => job[s].copy.handle = meta[job[s].addr].handle /\ job[s].addr \in rows

Guarded ==
    /\ OneHolder
    /\ \A s \in Sessions : CheckHolds(s) /\ CopyHolds(s)

\* A step of one session that writes no metadata.
LEMMA QuietStep ==
    ASSUME Guarded, NEW s \in Sessions, UNCHANGED <<rows, meta, loose>>,
           \A t \in Sessions \ {s} : job'[t] = job[t],
           CheckHolds(s)', CopyHolds(s)'
    PROVE  Guarded'
<1>1. OneHolder'
  BY DEF Guarded, OneHolder, HoldersOf
<1>2. ASSUME NEW t \in Sessions, t # s
      PROVE  CheckHolds(t)' /\ CopyHolds(t)'
  BY <1>2 DEF Guarded, CheckHolds, CopyHolds, HoldersOf
<1> QED
  BY <1>1, <1>2 DEF Guarded

LEMMA DoneGuarded ==
    ASSUME Types, Guarded, NEW s \in Sessions, Done(s),
           UNCHANGED <<rows, meta, loose>>
    PROVE  Guarded'
<1>1. \A t \in Sessions : job'[t] = IF t = s THEN NoJob ELSE job[t]
  BY DEF Done, Types
<1>2. CheckHolds(s)' /\ CopyHolds(s)'
  BY <1>1 DEF CheckHolds, CopyHolds, NoJob
<1> QED
  BY <1>1, <1>2, QuietStep

\* A request that goes on to write without a check relies on none, or writes
\* no handle.
LEMMA BeginGuarded ==
    ASSUME Types, Guarded, NEW s \in Sessions, NEW a \in Addrs,
           NEW label \in {"check", "insert", "find", "read", "agent"},
           NEW field, NEW value, NEW sound \in BOOLEAN,
           label \in {"insert", "read"} =>
             ~sound \/ field = "alias" \/ value = None,
           UNCHANGED loose,
           Begin(s, label, a, field, value, sound)
    PROVE  Guarded'
<1> DEFINE new == [at |-> label, addr |-> a, field |-> field, value |-> value,
                   copy |-> Blank, sound |-> sound]
<1>1. /\ \A t \in Sessions : job'[t] = IF t = s THEN new ELSE job[t]
      /\ UNCHANGED <<rows, meta, loose>>
  BY DEF Begin, table, Types
<1>2. /\ new.at = label /\ new.field = field /\ new.value = value
      /\ new.sound = sound
  OBVIOUS
<1> HIDE DEF new
<1>3. None \notin Handles
  OBVIOUS
<1>4. CheckHolds(s)' /\ CopyHolds(s)'
  BY <1>1, <1>2, <1>3 DEF CheckHolds, CopyHolds
<1> QED
  BY <1>1, <1>4, QuietStep

\* A session that goes on to anything but a write of metadata, or whose check
\* has just found what it asks for.
LEMMA GotoGuarded ==
    ASSUME Types, Guarded, NEW s \in Sessions,
           NEW label \in {"bare", "read", "insert", "claim", "owner", "revoke", "record"},
           Goto(s, label), UNCHANGED <<rows, meta, loose>>,
           label \in {"read", "insert"} =>
             (job[s].value \in Handles \ loose =>
                HoldersOf(job[s].value) \subseteq {job[s].addr})
    PROVE  Guarded'
<1> DEFINE new == [job[s] EXCEPT !.at = label]
<1>1. \A t \in Sessions : job'[t] = IF t = s THEN new ELSE job[t]
  BY DEF Goto, Types
<1>2. /\ new.at = label /\ new.field = job[s].field
      /\ new.value = job[s].value /\ new.addr = job[s].addr
  <2>1. job[s] \in Jobs
    BY DEF Types
  <2> QED
    BY <2>1 DEF Jobs
<1> HIDE DEF new
<1>3. CheckHolds(s)' /\ CopyHolds(s)'
  BY <1>1, <1>2 DEF CheckHolds, CopyHolds, HoldersOf
<1> QED
  BY <1>1, <1>3, QuietStep

\* A check that succeeds finds the handle with no other agent.
LEMMA CheckFinds ==
    ASSUME Guarded, NEW s \in Sessions, job[s].value \in Handles \ loose,
           HoldersOf(job[s].value) = {} \/ job[s].addr \in HoldersOf(job[s].value)
    PROVE  HoldersOf(job[s].value) \subseteq {job[s].addr}
BY DEF Guarded, OneHolder

\* A write keeps handles unique when what its session relies on still holds:
\* no other agent has the handle, or the agent keeps the one it has.
LEMMA PutGuarded ==
    ASSUME Types, Guarded, NEW s \in Sessions, NEW a \in Addrs, NEW m \in Metas,
           Put(s, a, m),
           job[s].sound /\ m.handle \in Handles \ loose =>
             HoldersOf(m.handle) \subseteq {a}
    PROVE  Guarded'
<1>1. /\ rows' = rows \cup {a}
      /\ \A b \in Addrs : meta'[b] = IF b = a THEN m ELSE meta[b]
      /\ loose' = IF job[s].sound THEN loose ELSE loose \cup ({m.handle} \ {None})
  BY DEF Put, Types
<1>2. rows \subseteq Addrs
  BY DEF Types
<1>3. None \notin Handles
  OBVIOUS
<1> DEFINE after(h) == {b \in rows' : meta'[b].handle = h}
<1>4. ASSUME NEW h \in Handles \ loose'
      PROVE  /\ h \in Handles \ loose
             /\ after(h) = IF m.handle = h THEN HoldersOf(h) \cup {a}
                           ELSE HoldersOf(h) \ {a}
             /\ m.handle = h => HoldersOf(h) \subseteq {a}
  <2>1. h \in Handles \ loose
    BY <1>1, <1>4
  <2>2. after(h) = IF m.handle = h THEN HoldersOf(h) \cup {a}
                   ELSE HoldersOf(h) \ {a}
    BY <1>1, <1>2 DEF HoldersOf
  <2>3. m.handle = h => job[s].sound
    BY <1>1, <1>3, <1>4
  <2> QED
    BY <2>1, <2>2, <2>3
<1>5. OneHolder'
  <2>1. ASSUME NEW h \in Handles \ loose', NEW b \in after(h), NEW c \in after(h)
        PROVE  b = c
    BY <1>4 DEF OneHolder, Guarded
  <2> QED
    BY <2>1 DEF OneHolder, HoldersOf
<1>6. ASSUME NEW t \in Sessions, t # s
      PROVE  CheckHolds(t)'
  <2>1. /\ job'[t].value = job[t].value /\ job'[t].addr = job[t].addr
        /\ job'[t].at = job[t].at /\ job'[t].field = job[t].field
        /\ job'[t].sound => job[t].sound
        /\ job'[t].sound =>
             m.handle = meta[a].handle \/ ~Relies(job[t], a, m.handle)
    BY <1>6, PutJobs
  <2> SUFFICES ASSUME /\ job'[t].sound
                      /\ job[t].at \in {"insert", "read", "write"}
                      /\ job[t].field # "alias"
                      /\ job[t].value \in Handles \ loose'
               PROVE  after(job[t].value) \subseteq {job[t].addr}
    BY <2>1 DEF CheckHolds, HoldersOf
  <2> PICK h \in Handles \ loose' : h = job[t].value
    OBVIOUS
  <2>2. HoldersOf(h) \subseteq {job[t].addr}
    BY <1>4, <2>1 DEF Guarded, CheckHolds
  <2> SUFFICES after(h) \subseteq {job[t].addr}
    OBVIOUS
  <2> HIDE DEF after
  <2>3. CASE m.handle # h
    BY <1>4, <2>2, <2>3
  <2>4. CASE m.handle = h /\ ~Relies(job[t], a, m.handle)
    <3>1. job[t].addr = a
      BY <2>4 DEF Relies
    <3> QED
      BY <1>4, <2>2, <2>4, <3>1
  <2>5. CASE m.handle = h /\ m.handle = meta[a].handle
    <3>1. a \in rows
      BY <1>3, <2>5 DEF Types
    <3>2. a \in HoldersOf(h)
      BY <2>5, <3>1 DEF HoldersOf
    <3> QED
      BY <1>4, <2>2, <2>5, <3>2
  <2> QED
    BY <2>1, <2>3, <2>4, <2>5
<1>7. ASSUME NEW t \in Sessions, t # s
      PROVE  CopyHolds(t)'
  <2> SUFFICES ASSUME job'[t].sound, job'[t].at = "write", job'[t].field = "alias"
               PROVE  /\ job'[t].copy.handle = meta'[job'[t].addr].handle
                      /\ job'[t].addr \in rows'
    BY DEF CopyHolds
  <2>1. /\ job'[t].addr = job[t].addr /\ job'[t].copy = job[t].copy
        /\ job[t].at = "write" /\ job[t].field = "alias" /\ job[t].sound
        /\ m.handle = meta[a].handle \/ ~Relies(job[t], a, m.handle)
    BY <1>7, PutJobs
  <2>2. /\ job[t].copy.handle = meta[job[t].addr].handle
        /\ job[t].addr \in rows
    BY <2>1 DEF Guarded, CopyHolds
  <2>3. job[t].addr = a => m.handle = meta[a].handle
    BY <2>1 DEF Relies
  <2> QED
    BY <1>1, <1>2, <2>1, <2>2, <2>3
<1>8. CheckHolds(s)' /\ CopyHolds(s)'
  BY PutJobs DEF CheckHolds, CopyHolds, NoJob
<1> QED
  BY <1>5, <1>6, <1>7, <1>8 DEF Guarded

\* Every step keeps the handles guarded.
LEMMA GuardedStep ==
    ASSUME Types, Guarded, [Next]_vars
    PROVE  Guarded'
<1>1. CASE UNCHANGED vars
  BY <1>1 DEF vars, Guarded, OneHolder, CheckHolds, CopyHolds, HoldersOf
<1>2. ASSUME NEW s \in Sessions, NEW a \in Addrs, NEW h \in Handles \cup {None},
             RegisterAgent(s, a, h)
      PROVE  Guarded'
  BY <1>2, BeginGuarded DEF RegisterAgent, Begin, history
<1>3. ASSUME NEW s \in Sessions, NEW a \in Addrs, NEW h \in Handles,
             RegisterXnsHandle(s, a, h)
      PROVE  Guarded'
  BY <1>3, BeginGuarded DEF RegisterXnsHandle, Begin, history
<1>4. ASSUME NEW s \in Sessions, NEW a \in Addrs, NEW o \in Owners,
             ClaimOwnership(s, a, o)
      PROVE  Guarded'
  BY <1>4, BeginGuarded DEF ClaimOwnership, Begin, history
<1>5. ASSUME NEW s \in Sessions, NEW a \in Addrs, AgentHandshake(s, a)
      PROVE  Guarded'
  BY <1>5, BeginGuarded DEF AgentHandshake, Begin, history
<1>6. ASSUME NEW s \in Sessions, NEW a \in Addrs, UpdateAgentMetadata(s, a)
      PROVE  Guarded'
  BY <1>6, BeginGuarded DEF UpdateAgentMetadata, Begin, history
<1>7. ASSUME NEW s \in Sessions, CheckHandle(s)
      PROVE  Guarded'
  <2>1. UNCHANGED <<rows, meta, loose>>
    BY <1>7 DEF CheckHandle, table, history
  <2>2. CASE Done(s)
    BY <2>1, <2>2, DoneGuarded
  <2>3. CASE /\ HoldersOf(job[s].value) = {} \/ job[s].addr \in HoldersOf(job[s].value)
             /\ Goto(s, IF job[s].field = "new" THEN "insert" ELSE "read")
    <3>1. job[s].value \in Handles \ loose =>
            HoldersOf(job[s].value) \subseteq {job[s].addr}
      BY <2>3, CheckFinds
    <3> QED
      BY <2>1, <2>3, <3>1, GotoGuarded
  <2> QED
    BY <1>7, <2>2, <2>3 DEF CheckHandle
<1>8. ASSUME NEW s \in Sessions, InsertAgent(s)
      PROVE  Guarded'
  <2>1. CASE Done(s) /\ UNCHANGED <<table, loose, mixed>>
    BY <2>1, DoneGuarded DEF table
  <2>2. CASE \E x \in Aliases \cup {None} :
               Put(s, job[s].addr, [alias |-> x, handle |-> job[s].value])
    <3> PICK x \in Aliases \cup {None} :
               Put(s, job[s].addr, [alias |-> x, handle |-> job[s].value])
      BY <2>2
    <3> DEFINE m == [alias |-> x, handle |-> job[s].value]
    <3>1. /\ job[s].at = "insert" /\ job[s].field = "new"
          /\ job[s].addr \in Addrs /\ job[s].value \in Handles \cup {None}
      BY <1>8 DEF InsertAgent, Types
    <3>2. m \in Metas /\ m.handle = job[s].value
      BY <3>1 DEF Metas
    <3>3. job[s].sound /\ m.handle \in Handles \ loose =>
            HoldersOf(m.handle) \subseteq {job[s].addr}
      BY <3>1, <3>2 DEF Guarded, CheckHolds
    <3>4. Put(s, job[s].addr, m)
      OBVIOUS
    <3> HIDE DEF m
    <3> QED
      BY <3>1, <3>2, <3>3, <3>4, PutGuarded
  <2> QED
    BY <1>8, <2>1, <2>2 DEF InsertAgent
<1>9. ASSUME NEW s \in Sessions, FindTarget(s)
      PROVE  Guarded'
  <2>1. /\ UNCHANGED <<rows, meta, loose>>
        /\ Done(s) \/ Goto(s, "bare")
    BY <1>9 DEF FindTarget, table, history
  <2> QED
    BY <2>1, DoneGuarded, GotoGuarded
<1>10. ASSUME NEW s \in Sessions, InsertTarget(s)
       PROVE  Guarded'
  <2>1. job[s].addr \in Addrs /\ Blank.handle = None /\ None \notin Handles
    BY <1>10 DEF InsertTarget, Types, Blank
  <2>2. CASE Put(s, job[s].addr, Blank)
    BY <2>1, <2>2, NoJobType, PutGuarded
  <2>3. CASE Done(s) /\ UNCHANGED <<table, loose, mixed>>
    BY <2>3, DoneGuarded DEF table
  <2> QED
    BY <1>10, <2>2, <2>3 DEF InsertTarget
<1>11. ASSUME NEW s \in Sessions, ReadMetadata(s)
       PROVE  Guarded'
  <2>1. UNCHANGED <<rows, meta, loose>>
    BY <1>11 DEF ReadMetadata, table, history
  <2>2. CASE Done(s)
    BY <2>1, <2>2, DoneGuarded
  <2>3. CASE /\ job[s].addr \in rows
             /\ job' = [job EXCEPT ![s].at = "write", ![s].copy = meta[job[s].addr]]
    <3> DEFINE new == [job[s] EXCEPT !.at = "write", !.copy = meta[job[s].addr]]
    <3>1. job[s] \in Jobs /\ job[s].at = "read"
      BY <1>11 DEF ReadMetadata, Types
    <3>2. /\ new.addr = job[s].addr /\ new.field = job[s].field
          /\ new.value = job[s].value /\ new.sound = job[s].sound
          /\ new.copy = meta[job[s].addr]
      BY <3>1 DEF Jobs
    <3>3. \A t \in Sessions : job'[t] = IF t = s THEN new ELSE job[t]
      BY <2>3 DEF Types
    <3> HIDE DEF new
    <3>4. CopyHolds(s)'
      <4>1. /\ job'[s].addr = job[s].addr /\ job'[s].copy = meta[job[s].addr]
        BY <3>2, <3>3
      <4>2. rows' = rows /\ meta' = meta /\ job[s].addr \in rows
        BY <2>1, <2>3
      <4>3. job'[s].copy = meta'[job'[s].addr] /\ job'[s].addr \in rows'
        BY <4>1, <4>2
      <4> QED
        BY <4>3, Zenon DEF CopyHolds
    <3>5. CheckHolds(s)'
      BY <2>1, <3>1, <3>2, <3>3 DEF Guarded, CheckHolds, HoldersOf
    <3> QED
      BY <2>1, <3>3, <3>4, <3>5, QuietStep
  <2> QED
    BY <1>11, <2>2, <2>3 DEF ReadMetadata
<1>12. ASSUME NEW s \in Sessions, WriteMetadata(s)
       PROVE  Guarded'
  <2> DEFINE a == job[s].addr
             m == [job[s].copy EXCEPT ![job[s].field] = job[s].value]
  <2>1. /\ job[s].at = "write" /\ a \in Addrs /\ m \in Metas /\ Put(s, a, m)
        /\ job[s].field \in {"handle", "alias"} /\ job[s].copy \in Metas
    BY <1>12, WriteType DEF WriteMetadata, Types, Jobs
  <2>2. ASSUME job[s].sound, m.handle \in Handles \ loose
        PROVE  HoldersOf(m.handle) \subseteq {a}
    <3>1. CASE job[s].field = "handle"
      <4>1. m.handle = job[s].value
        BY <2>1, <3>1 DEF Metas
      <4> QED
        BY <2>1, <2>2, <3>1, <4>1 DEF Guarded, CheckHolds
    <3>2. CASE job[s].field = "alias"
      <4>1. m.handle = job[s].copy.handle
        BY <2>1, <3>2 DEF Metas
      <4>2. m.handle = meta[a].handle /\ a \in rows
        BY <2>1, <2>2, <3>2, <4>1 DEF Guarded, CopyHolds
      <4>3. a \in HoldersOf(m.handle)
        BY <4>2 DEF HoldersOf
      <4> QED
        BY <2>2, <4>3 DEF Guarded, OneHolder
    <3> QED
      BY <2>1, <3>1, <3>2
  <2> HIDE DEF a, m
  <2> QED
    BY <2>1, <2>2, PutGuarded
<1>13. ASSUME NEW s \in Sessions, FindAgent(s)
       PROVE  Guarded'
  <2>1. /\ UNCHANGED <<rows, meta, loose>>
        /\ Done(s) \/ Goto(s, "claim")
    BY <1>13 DEF FindAgent, table, history
  <2> QED
    BY <2>1, DoneGuarded, GotoGuarded
<1>14. ASSUME NEW s \in Sessions, CheckClaim(s)
       PROVE  Guarded'
  <2>1. /\ UNCHANGED <<rows, meta, loose>>
        /\ Done(s) \/ Goto(s, "owner")
    BY <1>14 DEF CheckClaim, table, history
  <2> QED
    BY <2>1, DoneGuarded, GotoGuarded
<1>15. ASSUME NEW s \in Sessions, SetOwner(s) \/ RevokeClaims(s)
       PROVE  Guarded'
  <2>1. /\ UNCHANGED <<rows, meta, loose>>
        /\ Goto(s, "revoke") \/ Goto(s, "record")
    BY <1>15 DEF SetOwner, RevokeClaims
  <2> QED
    BY <2>1, GotoGuarded
<1>16. ASSUME NEW s \in Sessions, RecordClaim(s) \/ BreakOff(s)
       PROVE  Guarded'
  BY <1>16, DoneGuarded DEF RecordClaim, BreakOff, table
<1>17. ASSUME NEW a \in Addrs, NEW x \in Aliases, SetAlias(a, x)
       PROVE  Guarded'
  <2>1. /\ UNCHANGED <<rows, job, loose>>
        /\ \A b \in Addrs : meta'[b].handle = meta[b].handle
    <3>1. meta' = [meta EXCEPT ![a] = [meta[a] EXCEPT !.alias = x]]
      BY <1>17 DEF SetAlias, Types
    <3>2. [meta[a] EXCEPT !.alias = x].handle = meta[a].handle
      BY DEF Types, Metas
    <3> QED
      BY <1>17, <3>1, <3>2 DEF SetAlias, Types, history
  <2>2. rows \subseteq Addrs
    BY DEF Types
  <2> QED
    BY <2>1, <2>2 DEF Guarded, OneHolder, CheckHolds, CopyHolds, HoldersOf
<1> QED
  BY <1>1, <1>2, <1>3, <1>4, <1>5, <1>6, <1>7, <1>8, <1>9, <1>10, <1>11,
     <1>12, <1>13, <1>14, <1>15, <1>16, <1>17 DEF Next

-----------------------------------------------------------------------------

LEMMA DirectoryInvariant == Spec => [](Types /\ Guarded)
<1>1. Init => Types /\ Guarded
  <2> SUFFICES ASSUME Init PROVE Types /\ Guarded
    OBVIOUS
  <2>1. /\ NoJob.at = "idle" /\ NoJob.field = "none" /\ Blank.handle = None
    BY DEF NoJob, Blank
  <2> QED
    BY <2>1, NoJobType
    DEF Init, Types, Guarded, OneHolder, CheckHolds, CopyHolds, HoldersOf
<1>2. Types /\ Guarded /\ [Next]_vars => (Types /\ Guarded)'
  BY TypesStep, GuardedStep
<1> QED
  BY <1>1, <1>2, PTL DEF Spec

\* Whatever handlers run, break off or overwrite each other, two agents never
\* have the same handle, unless it was written unchecked or after its check
\* was outdated (main.rs:960).
THEOREM UniqueHandles == Spec => []HandlesUnique
<1>1. Types /\ Guarded => HandlesUnique
  <2> SUFFICES ASSUME Types, Guarded, NEW h \in Handles \ loose
               PROVE  Cardinality(HoldersOf(h)) <= 1
    BY DEF HandlesUnique
  <2>1. CASE HoldersOf(h) = {}
    BY <2>1, FS_EmptySet
  <2>2. CASE HoldersOf(h) # {}
    <3> PICK a \in HoldersOf(h) : TRUE
      BY <2>2
    <3>1. HoldersOf(h) = {a}
      BY DEF Guarded, OneHolder
    <3> QED
      BY <3>1, FS_Singleton
  <2> QED
    BY <2>1, <2>2
<1> QED
  BY <1>1, DirectoryInvariant, PTL

-----------------------------------------------------------------------------
(* Metadata.                                                               *)

\* One write changes one field of an agent's metadata, unless it wrote back a
\* copy that was out of date (main.rs:2735).
THEOREM MergesKeep == Spec => MergesKeepTheRest
<1> DEFINE Keeps == \A a \in rows : \/ meta'[a].alias = meta[a].alias
                                    \/ meta'[a].handle = meta[a].handle
                                    \/ \E s \in Sessions : OldCopy(s, a)
<1>1. Types /\ Guarded /\ [Next]_vars => [Keeps]_vars
  <2> SUFFICES ASSUME Types, Next
               PROVE  Keeps
    BY DEF vars
  <2>1. ASSUME UNCHANGED meta
        PROVE  Keeps
    BY <2>1
  <2>2. ASSUME NEW b \in Addrs \ rows, NEW s \in Sessions, NEW m, Put(s, b, m)
        PROVE  Keeps
    <3>1. \A a \in rows : meta'[a] = meta[a]
      BY <2>2 DEF Put, Types
    <3> QED
      BY <3>1
  <2>3. ASSUME NEW s \in Sessions, InsertAgent(s) \/ InsertTarget(s)
        PROVE  Keeps
    <3>1. job[s].addr \in Addrs
      BY <2>3 DEF InsertAgent, InsertTarget, Types
    <3> QED
      BY <2>1, <2>2, <2>3, <3>1 DEF InsertAgent, InsertTarget, table
  <2>4. ASSUME NEW s \in Sessions, WriteMetadata(s)
        PROVE  Keeps
    <3> DEFINE b == job[s].addr
               m == [job[s].copy EXCEPT ![job[s].field] = job[s].value]
    <3>1. /\ job[s].at = "write" /\ Put(s, b, m)
          /\ job[s].field \in {"handle", "alias"} /\ job[s].copy \in Metas
      BY <2>4 DEF WriteMetadata, Types, Jobs
    <3>2. m.alias = job[s].copy.alias \/ m.handle = job[s].copy.handle
      BY <3>1 DEF Metas
    <3> HIDE DEF m
    <3>3. /\ \A a \in rows : meta'[a] = IF a = b THEN m ELSE meta[a]
          /\ job'[s] = NoJob
      BY <3>1 DEF Put, Types
    <3>4. b \in rows /\ job[s].copy # meta[b] => OldCopy(s, b)
      BY <3>1, <3>3 DEF OldCopy
    <3> QED
      BY <3>2, <3>3, <3>4
  <2>5. ASSUME NEW a \in Addrs, NEW x \in Aliases, SetAlias(a, x)
        PROVE  Keeps
    <3>1. meta' = [meta EXCEPT ![a] = [meta[a] EXCEPT !.alias = x]]
      BY <2>5 DEF SetAlias, Types
    <3>2. [meta[a] EXCEPT !.alias = x].handle = meta[a].handle
      BY DEF Types, Metas
    <3>3. \A b \in rows : meta'[b].handle = meta[b].handle
      BY <3>1, <3>2 DEF Types
    <3> QED
      BY <3>3
  <2> QED
    BY <2>1, <2>3, <2>4, <2>5
    DEF Next, RegisterAgent, RegisterXnsHandle, ClaimOwnership, AgentHandshake,
        UpdateAgentMetadata, Begin, CheckHandle, FindTarget, ReadMetadata,
        FindAgent, CheckClaim, SetOwner, RevokeClaims, RecordClaim, BreakOff,
        table
<1> QED
  BY <1>1, DirectoryInvariant, PTL DEF Spec, MergesKeepTheRest

-----------------------------------------------------------------------------
(* Claims.                                                                 *)

ClaimStages == {"agent", "claim"} \cup Claiming

\* A claim names an owner, and is past its first step only if there is a row.
ClaimTypes ==
    /\ owner \in [Addrs -> Owners \cup {None}]
    /\ claims \in [Addrs -> [Owners -> Nat]]
    /\ mixed \subseteq Addrs
    /\ \A s \in Sessions : job[s].at \in ClaimStages => job[s].value \in Owners
    /\ \A s \in Sessions : job[s].at \in ClaimStages \ {"agent"} =>
         job[s].addr \in rows
    /\ \A a \in Addrs \ rows : owner[a] = None /\ \A o \in Owners : claims[a][o] = 0

\* Session s has written the owner of a and not yet its claim.
Writing(s, a) == job[s].at \in {"revoke", "record"} /\ job[s].addr = a
Quiet(a) == \A s \in Sessions : ~Writing(s, a)

Consistent(a) ==
    \/ owner[a] = None /\ ActiveOwners(a) = {}
    \/ ActiveOwners(a) = {owner[a]} /\ claims[a][owner[a]] = 1

\* Of an agent whose claims never overlapped, one session at a time writes the
\* owner and the claims; between two of them they agree, and a claim that has
\* passed its check finds no other owner.
ClaimsOf(a) ==
    a \notin mixed =>
        /\ \A s, t \in Sessions : Writing(s, a) /\ Writing(t, a) => s = t
        /\ \A s \in Sessions : Writing(s, a) =>
             /\ owner[a] = job[s].value
             /\ job[s].at = "record" => \A o \in Owners : claims[a][o] = 0
        /\ Quiet(a) =>
             /\ Consistent(a)
             /\ \A s \in Sessions : job[s].at = "owner" /\ job[s].addr = a =>
                  owner[a] \in {None, job[s].value}

ClaimsInv == ClaimTypes /\ \A a \in Addrs : ClaimsOf(a)

\* t goes on with the same request, as far as a claim is concerned.
SameJob(t) ==
    /\ job'[t].at = job[t].at /\ job'[t].addr = job[t].addr
    /\ job'[t].value = job[t].value

\* A step of s outside the statements of a claim that has passed its check.
Aside(s) ==
    /\ UNCHANGED <<owner, claims, mixed>>
    /\ rows \subseteq rows'
    /\ \A t \in Sessions \ {s} : SameJob(t)
    /\ job[s].at \notin Claiming /\ job'[s].at \notin Claiming
    /\ job'[s].at \in ClaimStages => job'[s].value \in Owners
    /\ job'[s].at = "claim" => job'[s].addr \in rows'

LEMMA AsideKeepsClaims ==
    ASSUME Types, ClaimsInv, NEW s \in Sessions, Aside(s)
    PROVE  ClaimsInv'
<1>1. ASSUME NEW t \in Sessions
      PROVE  /\ job'[t].at \in Claiming => SameJob(t) /\ t # s
             /\ job[t].at \in Claiming => SameJob(t) /\ t # s
             /\ job'[t].at \in ClaimStages =>
                  SameJob(t) \/ job'[t].value \in Owners
  BY DEF Aside, Claiming, ClaimStages
<1>2. ClaimTypes'
  <2>1. \A t \in Sessions : job'[t].at \in ClaimStages => job'[t].value \in Owners
    BY <1>1 DEF ClaimsInv, ClaimTypes, SameJob
  <2>2. \A t \in Sessions : job'[t].at \in ClaimStages \ {"agent"} =>
          job'[t].addr \in rows'
    BY <1>1 DEF ClaimsInv, ClaimTypes, SameJob, Aside, ClaimStages
  <2> QED
    BY <2>1, <2>2 DEF ClaimsInv, ClaimTypes, Aside
<1>3. ASSUME NEW a \in Addrs
      PROVE  ClaimsOf(a)'
  <2>1. \A t \in Sessions : Writing(t, a)' <=> Writing(t, a)
    BY <1>1 DEF Writing, SameJob, Claiming
  <2>2. \A t \in Sessions : Writing(t, a) \/ job'[t].at = "owner" => SameJob(t)
    BY <1>1 DEF Writing, Claiming
  <2>3. Quiet(a)' <=> Quiet(a)
    BY <2>1 DEF Quiet
  <2>4. Consistent(a)' <=> Consistent(a)
    BY DEF Aside, Consistent, ActiveOwners
  <2>5. UNCHANGED <<owner, claims, mixed>> /\ ClaimsOf(a)
    BY DEF Aside, ClaimsInv
  <2> QED
    BY <2>1, <2>2, <2>3, <2>4, <2>5 DEF ClaimsOf, SameJob
<1> QED
  BY <1>2, <1>3 DEF ClaimsInv

LEMMA BeginAside ==
    ASSUME Types, NEW s \in Sessions, NEW a, NEW field, NEW value, NEW sound,
           NEW label \in {"check", "insert", "find", "read", "agent"},
           label = "agent" => value \in Owners,
           Begin(s, label, a, field, value, sound)
    PROVE  Aside(s)
<1> DEFINE new == [at |-> label, addr |-> a, field |-> field, value |-> value,
                   copy |-> Blank, sound |-> sound]
<1>1. /\ \A t \in Sessions : job'[t] = IF t = s THEN new ELSE job[t]
      /\ job[s].at = "idle" /\ UNCHANGED <<table, history>>
  BY DEF Begin, Types
<1>2. new.at = label /\ new.value = value
  OBVIOUS
<1> HIDE DEF new
<1> QED
  BY <1>1, <1>2 DEF Aside, SameJob, ClaimStages, Claiming, table, history

LEMMA DoneAside ==
    ASSUME Types, NEW s \in Sessions, Done(s), job[s].at \notin Claiming,
           UNCHANGED <<rows, owner, claims, mixed>>
    PROVE  Aside(s)
<1>1. \A t \in Sessions : job'[t] = IF t = s THEN NoJob ELSE job[t]
  BY DEF Done, Types
<1>2. NoJob.at = "idle"
  BY DEF NoJob
<1> QED
  BY <1>1, <1>2 DEF Aside, SameJob, ClaimStages, Claiming

\* What Goto leaves of the jobs.
LEMMA GotoJobs ==
    ASSUME Types, NEW s \in Sessions, NEW label, Goto(s, label)
    PROVE  /\ \A t \in Sessions \ {s} : job'[t] = job[t]
           /\ job'[s].at = label /\ job'[s].addr = job[s].addr
           /\ job'[s].value = job[s].value
<1>1. job[s] \in Jobs
  BY DEF Types
<1> DEFINE new == [job[s] EXCEPT !.at = label]
<1>2. new.at = label /\ new.addr = job[s].addr /\ new.value = job[s].value
  BY <1>1 DEF Jobs
<1>3. job' = [job EXCEPT ![s] = new]
  BY DEF Goto
<1> HIDE DEF new
<1> QED
  BY <1>2, <1>3 DEF Types

LEMMA GotoAside ==
    ASSUME Types, NEW s \in Sessions,
           NEW label \in {"insert", "read", "bare"}, Goto(s, label),
           job[s].at \notin Claiming, UNCHANGED <<rows, owner, claims, mixed>>
    PROVE  Aside(s)
BY GotoJobs DEF Aside, SameJob, ClaimStages, Claiming

LEMMA PutAside ==
    ASSUME Types, NEW s \in Sessions, NEW a \in Addrs, NEW m \in Metas,
           Put(s, a, m), job[s].at \notin Claiming
    PROVE  Aside(s)
<1>1. NoJob.at = "idle"
  BY DEF NoJob
<1>2. /\ UNCHANGED <<owner, claims, mixed>>
      /\ rows \subseteq rows'
  BY DEF Put
<1> QED
  BY <1>1, <1>2, PutJobs DEF Aside, SameJob, ClaimStages, Claiming

\* The handlers that are not claims, and a claim up to its check.
LEMMA OthersKeepClaims ==
    ASSUME Types, ClaimsInv, Next,
           \A s \in Sessions : ~ (\/ CheckClaim(s) \/ SetOwner(s)
                                  \/ RevokeClaims(s) \/ RecordClaim(s)
                                  \/ BreakOff(s))
    PROVE  ClaimsInv'
<1>1. ASSUME NEW s \in Sessions, NEW a \in Addrs,
             \/ \E h \in Handles \cup {None} : RegisterAgent(s, a, h)
             \/ \E h \in Handles : RegisterXnsHandle(s, a, h)
             \/ \E o \in Owners : ClaimOwnership(s, a, o)
             \/ AgentHandshake(s, a) \/ UpdateAgentMetadata(s, a)
      PROVE  Aside(s)
  BY <1>1, BeginAside DEF RegisterAgent, RegisterXnsHandle, ClaimOwnership,
                          AgentHandshake, UpdateAgentMetadata
<1>2. ASSUME NEW s \in Sessions, CheckHandle(s) \/ FindTarget(s)
      PROVE  Aside(s)
  <2>1. /\ job[s].at \in {"check", "find"}
        /\ UNCHANGED <<rows, owner, claims, mixed>>
        /\ Done(s) \/ \E l \in {"insert", "read", "bare"} : Goto(s, l)
    BY <1>2 DEF CheckHandle, FindTarget, table, history
  <2> QED
    BY <2>1, DoneAside, GotoAside DEF Claiming
<1>3. ASSUME NEW s \in Sessions,
             InsertAgent(s) \/ InsertTarget(s) \/ WriteMetadata(s)
      PROVE  Aside(s)
  <2>1. /\ job[s].at \in {"insert", "bare", "write"} /\ job[s].addr \in Addrs
        /\ job[s].at \notin Claiming
    BY <1>3 DEF InsertAgent, InsertTarget, WriteMetadata, Claiming, Types
  <2>2. \A x \in Aliases \cup {None} :
          job[s].at = "insert" => [alias |-> x, handle |-> job[s].value] \in Metas
    BY DEF Types, Metas
  <2>3. \/ Done(s) /\ UNCHANGED <<rows, owner, claims, mixed>>
        \/ \E m \in Metas : Put(s, job[s].addr, m)
    BY <1>3, <2>2, NoJobType, WriteType
    DEF InsertAgent, InsertTarget, WriteMetadata, table
  <2> QED
    BY <2>1, <2>3, DoneAside, PutAside
<1>4. ASSUME NEW s \in Sessions, ReadMetadata(s)
      PROVE  Aside(s)
  <2>1. /\ job[s].at = "read" /\ UNCHANGED <<rows, owner, claims, mixed>>
        /\ job[s] \in Jobs
    BY <1>4 DEF ReadMetadata, table, history, Types
  <2>2. CASE Done(s)
    BY <2>1, <2>2, DoneAside DEF Claiming
  <2>3. CASE job' = [job EXCEPT ![s].at = "write", ![s].copy = meta[job[s].addr]]
    <3> DEFINE new == [job[s] EXCEPT !.at = "write", !.copy = meta[job[s].addr]]
    <3>1. new.at = "write"
      BY <2>1 DEF Jobs
    <3>2. job' = [job EXCEPT ![s] = new]
      BY <2>3 DEF Types
    <3> HIDE DEF new
    <3>3. \A t \in Sessions : job'[t] = IF t = s THEN new ELSE job[t]
      BY <3>2 DEF Types
    <3> QED
      BY <2>1, <3>1, <3>3 DEF Aside, SameJob, ClaimStages, Claiming
  <2> QED
    BY <1>4, <2>2, <2>3 DEF ReadMetadata
<1>5. ASSUME NEW s \in Sessions, FindAgent(s)
      PROVE  Aside(s)
  <2>1. /\ job[s].at = "agent" /\ UNCHANGED <<rows, owner, claims, mixed>>
        /\ job[s].value \in Owners
        /\ Done(s) \/ (Goto(s, "claim") /\ job[s].addr \in rows)
    BY <1>5 DEF FindAgent, table, history, ClaimsInv, ClaimTypes, ClaimStages
  <2>2. CASE Goto(s, "claim") /\ job[s].addr \in rows
    BY <2>1, <2>2, GotoJobs DEF Aside, SameJob, Claiming
  <2> QED
    BY <2>1, <2>2, DoneAside DEF Claiming
<1>6. ASSUME NEW a \in Addrs, NEW x \in Aliases, SetAlias(a, x)
      PROVE  ClaimsInv'
  <2>1. UNCHANGED <<rows, owner, claims, mixed, job>>
    BY <1>6 DEF SetAlias, history
  <2> QED
    BY <2>1 DEF ClaimsInv, ClaimTypes, ClaimsOf, Writing, Quiet, Consistent,
                ActiveOwners
<1> QED
  BY <1>1, <1>2, <1>3, <1>4, <1>5, <1>6, AsideKeepsClaims DEF Next

\* A step of a claim of one agent leaves every other agent's alone.
ClaimStep(s) ==
    /\ job[s].at \in ClaimStages
    /\ rows' = rows
    /\ \A t \in Sessions \ {s} : job'[t] = job[t]
    /\ \/ job'[s].at = "idle"
       \/ job'[s].addr = job[s].addr /\ job'[s].value = job[s].value
    /\ owner' \in [Addrs -> Owners \cup {None}]
    /\ claims' \in [Addrs -> [Owners -> Nat]]
    /\ mixed \subseteq mixed' /\ mixed' \subseteq Addrs
    /\ \A a \in Addrs \ {job[s].addr} :
         owner'[a] = owner[a] /\ claims'[a] = claims[a]

LEMMA ClaimStepKeeps ==
    ASSUME Types, ClaimsInv, NEW s \in Sessions, ClaimStep(s),
           NEW b \in rows, b = job[s].addr, ClaimsOf(b)'
    PROVE  ClaimsInv'
<1>1. ClaimTypes'
  <2>1. \A t \in Sessions : job'[t].at \in ClaimStages =>
          /\ job'[t].value \in Owners
          /\ job'[t].at # "agent" => job'[t].addr \in rows'
    <3>1. \A t \in Sessions \ {s} : job'[t] = job[t] /\ rows' = rows
      BY DEF ClaimStep
    <3>2. job'[s].at \in ClaimStages =>
            job'[s].value \in Owners /\ job'[s].addr \in rows'
      BY DEF ClaimStep, ClaimsInv, ClaimTypes, ClaimStages, Claiming
    <3> QED
      BY <3>1, <3>2 DEF ClaimsInv, ClaimTypes
  <2>2. \A a \in Addrs \ rows' :
          owner'[a] = None /\ \A o \in Owners : claims'[a][o] = 0
    BY DEF ClaimStep, ClaimsInv, ClaimTypes
  <2> QED
    BY <2>1, <2>2 DEF ClaimTypes, ClaimStep
<1>2. ASSUME NEW a \in Addrs, a # job[s].addr
      PROVE  ClaimsOf(a)'
  <2>1. \A t \in Sessions : Writing(t, a)' <=> Writing(t, a)
    BY <1>2 DEF ClaimStep, Writing
  <2>2. \A t \in Sessions : Writing(t, a) => t # s
    BY <1>2 DEF Writing
  <2>3. Quiet(a)' <=> Quiet(a)
    BY <2>1 DEF Quiet
  <2>4. owner'[a] = owner[a] /\ claims'[a] = claims[a]
    BY <1>2 DEF ClaimStep
  <2>5. Consistent(a)' <=> Consistent(a)
    BY <2>4 DEF Consistent, ActiveOwners
  <2>6. \A t \in Sessions : job'[t].at = "owner" /\ job'[t].addr = a => t # s
    BY <1>2 DEF ClaimStep
  <2>7. /\ ClaimsOf(a) /\ (a \in mixed => a \in mixed')
        /\ \A t \in Sessions \ {s} : job'[t] = job[t]
    BY DEF ClaimStep, ClaimsInv
  <2> QED
    BY <2>1, <2>2, <2>3, <2>4, <2>5, <2>6, <2>7 DEF ClaimsOf
<1> QED
  BY <1>1, <1>2 DEF ClaimsInv, Types

\* The check of a claim finds no other owner.
LEMMA CheckKeepsClaims ==
    ASSUME Types, ClaimsInv, NEW s \in Sessions, CheckClaim(s)
    PROVE  ClaimsInv'
<1> PICK b : b = job[s].addr
  OBVIOUS
<1>1. /\ job[s].at = "claim" /\ b \in rows /\ b \in Addrs
      /\ job[s].value \in Owners
      /\ UNCHANGED <<rows, owner, claims, mixed>>
  BY DEF CheckClaim, table, history, ClaimsInv, ClaimTypes, ClaimStages, Types
<1>2. CASE Done(s)
  BY <1>1, <1>2, DoneAside, AsideKeepsClaims DEF Claiming
<1>3. CASE /\ ActiveOwners(b) = {} \/ job[s].value \in ActiveOwners(b)
           /\ Goto(s, "owner")
  <2>1. /\ \A t \in Sessions \ {s} : job'[t] = job[t]
        /\ job'[s].at = "owner" /\ job'[s].addr = b
        /\ job'[s].value = job[s].value
    BY <1>3, GotoJobs
  <2>2. ClaimStep(s)
    BY <1>1, <2>1 DEF ClaimStep, ClaimStages, ClaimsInv, ClaimTypes
  <2>3. ClaimsOf(b)'
    <3>1. \A t \in Sessions : Writing(t, b)' <=> Writing(t, b)
      BY <1>1, <2>1 DEF Writing
    <3>2. \A t \in Sessions : Writing(t, b) => t # s
      BY <1>1 DEF Writing
    <3>3. Quiet(b)' <=> Quiet(b)
      BY <3>1 DEF Quiet
    <3>4. Consistent(b)' <=> Consistent(b)
      BY <1>1 DEF Consistent, ActiveOwners
    <3>5. Consistent(b) => owner[b] \in {None, job[s].value}
      BY <1>3 DEF Consistent
    <3>6. ClaimsOf(b)
      BY <1>1 DEF ClaimsInv
    <3> QED
      BY <1>1, <2>1, <3>1, <3>2, <3>3, <3>4, <3>5, <3>6 DEF ClaimsOf
  <2> QED
    BY <1>1, <2>2, <2>3, ClaimStepKeeps
<1> QED
  BY <1>2, <1>3 DEF CheckClaim

\* A claim that writes alone leaves no other session past the check.
LEMMA Alone ==
    ASSUME NEW s \in Sessions, mixed' = Mixing(s),
           job[s].addr \notin mixed'
    PROVE  /\ ClaimsOn(job[s].addr) = {s}
           /\ mixed' = mixed
           /\ \A t \in Sessions : job[t].at \in Claiming
                                  /\ job[t].addr = job[s].addr => t = s
<1>1. ClaimsOn(job[s].addr) = {s}
  BY DEF Mixing
<1> QED
  BY <1>1 DEF Mixing, ClaimsOn

\* What the steps past the check have in common: either claims have mixed, or
\* s is the only session that writes.
LEMMA WriterAlone ==
    ASSUME Types, NEW s \in Sessions, NEW b, b = job[s].addr,
           job[s].at \in Claiming, mixed' = Mixing(s), b \notin mixed',
           \A t \in Sessions \ {s} : job'[t] = job[t]
    PROVE  /\ b \notin mixed
           /\ \A t \in Sessions : Writing(t, b) => t = s
           /\ \A t \in Sessions : Writing(t, b)' => t = s
           /\ \A t \in Sessions : job'[t].at = "owner" /\ job'[t].addr = b => t = s
<1>1. /\ b \notin mixed
      /\ \A t \in Sessions : job[t].at \in Claiming /\ job[t].addr = b => t = s
  BY Alone
<1>2. \A t \in Sessions : Writing(t, b)' /\ t # s => Writing(t, b)
  BY DEF Writing
<1> QED
  BY <1>1, <1>2 DEF Writing, Claiming

LEMMA SetOwnerKeepsClaims ==
    ASSUME Types, ClaimsInv, NEW s \in Sessions, SetOwner(s)
    PROVE  ClaimsInv'
<1> PICK b : b = job[s].addr
  OBVIOUS
<1>1. /\ job[s].at = "owner" /\ b \in rows /\ b \in Addrs
      /\ job[s].value \in Owners
      /\ owner' = [owner EXCEPT ![b] = job[s].value]
      /\ UNCHANGED <<rows, claims>>
      /\ mixed' = Mixing(s) /\ Goto(s, "revoke")
  BY DEF SetOwner, ClaimsInv, ClaimTypes, ClaimStages, Claiming, Types
<1>2. /\ \A t \in Sessions \ {s} : job'[t] = job[t]
      /\ job'[s].at = "revoke" /\ job'[s].addr = b
      /\ job'[s].value = job[s].value
  BY <1>1, GotoJobs
<1>3. ClaimStep(s)
  BY <1>1, <1>2
  DEF ClaimStep, ClaimStages, Claiming, ClaimsInv, ClaimTypes, Mixing
<1>4. ClaimsOf(b)'
  <2> SUFFICES ASSUME b \notin mixed'
               PROVE  ClaimsOf(b)'
    BY DEF ClaimsOf
  <2>1. \A t \in Sessions : Writing(t, b)' <=> t = s
    BY <1>1, <1>2, WriterAlone DEF Claiming, Writing
  <2>2. owner'[b] = job'[s].value
    BY <1>1, <1>2 DEF ClaimsInv, ClaimTypes
  <2>3. ~Quiet(b)'
    BY <2>1 DEF Quiet
  <2> QED
    BY <1>2, <2>1, <2>2, <2>3 DEF ClaimsOf
<1> QED
  BY <1>1, <1>3, <1>4, ClaimStepKeeps

LEMMA RevokeKeepsClaims ==
    ASSUME Types, ClaimsInv, NEW s \in Sessions, RevokeClaims(s)
    PROVE  ClaimsInv'
<1> PICK b : b = job[s].addr
  OBVIOUS
<1>1. /\ job[s].at = "revoke" /\ b \in rows /\ b \in Addrs
      /\ claims' = [claims EXCEPT ![b] = [o \in Owners |-> 0]]
      /\ UNCHANGED <<rows, owner>>
      /\ mixed' = Mixing(s) /\ Goto(s, "record")
  BY DEF RevokeClaims, ClaimsInv, ClaimTypes, ClaimStages, Claiming, Types
<1>2. /\ \A t \in Sessions \ {s} : job'[t] = job[t]
      /\ job'[s].at = "record" /\ job'[s].addr = b
      /\ job'[s].value = job[s].value
  BY <1>1, GotoJobs
<1>3. ClaimStep(s)
  BY <1>1, <1>2
  DEF ClaimStep, ClaimStages, Claiming, ClaimsInv, ClaimTypes, Mixing
<1>4. ClaimsOf(b)'
  <2> SUFFICES ASSUME b \notin mixed'
               PROVE  ClaimsOf(b)'
    BY DEF ClaimsOf
  <2>1. b \notin mixed /\ \A t \in Sessions : Writing(t, b)' <=> t = s
    BY <1>1, <1>2, WriterAlone DEF Claiming, Writing
  <2>2. owner[b] = job[s].value
    BY <1>1, <2>1 DEF ClaimsInv, ClaimsOf, Writing
  <2>3. \A o \in Owners : claims'[b][o] = 0
    BY <1>1 DEF ClaimsInv, ClaimTypes
  <2>4. ~Quiet(b)'
    BY <2>1 DEF Quiet
  <2> QED
    BY <1>1, <1>2, <2>1, <2>2, <2>3, <2>4 DEF ClaimsOf
<1> QED
  BY <1>1, <1>3, <1>4, ClaimStepKeeps

LEMMA RecordKeepsClaims ==
    ASSUME Types, ClaimsInv, NEW s \in Sessions, RecordClaim(s)
    PROVE  ClaimsInv'
<1> PICK b : b = job[s].addr
  OBVIOUS
<1> PICK w : w = job[s].value
  OBVIOUS
<1>1. /\ job[s].at = "record" /\ b \in rows /\ b \in Addrs /\ w \in Owners
      /\ claims' = [claims EXCEPT ![b][w] = @ + 1]
      /\ UNCHANGED <<rows, owner>>
      /\ mixed' = Mixing(s) /\ Done(s)
  BY DEF RecordClaim, ClaimsInv, ClaimTypes, ClaimStages, Claiming, Types
<1>2. /\ \A t \in Sessions \ {s} : job'[t] = job[t]
      /\ job'[s].at = "idle"
  BY <1>1 DEF Done, NoJob, Types
<1>3. /\ claims' \in [Addrs -> [Owners -> Nat]]
      /\ \A a \in Addrs \ {b} : claims'[a] = claims[a]
      /\ \A o \in Owners :
           claims'[b][o] = IF o = w THEN claims[b][o] + 1 ELSE claims[b][o]
  <2> DEFINE new == [claims[b] EXCEPT ![w] = @ + 1]
  <2>1. claims[b] \in [Owners -> Nat] /\ claims \in [Addrs -> [Owners -> Nat]]
    BY <1>1 DEF ClaimsInv, ClaimTypes
  <2>2. /\ new \in [Owners -> Nat]
        /\ \A o \in Owners :
             new[o] = IF o = w THEN claims[b][o] + 1 ELSE claims[b][o]
    BY <1>1, <2>1
  <2>3. claims' = [claims EXCEPT ![b] = new]
    BY <1>1
  <2> HIDE DEF new
  <2> QED
    BY <1>1, <2>1, <2>2, <2>3
<1>4. ClaimStep(s)
  BY <1>1, <1>2, <1>3
  DEF ClaimStep, ClaimStages, Claiming, ClaimsInv, ClaimTypes, Mixing
<1>5. ClaimsOf(b)'
  <2> SUFFICES ASSUME b \notin mixed'
               PROVE  ClaimsOf(b)'
    BY DEF ClaimsOf
  <2>1. /\ b \notin mixed
        /\ \A t \in Sessions : Writing(t, b)' => t = s
        /\ \A t \in Sessions : job'[t].at = "owner" /\ job'[t].addr = b => t = s
    BY <1>1, <1>2, WriterAlone DEF Claiming
  <2>2. \A t \in Sessions : ~Writing(t, b)' /\ ~(job'[t].at = "owner" /\ job'[t].addr = b)
    BY <1>2, <2>1 DEF Writing
  <2>3. owner[b] = w /\ \A o \in Owners : claims[b][o] = 0
    BY <1>1, <2>1 DEF ClaimsInv, ClaimsOf, Writing
  <2>4. \A o \in Owners : claims'[b][o] = IF o = w THEN 1 ELSE 0
    BY <1>3, <2>3
  <2>5. Consistent(b)'
    BY <1>1, <2>3, <2>4 DEF Consistent, ActiveOwners
  <2> QED
    BY <2>2, <2>5 DEF ClaimsOf
<1> QED
  BY <1>1, <1>4, <1>5, ClaimStepKeeps

\* A claim that breaks off has mixed what it wrote, if it wrote anything.
LEMMA BreakOffKeepsClaims ==
    ASSUME Types, ClaimsInv, NEW s \in Sessions, BreakOff(s)
    PROVE  ClaimsInv'
<1> PICK b : b = job[s].addr
  OBVIOUS
<1>1. /\ Done(s) /\ UNCHANGED <<rows, owner, claims>>
      /\ job[s].at # "idle" /\ b \in Addrs
  BY DEF BreakOff, table, Types
<1>2. /\ \A t \in Sessions \ {s} : job'[t] = job[t]
      /\ job'[s].at = "idle"
  BY <1>1 DEF Done, NoJob, Types
<1>3. CASE job[s].at \notin Claiming
  <2>1. mixed' = mixed
    BY <1>3 DEF BreakOff, Claiming
  <2> QED
    BY <1>1, <1>3, <2>1, DoneAside, AsideKeepsClaims
<1>4. CASE job[s].at \in Claiming
  <2>1. ClaimStep(s) /\ b \in rows
    BY <1>1, <1>2, <1>4
    DEF BreakOff, ClaimStep, ClaimStages, Claiming, ClaimsInv, ClaimTypes
  <2>2. ClaimsOf(b)'
    <3>1. CASE job[s].at # "owner"
      BY <1>4, <3>1 DEF BreakOff, Claiming, ClaimsOf
    <3>2. CASE job[s].at = "owner"
      <4>1. \A t \in Sessions : Writing(t, b)' <=> Writing(t, b)
        BY <1>2, <3>2 DEF Writing
      <4>2. \A t \in Sessions : Writing(t, b) \/ job'[t].at = "owner" => job'[t] = job[t]
        BY <1>2, <3>2 DEF Writing
      <4>3. Quiet(b)' <=> Quiet(b)
        BY <4>1 DEF Quiet
      <4>4. (Consistent(b)' <=> Consistent(b)) /\ ClaimsOf(b) /\ mixed' = mixed
        BY <1>1, <3>2 DEF Consistent, ActiveOwners, ClaimsInv, BreakOff
      <4> QED
        BY <1>1, <4>1, <4>2, <4>3, <4>4 DEF ClaimsOf
    <3> QED
      BY <3>1, <3>2
  <2> QED
    BY <2>1, <2>2, ClaimStepKeeps
<1> QED
  BY <1>3, <1>4

LEMMA ClaimsInvariant == Spec => [](Types /\ ClaimsInv)
<1>1. Init => ClaimsInv
  <2> SUFFICES ASSUME Init PROVE ClaimsInv
    OBVIOUS
  <2>1. /\ \A s \in Sessions : job[s].at = "idle"
        /\ owner = [a \in Addrs |-> None]
        /\ claims = [a \in Addrs |-> [o \in Owners |-> 0]]
        /\ mixed = {}
    BY DEF Init, NoJob
  <2>2. ClaimTypes
    BY <2>1 DEF ClaimTypes, ClaimStages, Claiming
  <2> QED
    BY <2>1, <2>2
    DEF ClaimsInv, ClaimsOf, Writing, Consistent, ActiveOwners
<1>2. Types /\ ClaimsInv /\ [Next]_vars => ClaimsInv'
  <2> SUFFICES ASSUME Types, ClaimsInv, [Next]_vars PROVE ClaimsInv'
    OBVIOUS
  <2>1. CASE UNCHANGED vars
    BY <2>1 DEF vars, ClaimsInv, ClaimTypes, ClaimsOf, Writing, Quiet,
                Consistent, ActiveOwners
  <2> QED
    BY <2>1, OthersKeepClaims, CheckKeepsClaims, SetOwnerKeepsClaims,
       RevokeKeepsClaims, RecordKeepsClaims, BreakOffKeepsClaims
<1> QED
  BY <1>1, <1>2, DirectoryInvariant, PTL DEF Spec

\* Between claims, the owner of an agent is the owner of its one active claim,
\* unless claims overlapped or broke off halfway.
THEOREM ClaimsMatchOwners == Spec => []ClaimsAgree
<1>1. ClaimsInv => ClaimsAgree
  <2> SUFFICES ASSUME ClaimsInv, NEW a \in Addrs \ mixed, ClaimsOn(a) = {}
               PROVE  Consistent(a)
    BY DEF ClaimsAgree, Consistent
  <2>1. Quiet(a)
    BY DEF ClaimsOn, Quiet, Writing, Claiming
  <2> QED
    BY <2>1 DEF ClaimsInv, ClaimsOf
<1> QED
  BY <1>1, ClaimsInvariant, PTL

\* No claim takes over an agent that has an owner, unless claims overlapped or
\* broke off halfway (main.rs:2932).
THEOREM NoTakeover == Spec => OwnersStay
<1> DEFINE Stays == \A a \in Addrs : owner[a] \in {None, owner'[a]} \/ a \in mixed'
<1>1. Types /\ ClaimsInv /\ [Next]_vars => [Stays]_vars
  <2> SUFFICES ASSUME Types, ClaimsInv, Next
               PROVE  Stays
    BY DEF vars
  <2>1. CASE UNCHANGED owner
    BY <2>1
  <2>2. ASSUME NEW s \in Sessions, SetOwner(s)
        PROVE  Stays
    <3> PICK b : b = job[s].addr
      OBVIOUS
    <3>1. /\ job[s].at = "owner" /\ b \in Addrs
          /\ owner' = [owner EXCEPT ![b] = job[s].value]
          /\ mixed' = Mixing(s) /\ Goto(s, "revoke")
      BY <2>2 DEF SetOwner, Types
    <3>2. \A a \in Addrs : owner'[a] = IF a = b THEN job[s].value ELSE owner[a]
      BY <3>1 DEF ClaimsInv, ClaimTypes
    <3>3. ASSUME b \notin mixed'
          PROVE  owner[b] \in {None, job[s].value}
      <4>1. \A t \in Sessions \ {s} : job'[t] = job[t]
        BY <3>1, GotoJobs
      <4>2. b \notin mixed /\ \A t \in Sessions : Writing(t, b) => t = s
        BY <3>1, <3>3, <4>1, WriterAlone DEF Claiming
      <4>3. Quiet(b)
        BY <3>1, <4>2 DEF Quiet, Writing
      <4> QED
        BY <3>1, <4>2, <4>3 DEF ClaimsInv, ClaimsOf
    <3> QED
      BY <3>2, <3>3
  <2> QED
    BY <2>1, <2>2
    DEF Next, RegisterAgent, RegisterXnsHandle, ClaimOwnership, AgentHandshake,
        UpdateAgentMetadata, Begin, CheckHandle, InsertAgent, FindTarget,
        InsertTarget, ReadMetadata, WriteMetadata, SetAlias, Put,
        FindAgent, CheckClaim, RevokeClaims, RecordClaim, BreakOff, table
<1> QED
  BY <1>1, ClaimsInvariant, PTL DEF Spec, OwnersStay

-----------------------------------------------------------------------------
(* The type invariant of the runs.                                         *)

Rest ==
    /\ loose \subseteq Handles
    /\ \A a \in Addrs \ rows : meta[a] = Blank

LEMMA PutRest ==
    ASSUME Types, Rest, NEW s, NEW a \in Addrs, NEW m \in Metas, Put(s, a, m)
    PROVE  Rest'
<1>1. m.handle \in Handles \cup {None}
  BY DEF Metas
<1> QED
  BY <1>1 DEF Put, Rest, Types

LEMMA RestStep ==
    ASSUME Types, Rest, Next
    PROVE  Rest'
<1>1. ASSUME UNCHANGED <<rows, meta, loose>>
      PROVE  Rest'
  BY <1>1 DEF Rest
<1>2. ASSUME NEW s \in Sessions,
             InsertAgent(s) \/ InsertTarget(s) \/ WriteMetadata(s)
      PROVE  Rest'
  <2>1. /\ job[s].addr \in Addrs
        /\ \A x \in Aliases \cup {None} :
             job[s].at = "insert" => [alias |-> x, handle |-> job[s].value] \in Metas
    BY <1>2 DEF InsertAgent, InsertTarget, WriteMetadata, Types, Metas
  <2>2. \/ UNCHANGED <<rows, meta, loose>>
        \/ \E m \in Metas : Put(s, job[s].addr, m)
    BY <1>2, <2>1, NoJobType, WriteType
    DEF InsertAgent, InsertTarget, WriteMetadata, table
  <2> QED
    BY <1>1, <2>1, <2>2, PutRest
<1>3. ASSUME NEW a \in Addrs, NEW x \in Aliases, SetAlias(a, x)
      PROVE  Rest'
  BY <1>3 DEF SetAlias, Rest, Types, history
<1> QED
  BY <1>1, <1>2, <1>3
  DEF Next, RegisterAgent, RegisterXnsHandle, ClaimOwnership, AgentHandshake,
      UpdateAgentMetadata, Begin, CheckHandle, FindTarget, ReadMetadata,
      FindAgent, CheckClaim, SetOwner, RevokeClaims, RecordClaim, BreakOff,
      table, history

\* The variables keep their types, and only agents with a row have metadata,
\* an owner or a claim.
THEOREM DirectoryTypes == Spec => []TypeOK
<1>1. Init => Rest
  BY DEF Init, Rest
<1>2. Types /\ Rest /\ [Next]_vars => Rest'
  BY RestStep DEF Rest, vars
<1>3. Types /\ ClaimsInv /\ Rest => TypeOK
  BY DEF Types, ClaimsInv, ClaimTypes, Rest, TypeOK, ActiveOwners
<1> QED
  BY <1>1, <1>2, <1>3, ClaimsInvariant, PTL DEF Spec
=============================================================================
