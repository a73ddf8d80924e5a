---------------------------- MODULE MCTelemetry ----------------------------
(***************************************************************************)
(* A small instance of TelemetryPipeline: two bodies of one agent with one *)
(* hash and different scores, a body of an agent known only by a uuid, and *)
(* a body with a value its column cannot hold.                             *)
(***************************************************************************)
EXTENDS TelemetryPipeline, TLC

CONSTANTS first, retry, other, huge, forged, \* bodies
          k1, k2, k3, k4,            \* their hashes
          alice, ghost, mock         \* the agents

Restricted(f) == [s \in Submissions |-> f[s]]

MCHashOf ==
    Restricted(first :> k1 @@ retry :> k1 @@ other :> k2 @@ huge :> k3 @@ forged :> k4)

MCAgentOf ==
    Restricted(first :> alice @@ retry :> alice @@ other :> ghost @@ huge :> ghost
               @@ forged :> alice)

MCAisOf ==
    Restricted(first :> 600 @@ retry :> 450 @@ other :> 850 @@ huge :> 300 @@ forged :> 1000)

MCBids == alice :> 1 @@ mock :> 0
=============================================================================
