----------------------------- MODULE MCTrustApi -----------------------------
(***************************************************************************)
(* The Python API for TLC: a guest and a signed-in user, the guest's seed  *)
(* and one other agent, the seed's handle and a short one.                 *)
(***************************************************************************)
EXTENDS TrustApi, TLC

CONSTANTS guest, user, seed, agent, xibalba, short

MCSeedOwner == seed :> guest
MCSeedHandle == seed :> xibalba
MCSeedTier == seed :> 3
MCSeedScore == seed :> 1000
MCSeedRank == seed :> 1
MCLoans == {3, -7}
MCDeposits == {3, -7}
MCPrice == xibalba :> 1 @@ short :> 5
=============================================================================
