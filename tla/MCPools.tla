------------------------------ MODULE MCPools -------------------------------
(***************************************************************************)
(* Pools for TLC: the user's pools 0 and 1, of which 1 always answers, and *)
(* the donation pool 2.  Pool 0 also sends jobs that pause the miner.      *)
(***************************************************************************)
EXTENDS Pools, TLC

MCReliable == {1}
MCSends == 0 :> {"a", "block"} @@ 1 :> {"b"} @@ 2 :> {"fee"}
=============================================================================
