-------------------------- MODULE MCGatewaySession --------------------------
(***************************************************************************)
(* One session that overflows its buffer; two that compete for a thread;   *)
(* one and a Worker that may say nothing.                                  *)
(***************************************************************************)
EXTENDS GatewaySession, TLC

CONSTANTS s1, s2

MCScenarios ==
    {[pool_size |-> 2, silent |-> FALSE, max_deltas |-> s1 :> 3],
     [pool_size |-> 1, silent |-> FALSE, max_deltas |-> s1 :> 0 @@ s2 :> 0],
     [pool_size |-> 2, silent |-> TRUE, max_deltas |-> s1 :> 2]}

====
