----------------------------- MODULE MCCondition -----------------------------
(* Condition on three threads, one of them of a higher priority.           *)
EXTENDS Condition, TLC

CONSTANTS t1, t2, t3

MCPrio == t1 :> 1 @@ t2 :> 1 @@ t3 :> 2
=============================================================================
