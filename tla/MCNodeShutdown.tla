--------------------------- MODULE MCNodeShutdown ---------------------------
(* One service thread with two tasks, two HTTP workers, a queue of one.     *)
EXTENDS NodeShutdown, TLC

CONSTANTS s1, k1, k2, w1, w2

MCPeriod == (k1 :> 1) @@ (k2 :> 2)
=============================================================================
