------------------------------ MODULE MCTxPool ------------------------------
(* Two branches; one key image is spent on both and again further down one  *)
(* of them, another on one branch only.  Two more transactions, in no       *)
(* block, spend the same key image: one an output of t1, one with t1 as a   *)
(* decoy.                                                                   *)
EXTENDS TxPool, TLC

CONSTANTS g, a1, a2, b1, b2, k1, k2, k3, t1, t2, t3, t4, c, d

MCBlock == {g, a1, a2, b1, b2}
MCParent == (a1 :> g) @@ (a2 :> a1) @@ (b1 :> g) @@ (b2 :> b1)
MCHeight == (g :> 0) @@ (a1 :> 1) @@ (a2 :> 2) @@ (b1 :> 1) @@ (b2 :> 2)
MCWork == (g :> 1) @@ (a1 :> 2) @@ (a2 :> 3) @@ (b1 :> 2) @@ (b2 :> 3)

MCTxs == (g :> {}) @@ (a1 :> {t1}) @@ (a2 :> {t4}) @@ (b1 :> {t2}) @@ (b2 :> {t3})
MCImages == (t1 :> {k1}) @@ (t2 :> {k2}) @@ (t3 :> {k1}) @@ (t4 :> {k1, k2}) @@ (c :> {k3}) @@ (d :> {k3})
MCSpends == [b \in MCBlock |-> UNION {MCImages[t] : t \in MCTxs[b]}]
MCRing == (t1 :> {}) @@ (t2 :> {}) @@ (t3 :> {t2}) @@ (t4 :> {}) @@ (c :> {t1}) @@ (d :> {t1})
MCPrevout == (t1 :> Old) @@ (t2 :> Old) @@ (t3 :> Old) @@ (t4 :> Old) @@ (c :> t1) @@ (d :> Old)
=============================================================================
