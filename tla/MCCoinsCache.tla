---------------------------- MODULE MCCoinsCache ----------------------------
(* A small instance of CoinsCache: two branches of two blocks that create   *)
(* and spend three transactions' coins at different times.                  *)
EXTENDS CoinsCache, TLC

CONSTANTS g, a1, a2, b1, b2, x1, x2, x3, u, v

MCBlock == {g, a1, a2, b1, b2}
MCParent == (a1 :> g) @@ (a2 :> a1) @@ (b1 :> g) @@ (b2 :> b1)
MCHeight == (g :> 0) @@ (a1 :> 1) @@ (a2 :> 2) @@ (b1 :> 1) @@ (b2 :> 2)
MCWork == (g :> 1) @@ (a1 :> 2) @@ (a2 :> 3) @@ (b1 :> 2) @@ (b2 :> 3)

\* a1 creates x1, a2 spends its last output and creates x2; b1 creates x2 and
\* b2 spends a part of it.  x3 is there at genesis, a2 and b1 spend it.
MCCoinsAt ==
    (g :> (x1 :> Pruned @@ x2 :> Pruned @@ x3 :> v))
        @@ (a1 :> (x1 :> u @@ x2 :> Pruned @@ x3 :> v))
        @@ (a2 :> (x1 :> Pruned @@ x2 :> v @@ x3 :> Pruned))
        @@ (b1 :> (x1 :> Pruned @@ x2 :> u @@ x3 :> Pruned))
        @@ (b2 :> (x1 :> Pruned @@ x2 :> v @@ x3 :> Pruned))
=============================================================================
