-------------------------- MODULE MCChainRecovery --------------------------
(***************************************************************************)
(* Two branches of two blocks on genesis.  a1 and b1 hold the same         *)
(* transaction, a2 spends its output, and b2, the heaviest block, spends   *)
(* one of genesis.                                                         *)
(***************************************************************************)
EXTENDS ChainRecovery

CONSTANTS g, a1, a2, b1, b2, og, o1, o2, o3

MCBlock == {g, a1, a2, b1, b2}
MCParent == (a1 :> g) @@ (a2 :> a1) @@ (b1 :> g) @@ (b2 :> b1)
MCHeight == (g :> 0) @@ (a1 :> 1) @@ (a2 :> 2) @@ (b1 :> 1) @@ (b2 :> 2)
MCChainWork == (g :> 1) @@ (a1 :> 2) @@ (a2 :> 4) @@ (b1 :> 2) @@ (b2 :> 5)
MCOutput == {og, o1, o2, o3}
MCCreates == (g :> {og}) @@ (a1 :> {o1}) @@ (a2 :> {o2}) @@ (b1 :> {o1}) @@ (b2 :> {o3})
MCSpends == (g :> {}) @@ (a1 :> {}) @@ (a2 :> {o1}) @@ (b1 :> {}) @@ (b2 :> {og})
=============================================================================
