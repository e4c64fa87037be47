--------------------------- MODULE MCBlockDownload ---------------------------
(* A small instance of BlockDownload: the tip is on a branch of one block;  *)
(* of a longer branch the index has the first two blocks, stored but for    *)
(* the first one or not at all, and has not heard of the third.             *)
EXTENDS BlockDownload, TLC

CONSTANTS g, a1, a2, a3, b1, p1, p2

MCBlock == {g, a1, a2, a3, b1}
MCParent == (a1 :> g) @@ (a2 :> a1) @@ (a3 :> a2) @@ (b1 :> g)
MCHeight == (g :> 0) @@ (a1 :> 1) @@ (a2 :> 2) @@ (a3 :> 3) @@ (b1 :> 1)
MCWork == (g :> 1) @@ (a1 :> 2) @@ (a2 :> 3) @@ (a3 :> 4) @@ (b1 :> 2)

MCIndexed == {g, a1, a2, b1}
MCStored == {{g, b1}, {g, a2, b1}}
MCAcceptances ==
    [b \in MCBlock |-> IF b = a3 THEN {"stored", "invalid", "rejected"} ELSE {"stored"}]
MCAnnounced == (p1 :> {a2, a3}) @@ (p2 :> {a3})
==============================================================================
