---------------------------- MODULE MCChainState ----------------------------
(* Small instances of ChainState: blocks off genesis in two branches, every *)
(* assignment of ConnectBlock's verdicts to the blocks named as doubtful.   *)
EXTENDS ChainState, TLC

CONSTANTS g, a1, a2, b1, b2, t1, t2, t3,
          Doubtful,      \* blocks whose verdict ranges over DoubtfulVerdicts
          DoubtfulVerdicts,
          HeaderOnly     \* blocks whose first delivery may leave only a header

MCBlock == {g, a1, a2, b1, b2}
MCParent == (a1 :> g) @@ (a2 :> a1) @@ (b1 :> g) @@ (b2 :> b1)
MCHeight == (g :> 0) @@ (a1 :> 1) @@ (a2 :> 2) @@ (b1 :> 1) @@ (b2 :> 2)

\* the second branch off a1: a reorganisation that keeps a1
MCSiblings == (a1 :> g) @@ (a2 :> a1) @@ (b1 :> a1) @@ (b2 :> b1)
MCSiblingsHeight == (g :> 0) @@ (a1 :> 1) @@ (a2 :> 2) @@ (b1 :> 2) @@ (b2 :> 3)
MCSiblingsWork == (g :> 1) @@ (a1 :> 2) @@ (a2 :> 3) @@ (b1 :> 3) @@ (b2 :> 4)

\* a2 and b2 tie, so the one received first wins
MCWork == (g :> 1) @@ (a1 :> 2) @@ (a2 :> 3) @@ (b1 :> 2) @@ (b2 :> 3)

MCVerdicts ==
    {[b \in MCBlock |-> IF b \in Doubtful THEN v[b] ELSE {"ok"}] :
        v \in [Doubtful -> DoubtfulVerdicts]}
MCAcceptances ==
    [b \in MCBlock |-> IF b \in HeaderOnly THEN {"stored", "invalid", "rejected"}
                                           ELSE {"stored"}]

\* each block is good or bad, once and for all
Deterministic == {{"ok"}, {"invalid"}}
\* what is on disk may no longer pass CheckBlock
Corrupt == {{"ok", "corrupt"}}
Damaged == Deterministic \union Corrupt
=============================================================================
