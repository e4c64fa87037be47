------------------------------ MODULE BlockTree ------------------------------
(***************************************************************************)
(* The tree of blocks the node may ever hear of (CBlockIndex::pprev,       *)
(* nHeight and nChainWork in src/src/chain.h).  A header commits to its    *)
(* parent, so the tree is a constant: what changes while the node runs is  *)
(* how much of it the node knows, and that is in the modules that extend   *)
(* this one.                                                               *)
(***************************************************************************)
EXTENDS Naturals, FiniteSets

CONSTANTS
    Block,       \* every block, Genesis included
    Genesis,     \* Params().HashGenesisBlock()
    Parent,      \* pprev of every block but Genesis
    Height,      \* nHeight
    ChainWork    \* nChainWork: the work of the block and of all its ancestors

(* AddToBlockIndex computes nHeight and nChainWork from the parent.  The    *)
(* work of a block is positive: CheckWork accepts only the target the      *)
(* retargeting code asks for, so GetBlockProof never takes its zero exit.  *)
ASSUME BlockTreeAssumption ==
    /\ IsFiniteSet(Block)
    /\ Genesis \in Block
    /\ Parent \in [Block \ {Genesis} -> Block]
    /\ Height \in [Block -> Nat]
    /\ Height[Genesis] = 0
    /\ ChainWork \in [Block -> Nat]
    /\ \A b \in Block \ {Genesis} :
          /\ Height[b] = Height[Parent[b]] + 1
          /\ ChainWork[b] > ChainWork[Parent[b]]

-----------------------------------------------------------------------------

ClosedUnderParent(S) == \A b \in S \ {Genesis} : Parent[b] \in S

(* Anc[b]: b and everything reached from it through pprev, written as the  *)
(* least set that holds b and is closed under Parent.                      *)
Anc == [b \in Block |->
          {a \in Block : \A S \in SUBSET Block :
                            b \in S /\ ClosedUnderParent(S) => a \in S}]
=============================================================================
