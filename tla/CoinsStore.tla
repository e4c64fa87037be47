----------------------------- MODULE CoinsStore -----------------------------
(***************************************************************************)
(* What the stack of CCoinsViews promises (src/src/coins.h): three sets of *)
(* coins, one on disk, one for the tip of the active chain and one for the *)
(* block being connected or disconnected, each with the block whose state  *)
(* it is.  There are no caches and no flags here; CoinsCache implements    *)
(* this with them.                                                         *)
(***************************************************************************)
CONSTANTS TxId,     \* transactions with outputs
          Coin,     \* what can be left of a transaction's outputs
          Block,    \* hashes of blocks
          NoView,   \* no block is being connected
          Start,    \* the coins and best block on disk at the start
          MayLose   \* whether the disk may refuse a write

VARIABLES disk, tip, view

vars == <<disk, tip, view>>

CoinSet == [coins : [TxId -> Coin], best : Block]

Init == disk = Start /\ tip = Start /\ view = NoView

(* A view starts as a copy of the tip's.                                   *)
Open == view = NoView /\ view' = tip /\ UNCHANGED <<disk, tip>>

Change(x, c) ==
    /\ view # NoView
    /\ view' = [coins |-> [view.coins EXCEPT ![x] = c], best |-> view.best]
    /\ UNCHANGED <<disk, tip>>

Settle(b) ==
    /\ view # NoView
    /\ view' = [view EXCEPT !.best = b]
    /\ UNCHANGED <<disk, tip>>

Commit == view # NoView /\ tip' = view /\ view' = NoView /\ UNCHANGED disk

Discard == view # NoView /\ view' = NoView /\ UNCHANGED <<disk, tip>>

Save == view = NoView /\ disk' = tip /\ UNCHANGED <<tip, view>>

(* A refused write: the tip is left with the coins of the disk, but keeps  *)
(* its name.                                                               *)
Lose ==
    /\ MayLose
    /\ view = NoView
    /\ tip' = [coins |-> disk.coins, best |-> tip.best]
    /\ UNCHANGED <<disk, view>>

Restart == tip' = disk /\ view' = NoView /\ UNCHANGED disk

Next ==
    \/ Open \/ Commit \/ Discard \/ Save \/ Lose \/ Restart
    \/ \E x \in TxId, c \in Coin : Change(x, c)
    \/ \E b \in Block : Settle(b)

Spec == Init /\ [][Next]_vars
=============================================================================
