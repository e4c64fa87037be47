------------------------------- MODULE TxPool -------------------------------
(***************************************************************************)
(* The memory pool (src/src/txmempool.cpp and its users in                 *)
(* src/src/main.cpp and src/src/miner.cpp) beside the key-image ledger and *)
(* the active chain.  Nothing in the pool excludes two transactions that   *)
(* spend the same key image, and mapNextTx, by which removeConflicts and   *)
(* the recursive remove find transactions, is only filled for coinstakes,  *)
(* which never enter: what the pool holds depends on when it is compared   *)
(* with the chain.                                                         *)
(***************************************************************************)
EXTENDS KeyImages

CONSTANTS
    Tx,            \* transactions with inputs, coinstakes excepted
    Images,        \* the key images of one
    Ring,          \* the transactions among Tx whose outputs are in its rings
    Prevout,       \* the one txin.prevout names, or Old
    Old,           \* a transaction deep in every chain
    Txs,           \* the transactions of a block
    MaxReorgDepth  \* Params().MaxReorganizationDepth()

ASSUME TxPoolAssumption ==
    /\ Images \in [Tx -> SUBSET KeyImage]
    /\ Ring \in [Tx -> SUBSET Tx]
    /\ Old \notin Tx
    /\ \A t \in Tx : Prevout[t] \in Ring[t] \union {Old}
    /\ Txs \in [Block -> SUBSET Tx] /\ Txs[Genesis] = {}
    /\ \A b \in Block : \A t \in Txs[b] : Images[t] \subseteq Spends[b]
    /\ MaxReorgDepth \in Nat

ASSUME TxHasInput == \A t \in Tx : Images[t] # {}

VARIABLE pool    \* mempool.mapTx

poolVars == <<vars, pool>>

OnChain(b) == UNION {Txs[a] : a \in Anc[b]}
Confirmed == OnChain(tip)

(* CheckHaveInputs: GetTransaction looks into the pool first, where there  *)
(* is no block to find, and then leads to the block that holds the         *)
(* transaction, which must be on the active chain.                         *)
CheckHaveInputs(t) == Ring[t] \subseteq Confirmed \ pool

IsSpent(t) == \E k \in Images[t] : IsSpentInMainChain(k)

(* AcceptToMemoryPool, over coins whose best block is b.  It may refuse a  *)
(* transaction for other reasons, too.                                     *)
Acceptable(t, b) ==
    /\ t \notin pool
    /\ t \notin OnChain(b)
    /\ CheckHaveInputs(t)
    /\ ~ IsSpent(t)

(* The "tx" message, sendrawtransaction, the wallet.                       *)
AcceptToMemoryPool(t) ==
    /\ connecting = NoBlock
    /\ Acceptable(t, tip)
    /\ pool' = pool \union {t}
    /\ UNCHANGED vars

(* Bug: the key images are not looked up again.                            *)
TemplatesUnchecked ==
    {S \in SUBSET {t \in pool : CheckHaveInputs(t)} :
        \A t, u \in S : t # u => Images[t] \cap Images[u] = {}}

(* What CreateNewBlock may put into a block: its walk through mapTx leaves *)
(* out what shares a key image with what it has met before; size and fees  *)
(* leave out more.                                                         *)
Templates ==
    {S \in SUBSET {t \in pool : ~ IsSpent(t) /\ CheckHaveInputs(t)} :
        \A t, u \in S : t # u => Images[t] \cap Images[u] = {}}

-----------------------------------------------------------------------------
(* What the chain does to the pool.                                        *)

(* ConnectTip: ConnectBlock checks the inputs of every transaction, and    *)
(* removeForBlock takes them out of the pool.                              *)
ConnectTip ==
    /\ FinishConnect
    /\ \A t \in Txs[connecting] : CheckHaveInputs(t)
    /\ pool' = pool \ Txs[connecting]

(* removeCoinbaseSpends keeps a transaction if its prevout is in the pool  *)
(* or in the coins.                                                        *)
Rooted(S, b) == {t \in S : Prevout[t] \in S \union OnChain(b) \union {Old}}

(* DisconnectTip offers the block's transactions to the pool again, over   *)
(* the parent's coins but before UpdateTip: chainActive still has the      *)
(* block.  What is not accepted is removed.                                *)
Resurrected == {t \in Txs[tip] : Acceptable(t, Parent[tip])}

(* Bug: transactions that lost what they spend stay in the pool.           *)
DisconnectUnrooted ==
    /\ DisconnectTip
    /\ pool' = (pool \ Txs[tip]) \union Resurrected

DisconnectAndResurrect ==
    /\ DisconnectTip
    /\ pool' = Rooted((pool \ Txs[tip]) \union Resurrected, Parent[tip])

(* RemoveInvalidTransactionsFromMempool, after every 15th block of a node  *)
(* with a wallet.                                                          *)
Deep(b) == 1 + Height[tip] - Height[b] > MaxReorgDepth
SpentDeep(t) == \E a \in Active : Deep(a) /\ Images[t] \cap Spends[a] # {}
Abandoned(r) == r \notin Confirmed /\ \A b \in connected : r \in Txs[b] => Deep(b)

RemoveInvalidTransactions ==
    /\ connecting = NoBlock
    /\ pool' = {t \in pool : ~ SpentDeep(t) /\ \A r \in Ring[t] : r \notin pool /\ ~ Abandoned(r)}
    /\ UNCHANGED vars

(* The pool is not kept on disk.                                           *)
Restart == CrashAndRestart /\ pool' = {}

-----------------------------------------------------------------------------

PoolInit == Init /\ pool = {}

PoolNext ==
    \/ \E t \in Tx : AcceptToMemoryPool(t)
    \/ RemoveInvalidTransactions
    \/ ConnectTip
    \/ DisconnectAndResurrect
    \/ Restart
    \/ /\ \/ \E b \in Block : BeginConnect(b)
          \/ \E k \in KeyImage : SpendInput(k)
          \/ FailConnect
          \/ \E k \in KeyImage, b \in Block : WalletRecord(k, b)
          \/ FlushIndex
          \/ FlushStateToDisk
       /\ UNCHANGED pool

PoolSpec == PoolInit /\ [][PoolNext]_poolVars

-----------------------------------------------------------------------------
(* Properties.                                                             *)

(* The pool follows the chain through reorganisations: nothing in it is    *)
(* confirmed, and what each transaction says it spends is.  The first      *)
(* matters beyond the pool: CheckHaveInputs does not find the block of a   *)
(* transaction that is also in the pool, so one that were would make       *)
(* ConnectBlock refuse every later block with a ring that uses it.         *)
PoolFollowsChain ==
    /\ pool \cap Confirmed = {}
    /\ \A t \in pool : Prevout[t] \in Confirmed \union {Old}

(* "we still have to ensure that the block we create only contains         *)
(* transactions that are valid in new blocks" (miner.cpp:393): although    *)
(* the pool may hold double spends, of each other and of the chain, no     *)
(* block the miner makes from it spends a key image twice or uses a ring   *)
(* the chain does not have.                                                *)
TemplatesConnect ==
    \A S \in Templates :
        /\ \A t \in S : Ring[t] \subseteq Confirmed
        /\ \A t \in S : \A a \in Active : Images[t] \cap Spends[a] = {}
        /\ \A t, u \in S : t # u => Images[t] \cap Images[u] = {}

=============================================================================
