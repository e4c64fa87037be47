--------------------------- MODULE ChainRecovery ---------------------------
(***************************************************************************)
(* What survives of the chain state when the node stops (src/src/main.cpp, *)
(* src/src/init.cpp).  ConnectTip and DisconnectTip move pcoinsTip, then   *)
(* FlushStateToDisk, in two writes, the disk, then UpdateTip chainActive;  *)
(* the process may die between any two of them.  LoadBlockIndexDB then     *)
(* takes what it finds, or, if the last shutdown was not recorded, replays *)
(* stored blocks into the coins, and VerifyDB has the last word.           *)
(* pcoinsTip and the database are plain sets of unspent outputs here, as   *)
(* CoinsStore shows they may be.                                           *)
(***************************************************************************)
EXTENDS BlockTree, SequencesExt

CONSTANTS
    Output,    \* transaction outputs
    Creates,   \* the outputs a block's transactions make
    Spends     \* the outputs its coinstakes spend (UpdateCoins)

(* What UpdateCoins does for every transaction of a block, and             *)
(* DisconnectBlock to take it back.                                        *)
Applied(S, b) == (S \ Spends[b]) \union Creates[b]
Undone(S, b) == (S \ Creates[b]) \union Spends[b]

(* The coins a chain that ends in b leaves unspent.                        *)
Made(A) == UNION {Creates[a] : a \in A}
Used(A) == UNION {Spends[a] : a \in A}
CoinsOf(b) == Made(Anc[b]) \ Used(Anc[b])

(* Every block was made by a node that had its parent as tip.              *)
ASSUME ChainRecoveryAssumption ==
    /\ Creates \in [Block -> SUBSET Output]
    /\ Spends \in [Block -> SUBSET Output]
    /\ Spends[Genesis] = {}
    /\ \A b \in Block \ {Genesis} :
          /\ Spends[b] \subseteq CoinsOf(Parent[b])
          /\ Creates[b] \cap Made(Anc[Parent[b]]) = {}

VARIABLES
    mode,        \* "up", "aborting" (StartShutdown was called), "stopping",
                 \* "down", or "refused" (VerifyDB found the database corrupted)
    index,       \* blocks of mapBlockIndex, all with their data
    undo,        \* those of them with BLOCK_HAVE_UNDO
    dirty,       \* setDirtyBlockIndex
    fileHeight,  \* vinfoBlockFile[nLastBlockFile].nHeightLast
    coins, best, \* pcoinsTip: its coins and GetBestBlock()
    tip,         \* chainActive.Tip()
    flush,       \* FlushStateToDisk is "idle", about to "start", or at the "coins"
    newTip,      \* the tip when the running ConnectTip or DisconnectTip is done
    dIndex, dUndo, dFileHeight,  \* the block database
    dCoins, dBest,               \* the coins database
    prepared,    \* the flag "shutdown" in the block database
    replayed     \* history: LoadBlockIndexDB replayed blocks since the last -reindex

memory == <<index, undo, dirty, fileHeight, coins, best, tip>>
blockDb == <<dIndex, dUndo, dFileHeight>>
coinsDb == <<dCoins, dBest>>
vars == <<mode, memory, flush, newTip, blockDb, coinsDb, prepared, replayed>>

(* InitBlockIndex has stored, connected and flushed the genesis block.     *)
Init ==
    /\ mode = "up"
    /\ index = {Genesis} /\ undo = {} /\ dirty = {} /\ fileHeight = 0
    /\ coins = CoinsOf(Genesis) /\ best = Genesis /\ tip = Genesis
    /\ flush = "idle" /\ newTip = Genesis
    /\ dIndex = {Genesis} /\ dUndo = {} /\ dFileHeight = 0
    /\ dCoins = CoinsOf(Genesis) /\ dBest = Genesis
    /\ prepared = FALSE /\ replayed = FALSE

-----------------------------------------------------------------------------
(* A running node.  Until the main thread gets to PrepareShutdown, a node  *)
(* that is to stop goes on as before.                                      *)

Running == mode \in {"up", "aborting"} /\ flush = "idle"

(* AcceptBlock: the block is indexed and stored, in the last block file or *)
(* as the first of a new one.                                              *)
StoreBlock(b) ==
    /\ Running
    /\ b \notin index /\ Parent[b] \in index
    /\ index' = index \union {b}
    /\ dirty' = dirty \union {b}
    /\ \/ fileHeight' = IF Height[b] > fileHeight THEN Height[b] ELSE fileHeight
       \/ fileHeight' = Height[b]
    /\ UNCHANGED <<mode, undo, coins, best, tip, flush, newTip, blockDb, coinsDb,
                   prepared, replayed>>

(* ActivateBestChain has chosen m.                                         *)
Better(m) == m \in index /\ ChainWork[m] > ChainWork[tip]

(* Bug: the view is not flushed before the state is written.               *)
ConnectTipViewKept(b) ==
    /\ Running /\ best = tip
    /\ b # Genesis /\ Parent[b] = tip
    /\ \E m \in Block : Better(m) /\ b \in Anc[m]
    /\ best' = b
    /\ undo' = undo \union {b} /\ dirty' = dirty \union {b}
    /\ dIndex' = dIndex \union {b} /\ dUndo' = dUndo \union (undo \cap {b})
    /\ flush' = "start" /\ newTip' = b
    /\ UNCHANGED <<mode, index, fileHeight, coins, tip, dFileHeight, coinsDb,
                   prepared, replayed>>

(* ConnectTip as far as view.Flush(): ConnectBlock asserts that pcoinsTip  *)
(* is at the parent, writes the block's record on its own, as it is before *)
(* the undo data has a position, and leaves it dirty.                      *)
ConnectTip(b) ==
    /\ Running /\ best = tip
    /\ b # Genesis /\ Parent[b] = tip
    /\ \E m \in Block : Better(m) /\ b \in Anc[m]
    /\ coins' = Applied(coins, b) /\ best' = b
    /\ undo' = undo \union {b} /\ dirty' = dirty \union {b}
    /\ dIndex' = dIndex \union {b} /\ dUndo' = dUndo \union (undo \cap {b})
    /\ flush' = "start" /\ newTip' = b
    /\ UNCHANGED <<mode, index, fileHeight, tip, dFileHeight, coinsDb, prepared, replayed>>

(* DisconnectTip as far as view.Flush(): it needs the undo data, and       *)
(* asserts that pcoinsTip is at the tip.                                   *)
DisconnectTip ==
    /\ Running /\ best = tip
    /\ tip # Genesis /\ tip \in undo
    /\ \E m \in Block : Better(m) /\ tip \notin Anc[m]
    /\ coins' = Undone(coins, tip) /\ best' = Parent[tip]
    /\ flush' = "start" /\ newTip' = Parent[tip]
    /\ UNCHANGED <<mode, index, undo, dirty, fileHeight, tip, blockDb, coinsDb,
                   prepared, replayed>>

(* FlushStateToDisk with nothing to connect: at the end of                 *)
(* ActivateBestChain, or for gettxoutsetinfo.                              *)
BeginFlush ==
    /\ Running
    /\ flush' = "start" /\ newTip' = tip
    /\ UNCHANGED <<mode, memory, blockDb, coinsDb, prepared, replayed>>

(* PrepareShutdown calls it once more.                                     *)
PrepareShutdown ==
    /\ Running
    /\ mode' = "stopping"
    /\ flush' = "start" /\ newTip' = tip
    /\ UNCHANGED <<memory, blockDb, coinsDb, prepared, replayed>>

-----------------------------------------------------------------------------
(* FlushStateToDisk, and UpdateTip after it.                               *)

(* FLUSH_STATE_IF_NEEDED or _PERIODIC, and it is not.                      *)
SkipFlush ==
    /\ flush = "start" /\ mode # "stopping"
    /\ newTip = tip \/ (newTip # Genesis /\ Parent[newTip] = tip)
    /\ tip' = newTip
    /\ flush' = "idle"
    /\ UNCHANGED <<mode, index, undo, dirty, fileHeight, coins, best, newTip, blockDb,
                   coinsDb, prepared, replayed>>

(* Bug: CheckDiskSpace does not stop the node.                             *)
DiskFullUnnoticed ==
    /\ flush = "start"
    /\ flush' = "idle"
    /\ UNCHANGED <<mode, memory, newTip, blockDb, coinsDb, prepared, replayed>>

(* CheckDiskSpace fails: it calls StartShutdown, and the caller returns    *)
(* before UpdateTip.  PrepareShutdown does not look at the result.         *)
DiskFull ==
    /\ flush = "start"
    /\ mode' = IF mode = "stopping" THEN mode ELSE "aborting"
    /\ flush' = "idle"
    /\ UNCHANGED <<memory, newTip, blockDb, coinsDb, prepared, replayed>>

(* Bug: the coins are written before the index they refer to.              *)
FlushCoinsFirst ==
    /\ flush = "start"
    /\ dCoins' = coins /\ dBest' = best
    /\ tip' = newTip
    /\ flush' = "idle"
    /\ UNCHANGED <<mode, index, undo, dirty, fileHeight, coins, best, newTip, blockDb,
                   prepared, replayed>>

(* WriteBatchSync: the dirty records, and what is known of the last file.  *)
FlushIndex ==
    /\ flush = "start"
    /\ dIndex' = dIndex \union dirty
    /\ dUndo' = dUndo \union (dirty \cap undo)
    /\ dFileHeight' = fileHeight
    /\ dirty' = {}
    /\ flush' = "coins"
    /\ UNCHANGED <<mode, index, undo, fileHeight, coins, best, tip, newTip, coinsDb,
                   prepared, replayed>>

(* pcoinsTip->Flush(), one batch with its best block.                      *)
FlushCoins ==
    /\ flush = "coins"
    /\ dCoins' = coins /\ dBest' = best
    /\ tip' = newTip
    /\ flush' = "idle"
    /\ UNCHANGED <<mode, index, undo, dirty, fileHeight, coins, best, newTip, blockDb,
                   prepared, replayed>>

-----------------------------------------------------------------------------
(* The end of the process.                                                 *)

(* Only what is on disk is left.                                           *)
Forgotten ==
    /\ index' = dIndex /\ undo' = dUndo /\ dirty' = {} /\ fileHeight' = dFileHeight
    /\ coins' = dCoins /\ best' = dBest /\ tip' = dBest
    /\ flush' = "idle" /\ newTip' = dBest

(* PrepareShutdown records that it was there.                              *)
RecordShutdown ==
    /\ mode = "stopping" /\ flush = "idle"
    /\ prepared' = TRUE
    /\ mode' = "down"
    /\ Forgotten
    /\ UNCHANGED <<blockDb, coinsDb, replayed>>

(* The process is killed, or an assertion fails: writes that returned      *)
(* stay.                                                                   *)
Crash ==
    /\ mode \in {"up", "aborting", "stopping"}
    /\ mode' = "down"
    /\ Forgotten
    /\ UNCHANGED <<blockDb, coinsDb, prepared, replayed>>

-----------------------------------------------------------------------------
(* LoadBlockIndexDB and VerifyDB.                                          *)

(* vSortedByHeight: blocks of one height are in the order of their         *)
(* addresses.                                                              *)
ByHeight(S) ==
    {s \in SetToSeqs(S) : \A i, j \in DOMAIN s : i < j => Height[s[i]] <= Height[s[j]]}

(* vSortedByHeight[nHeightLast + 1], the first element being number 0.     *)
LastMeta(order) == order[dFileHeight + 2]

(* The test for "a block has been accepted and written to disk, but        *)
(* pcoinsTip was not flushed".                                             *)
OutOfSync(order) ==
    /\ ~ prepared
    /\ Len(order) > dFileHeight + 1
    /\ dBest # LastMeta(order)

(* The replay takes the blocks in this order, from the first above the     *)
(* coins' best block to the first as high as LastMeta.                     *)
\* Bug: one block further on.
AboveNext(order) == {i \in DOMAIN order : Height[order[i]] = Height[dBest] + 2}

Above(order) == {i \in DOMAIN order : Height[order[i]] = Height[dBest] + 1}
FirstReplayed(order) == Min(Above(order))
LastReplayed(order) ==
    Min({i \in DOMAIN order : /\ i >= FirstReplayed(order)
                             /\ Height[order[i]] >= Height[LastMeta(order)]})

Replayed(order) ==
    LET after[i \in FirstReplayed(order) - 1 .. LastReplayed(order)] ==
            IF i < FirstReplayed(order) THEN dCoins ELSE Applied(after[i - 1], order[i])
    IN  after[LastReplayed(order)]

(* VerifyDB (level 4) disconnects the chain in memory: every block needs   *)
(* its undo data, every output a block made must be there, and every       *)
(* output it spent must not.  At genesis there is nothing to verify.       *)
VerifyDB(S, b) ==
    LET chain == Anc[b] \ {Genesis}
        touched == Made(chain) \union Used(chain)
    IN  chain \subseteq dUndo /\ S \cap touched = CoinsOf(b) \cap touched

(* The rest of LoadBlockIndexDB.  The flag is cleared; when VerifyDB says  *)
(* no, AppInit2 ends, and PrepareShutdown sets it again.                   *)
Loaded(S, b) ==
    /\ dCoins' = S /\ dBest' = b
    /\ coins' = S /\ best' = b /\ tip' = b /\ newTip' = b
    /\ mode' = IF VerifyDB(S, b) THEN "up" ELSE "refused"
    /\ prepared' = ~ VerifyDB(S, b)
    /\ UNCHANGED <<index, undo, dirty, fileHeight, flush, blockDb>>

Start ==
    /\ mode = "down"
    /\ \E order \in ByHeight(dIndex) : ~ OutOfSync(order)
    /\ Loaded(dCoins, dBest)
    /\ UNCHANGED replayed

StartReplaying ==
    /\ mode = "down"
    /\ \E order \in ByHeight(dIndex) :
          /\ OutOfSync(order) /\ Above(order) # {}
          /\ Loaded(Replayed(order), order[LastReplayed(order)])
    /\ replayed' = TRUE

(* No block is higher than the coins' best block: the replay begins, and   *)
(* ends, with the first block of the list, which is genesis.  It then      *)
(* reads one element past the vector, and does not use it.                 *)
StartReplayingGenesis ==
    /\ mode = "down"
    /\ \E order \in ByHeight(dIndex) :
          /\ OutOfSync(order) /\ Above(order) = {}
          /\ Loaded(Applied(dCoins, order[1]), order[1])
    /\ replayed' = TRUE

(* The user starts with -reindex: both databases are wiped, and the block  *)
(* files read again.  LoadBlockIndexDB does not run, so the flag it clears  *)
(* is absent, which ReadFlag's caller takes for true.                      *)
Reindex ==
    /\ mode = "refused"
    /\ mode' = "up"
    /\ index' = {Genesis} /\ undo' = {} /\ dirty' = {} /\ fileHeight' = 0
    /\ coins' = CoinsOf(Genesis) /\ best' = Genesis /\ tip' = Genesis
    /\ flush' = "idle" /\ newTip' = Genesis
    /\ dIndex' = {Genesis} /\ dUndo' = {} /\ dFileHeight' = 0
    /\ dCoins' = CoinsOf(Genesis) /\ dBest' = Genesis
    /\ prepared' = TRUE /\ replayed' = FALSE

Next ==
    \/ \E b \in Block : StoreBlock(b) \/ ConnectTip(b)
    \/ DisconnectTip \/ BeginFlush \/ PrepareShutdown
    \/ SkipFlush \/ DiskFull \/ FlushIndex \/ FlushCoins
    \/ RecordShutdown \/ Crash
    \/ Start \/ StartReplaying \/ StartReplayingGenesis \/ Reindex

Spec == Init /\ [][Next]_vars

-----------------------------------------------------------------------------
(* Properties.                                                             *)

TypeOK ==
    /\ mode \in {"up", "aborting", "stopping", "down", "refused"}
    /\ index \in SUBSET Block /\ undo \in SUBSET Block /\ dirty \in SUBSET Block
    /\ fileHeight \in Nat /\ dFileHeight \in Nat
    /\ coins \in SUBSET Output /\ dCoins \in SUBSET Output
    /\ best \in Block /\ tip \in Block /\ newTip \in Block /\ dBest \in Block
    /\ flush \in {"idle", "start", "coins"}
    /\ dIndex \in SUBSET Block /\ dUndo \in SUBSET Block
    /\ prepared \in BOOLEAN /\ replayed \in BOOLEAN

(* Whenever the process dies, the coins on disk belong to a block whose    *)
(* record is on disk, with those of all its ancestors, and, unless blocks  *)
(* were ever replayed, the place of their undo data too: FlushStateToDisk  *)
(* writes the index before the coins that refer to it.                     *)
DiskChainWhole ==
    /\ dBest \in dIndex
    /\ ClosedUnderParent(dIndex)
    /\ ~ replayed => Anc[dBest] \ {Genesis} \subseteq dUndo

(* The coins are exactly what the chain of their best block leaves         *)
(* unspent, in memory and on disk, and VerifyDB never refuses them, as     *)
(* long as LoadBlockIndexDB did not replay blocks: a crash between any two *)
(* writes costs blocks, never coins.                                       *)
CoinsMatchBest ==
    ~ replayed => /\ coins = CoinsOf(best)
                  /\ dCoins = CoinsOf(dBest)
                  /\ mode # "refused"

(* ConnectBlock and DisconnectBlock assert that pcoinsTip is where         *)
(* chainActive is.  It is, also after errors and restarts, but for the     *)
(* time between a full disk and the shutdown it causes.                    *)
ViewAtTip == mode = "up" /\ flush = "idle" => best = tip

(* What the replay is for: the blocks on disk never forked, and the record *)
(* of the last block file reaches up to the coins.  Then it takes the coins *)
(* forward, and leaves those of the block it ends with.                    *)
Line(S) == \A a, b \in S : a \in Anc[b] \/ b \in Anc[a]
ReplayMovesForward ==
    [][ (/\ mode = "down" /\ replayed' # replayed
         /\ Line(dIndex) /\ Height[dBest] <= dFileHeight) =>
        dBest \in Anc[dBest'] \ {dBest'} /\ dCoins' = CoinsOf(dBest') ]_vars

(* What LoadBlockIndexDB says of its replay: "Start at the last block that *)
(* was successfully added to the txdb (pcoinsTip) and manually add all     *)
(* transactions that occurred for each block up until the best known block *)
(* from the block index db."  Then a node that runs has the coins of its   *)
(* tip.                                                                    *)
RunsOnItsCoins == mode = "up" /\ flush = "idle" => coins = CoinsOf(tip)
=============================================================================
