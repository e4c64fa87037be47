----------------------------- MODULE CoinsCache -----------------------------
(***************************************************************************)
(* The coins database and the two caches above it (src/src/coins.cpp,      *)
(* src/src/txdb.cpp): pcoinsTip, which lives as long as the node, and the  *)
(* view that ConnectTip or DisconnectTip puts on top of it for one block.  *)
(* A cache knows an entry only once it was asked for, keeps DIRTY and      *)
(* FRESH flags, and pushes its dirty entries down when it is flushed.      *)
(***************************************************************************)
EXTENDS BlockTree

CONSTANTS
    TxId,      \* transactions with outputs
    Value,     \* CCoins with some output left
    Pruned,    \* a CCoins with none (IsPruned)
    Absent,    \* GetCoins answers false
    NoEntry,   \* a key cacheCoins does not hold
    NoBlock,   \* the null hash
    NoView,    \* no block is being connected (in CoinsStore)
    CoinsAt,   \* the coins every block leaves behind
    DbErrors   \* whether writes of the coins database fail

Coin == Value \union {Pruned}

ASSUME CoinsCacheAssumption ==
    /\ Pruned \notin Value /\ Absent \notin Coin
    /\ NoBlock \notin Block
    /\ CoinsAt \in [Block -> [TxId -> Coin]]
    /\ DbErrors \in BOOLEAN

(* CCoinsCacheEntry.                                                       *)
Entry == [coins : Coin, dirty : BOOLEAN, fresh : BOOLEAN]

ASSUME NoEntryAssumption == NoEntry \notin Entry

ASSUME NoViewAssumption == NoView \notin [coins : [TxId -> Coin], best : Block]

VARIABLES
    db,          \* the coins database: what 'c' keys hold
    dbBest,      \* its 'B' key
    cache,       \* cacheCoins of pcoinsTip
    cacheBest,   \* hashBlock of pcoinsTip
    view,        \* cacheCoins of the view of the block at hand
    viewBest,    \* hashBlock of that view
    mode         \* the view is "closed", "open", or "done" with its block

vars == <<db, dbBest, cache, cacheBest, view, viewBest, mode>>

Empty == [x \in TxId |-> NoEntry]

(* What a reader at each level is told.                                    *)
CacheAnswer(x) == IF cache[x] = NoEntry THEN db[x] ELSE cache[x].coins
ViewAnswer(x) == IF view[x] = NoEntry THEN CacheAnswer(x) ELSE view[x].coins

(* The coins each level stands for: an absent entry and a pruned one are   *)
(* the same to HaveCoins and IsAvailable.                                  *)
OrPruned(c) == IF c = Absent THEN Pruned ELSE c
DbCoins == [x \in TxId |-> OrPruned(db[x])]
CacheCoins == [x \in TxId |-> OrPruned(CacheAnswer(x))]
ViewCoins == [x \in TxId |-> OrPruned(ViewAnswer(x))]

(* CCoinsViewCache::GetBestBlock.                                          *)
TipBest == IF cacheBest = NoBlock THEN dbBest ELSE cacheBest

Init ==
    /\ db = [x \in TxId |-> IF CoinsAt[Genesis][x] = Pruned THEN Absent
                                                           ELSE CoinsAt[Genesis][x]]
    /\ dbBest = Genesis
    /\ cache = Empty /\ cacheBest = NoBlock
    /\ view = Empty /\ viewBest = NoBlock
    /\ mode = "closed"

-----------------------------------------------------------------------------

(* FetchCoins keeps what the level below answers, unless that is nothing;  *)
(* a pruned answer counts as fresh.                                        *)
Kept(c) == [coins |-> c, dirty |-> FALSE, fresh |-> c = Pruned]
Fetched(entries, x, answer) ==
    IF entries[x] = NoEntry /\ answer # Absent
    THEN [entries EXCEPT ![x] = Kept(answer)] ELSE entries

(* A reader of pcoinsTip: mempool, RPC, staker.                            *)
ReadTip(x) ==
    /\ mode = "closed"
    /\ cache' = Fetched(cache, x, db[x])
    /\ UNCHANGED <<db, dbBest, cacheBest, view, viewBest, mode>>

(* ConnectTip or DisconnectTip begins: a view on pcoinsTip, whose best     *)
(* block ConnectBlock and DisconnectBlock ask for first.                   *)
OpenView ==
    /\ mode = "closed"
    /\ mode' = "open"
    /\ view' = Empty
    /\ viewBest' = TipBest /\ cacheBest' = TipBest
    /\ UNCHANGED <<db, dbBest, cache>>

(* Bug: the answer is kept in the view only.                               *)
ReadCoinsAlone(x) ==
    /\ mode = "open"
    /\ view' = Fetched(view, x, CacheAnswer(x))
    /\ UNCHANGED <<db, dbBest, cache, cacheBest, viewBest, mode>>

(* A read through the view: the level below keeps a copy as well.          *)
ReadCoins(x) ==
    /\ mode = "open"
    /\ view' = Fetched(view, x, CacheAnswer(x))
    /\ cache' = IF view[x] = NoEntry THEN Fetched(cache, x, db[x]) ELSE cache
    /\ UNCHANGED <<db, dbBest, cacheBest, viewBest, mode>>

(* Bug: every entry that ModifyCoins inserts is marked fresh.              *)
ModifyCoinsFresh(x, c) ==
    LET fresh == view[x] = NoEntry \/ view[x].fresh
    IN  /\ mode = "open"
        /\ view' = [view EXCEPT ![x] =
              IF fresh /\ c = Pruned THEN NoEntry
              ELSE [coins |-> c, dirty |-> TRUE, fresh |-> fresh]]
        /\ cache' = IF view[x] = NoEntry THEN Fetched(cache, x, db[x]) ELSE cache
        /\ UNCHANGED <<db, dbBest, cacheBest, viewBest, mode>>

(* ModifyCoins and the destructor of its CCoinsModifier: x becomes c, and  *)
(* a fresh entry that ends up pruned is dropped.                           *)
ModifyCoins(x, c) ==
    LET fresh == IF view[x] = NoEntry THEN CacheAnswer(x) \in {Absent, Pruned}
                                      ELSE view[x].fresh
    IN  /\ mode = "open"
        /\ view' = [view EXCEPT ![x] =
              IF fresh /\ c = Pruned THEN NoEntry
              ELSE [coins |-> c, dirty |-> TRUE, fresh |-> fresh]]
        /\ cache' = IF view[x] = NoEntry THEN Fetched(cache, x, db[x]) ELSE cache
        /\ UNCHANGED <<db, dbBest, cacheBest, viewBest, mode>>

(* ConnectBlock or DisconnectBlock has applied or undone the whole block.  *)
SetBestBlock(b) ==
    /\ mode = "open"
    /\ \/ b # Genesis /\ Parent[b] = viewBest
       \/ viewBest # Genesis /\ Parent[viewBest] = b
    /\ ViewCoins = CoinsAt[b]
    /\ viewBest' = b
    /\ mode' = "done"
    /\ UNCHANGED <<db, dbBest, cache, cacheBest, view>>

(* ConnectBlock or DisconnectBlock fails, or it was only a test            *)
(* (TestBlockValidity, CVerifyDB): the view is thrown away.                *)
DiscardView ==
    /\ mode \in {"open", "done"}
    /\ mode' = "closed"
    /\ view' = Empty /\ viewBest' = NoBlock
    /\ UNCHANGED <<db, dbBest, cache, cacheBest>>

(* Entries that a flush has to hand down.                                  *)
Dirty(e) == e # NoEntry /\ e.dirty

(* Bug: a pruned entry is dropped whether or not the database has it.      *)
MergedErasing(u, e) ==
    IF ~ Dirty(e) THEN u
    ELSE IF e.coins = Pruned THEN NoEntry
    ELSE IF u = NoEntry THEN [coins |-> e.coins, dirty |-> TRUE, fresh |-> TRUE]
    ELSE [u EXCEPT !.coins = e.coins, !.dirty = TRUE]

(* CCoinsViewCache::BatchWrite: a dirty entry e of the view meets entry u  *)
(* of pcoinsTip.                                                           *)
Merged(u, e) ==
    IF ~ Dirty(e) THEN u
    ELSE IF e.coins = Pruned /\ (u = NoEntry \/ u.fresh) THEN NoEntry
    ELSE IF u = NoEntry THEN [coins |-> e.coins, dirty |-> TRUE, fresh |-> TRUE]
    ELSE [u EXCEPT !.coins = e.coins, !.dirty = TRUE]

(* Bug: the entries move up, the block they belong to does not.            *)
FlushViewBestKept ==
    /\ mode = "done"
    /\ cache' = [x \in TxId |-> Merged(cache[x], view[x])]
    /\ view' = Empty /\ viewBest' = NoBlock
    /\ mode' = "closed"
    /\ UNCHANGED <<db, dbBest, cacheBest>>

FlushView ==
    /\ mode = "done"
    /\ cache' = [x \in TxId |-> Merged(cache[x], view[x])]
    /\ cacheBest' = viewBest
    /\ view' = Empty /\ viewBest' = NoBlock
    /\ mode' = "closed"
    /\ UNCHANGED <<db, dbBest>>

(* Bug: a pruned entry is written, not erased.                             *)
WrittenPruned(c, e) ==
    IF Dirty(e) THEN e.coins ELSE c

(* Bug: a pruned entry is skipped.                                         *)
WrittenUnspent(c, e) ==
    IF Dirty(e) /\ e.coins # Pruned THEN e.coins ELSE c

(* CCoinsViewDB::BatchWrite: one batch, which also holds the best block.   *)
Written(c, e) ==
    IF Dirty(e) THEN (IF e.coins = Pruned THEN Absent ELSE e.coins) ELSE c

(* pcoinsTip->Flush() in FlushStateToDisk.                                 *)
FlushTip ==
    /\ mode = "closed"
    /\ db' = [x \in TxId |-> Written(db[x], cache[x])]
    /\ dbBest' = TipBest
    /\ cache' = Empty
    /\ UNCHANGED <<cacheBest, view, viewBest, mode>>

(* The batch is refused (CLevelDBWrapper throws): the entries were taken   *)
(* from the cache while the batch was built.  The node begins to shut      *)
(* down, and PrepareShutdown flushes once more.                            *)
FlushTipFails ==
    /\ DbErrors
    /\ mode = "closed"
    /\ cache' = Empty
    /\ UNCHANGED <<db, dbBest, cacheBest, view, viewBest, mode>>

(* The process ends, with or without a flush before, and starts again.     *)
Restart ==
    /\ cache' = Empty /\ cacheBest' = NoBlock
    /\ view' = Empty /\ viewBest' = NoBlock
    /\ mode' = "closed"
    /\ UNCHANGED <<db, dbBest>>

Next ==
    \/ \E x \in TxId : ReadTip(x) \/ ReadCoins(x)
    \/ \E x \in TxId, c \in Coin : ModifyCoins(x, c)
    \/ \E b \in Block : SetBestBlock(b)
    \/ OpenView \/ DiscardView \/ FlushView
    \/ FlushTip \/ FlushTipFails \/ Restart

Spec == Init /\ [][Next]_vars

-----------------------------------------------------------------------------
(* Properties *)

(* Types of the variables.                                                 *)
TypeOK ==
    /\ db \in [TxId -> Value \union {Absent}] /\ dbBest \in Block
    /\ cache \in [TxId -> Entry \union {NoEntry}] /\ cacheBest \in Block \union {NoBlock}
    /\ view \in [TxId -> Entry \union {NoEntry}] /\ viewBest \in Block \union {NoBlock}
    /\ mode \in {"closed", "open", "done"}

(* DIRTY and FRESH mean what coins.h says: an entry that is not dirty is   *)
(* the base's, and the base has nothing unspent under a fresh one.         *)
FlagsSound ==
    \A x \in TxId :
        /\ cache[x] # NoEntry =>
              /\ cache[x].fresh => db[x] = Absent
              /\ ~ cache[x].dirty => cache[x].coins = db[x]
        /\ view[x] # NoEntry =>
              /\ view[x].fresh => CacheCoins[x] = Pruned
              /\ ~ view[x].dirty => view[x].coins = CacheAnswer(x)

(* The assertion in BatchWrite (coins.cpp:179): a coin that pcoinsTip does *)
(* not hold comes up fresh, because every read of the view left a copy in  *)
(* pcoinsTip.                                                              *)
FlushAssertHolds ==
    \A x \in TxId :
        view[x] # NoEntry /\ cache[x] = NoEntry /\ view[x].coins # Pruned => view[x].fresh

CachesSound == FlagsSound /\ FlushAssertHolds

(* "The block hash whose state this CCoinsView currently represents"       *)
(* (coins.h:347), for the database and for pcoinsTip.                      *)
DiskConsistent == DbCoins = CoinsAt[dbBest]
TipConsistent == CacheCoins = CoinsAt[TipBest]

(* A refused batch is the only step that leaves a level with other coins   *)
(* than those of the block it names (FlushStateToDisk, ConnectTip and      *)
(* DisconnectTip, a restart at any time).                                  *)
OnlyRefusalCorrupts ==
    [][DiskConsistent /\ TipConsistent /\ ~ FlushTipFails
          => (DiskConsistent /\ TipConsistent)']_vars

-----------------------------------------------------------------------------
(* The caches implement plain sets of coins.                               *)

Store == INSTANCE CoinsStore WITH
    disk <- [coins |-> DbCoins, best |-> dbBest],
    tip <- [coins |-> CacheCoins, best |-> TipBest],
    view <- IF mode = "closed" THEN NoView ELSE [coins |-> ViewCoins, best |-> viewBest],
    Start <- [coins |-> CoinsAt[Genesis], best |-> Genesis],
    MayLose <- DbErrors

(* Reading fills the caches and nothing else, and a chain of blocks        *)
(* connected, disconnected, flushed and lost leaves the sets of coins that *)
(* direct updates would leave; a refused batch costs pcoinsTip all that it *)
(* held above the database.                                                *)
ImplementsStore == Store!Spec

=============================================================================
