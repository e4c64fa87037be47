-------------------------- MODULE CoinsCacheProofs --------------------------
(* Proofs about CoinsCache: the flags tell the truth in every history, the *)
(* caches implement the plain sets of coins of CoinsStore, and only a      *)
(* refused batch leaves a level with other coins than its block's, for     *)
(* every set of transactions and every tree of blocks.                     *)
EXTENDS CoinsCache, TLAPS

USE BlockTreeAssumption, CoinsCacheAssumption, NoEntryAssumption, NoViewAssumption

(* A view exists only while a block is at hand, and then pcoinsTip has been *)
(* asked for its best block.                                               *)
ViewLifecycle ==
    /\ mode = "closed" => view = Empty /\ viewBest = NoBlock
    /\ mode # "closed" => viewBest \in Block /\ cacheBest \in Block

(* What the view holds pcoinsTip holds too, unless it was new there.       *)
ReadsLeaveCopies ==
    \A x \in TxId : view[x] # NoEntry /\ cache[x] = NoEntry => view[x].fresh

IInv ==
    /\ TypeOK
    /\ ViewLifecycle
    /\ FlagsSound
    /\ ReadsLeaveCopies

-----------------------------------------------------------------------------
(* One entry at a time                                                      *)

LEMMA Answers ==
  ASSUME TypeOK, NEW x \in TxId
  PROVE  /\ db[x] \in Value \union {Absent}
         /\ cache[x] = NoEntry \/ cache[x] \in Entry
         /\ view[x] = NoEntry \/ view[x] \in Entry
         /\ CacheAnswer(x) \in Coin \union {Absent}
         /\ ViewAnswer(x) \in Coin \union {Absent}
BY DEF TypeOK, Entry, CacheAnswer, ViewAnswer, Coin

LEMMA CoinsTyped ==
  ASSUME TypeOK
  PROVE  /\ DbCoins \in [TxId -> Coin] /\ CacheCoins \in [TxId -> Coin]
         /\ ViewCoins \in [TxId -> Coin]
         /\ TipBest \in Block
<1>1. \A x \in TxId : OrPruned(db[x]) \in Coin /\ OrPruned(CacheAnswer(x)) \in Coin
                      /\ OrPruned(ViewAnswer(x)) \in Coin
  BY Answers DEF OrPruned, Coin
<1>2. TipBest \in Block
  BY DEF TypeOK, TipBest
<1>3. QED
  BY <1>1, <1>2 DEF DbCoins, CacheCoins, ViewCoins

(* Keeping a copy of the answer below does not change what a cache answers, *)
(* and its flags are right.                                                *)
LEMMA CopyInTip ==
  ASSUME IInv, NEW x \in TxId, UNCHANGED db, cache' = Fetched(cache, x, db[x])
  PROVE  /\ cache' \in [TxId -> Entry \union {NoEntry}]
         /\ \A y \in TxId : CacheAnswer(y)' = CacheAnswer(y)
         /\ \A y \in TxId : cache'[y] # NoEntry =>
               /\ cache'[y].fresh => db[y] = Absent
               /\ ~ cache'[y].dirty => cache'[y].coins = db[y]
         /\ cache'[x] = NoEntry => cache[x] = NoEntry /\ db[x] = Absent
         /\ \A y \in TxId : cache'[y] = NoEntry => cache[y] = NoEntry
<1>1. cache \in [TxId -> Entry \union {NoEntry}] /\ db[x] \in Value \union {Absent}
  BY Answers DEF IInv, TypeOK
<1>2. CASE cache[x] = NoEntry /\ db[x] # Absent
  <2>1. Kept(db[x]) \in Entry /\ Kept(db[x]).coins = db[x] /\ ~ Kept(db[x]).fresh
    BY <1>1, <1>2 DEF Kept, Entry, Coin
  <2>2. cache' = [cache EXCEPT ![x] = Kept(db[x])]
    BY <1>2 DEF Fetched
  <2>3. QED
    BY <1>1, <1>2, <2>1, <2>2 DEF IInv, FlagsSound, CacheAnswer
<1>3. CASE ~ (cache[x] = NoEntry /\ db[x] # Absent)
  <2>1. cache' = cache
    BY <1>3 DEF Fetched
  <2>2. QED
    BY <1>1, <1>3, <2>1 DEF IInv, FlagsSound, CacheAnswer
<1>4. QED
  BY <1>2, <1>3

(* A read through the view: the view keeps a copy of what pcoinsTip says.   *)
LEMMA CopyInView ==
  ASSUME IInv, NEW x \in TxId, view' = Fetched(view, x, CacheAnswer(x)),
         \A y \in TxId : CacheAnswer(y)' = CacheAnswer(y)
  PROVE  /\ view' \in [TxId -> Entry \union {NoEntry}]
         /\ \A y \in TxId : ViewAnswer(y)' = ViewAnswer(y)
         /\ \A y \in TxId : view'[y] # NoEntry =>
               /\ view'[y].fresh => OrPruned(CacheAnswer(y)) = Pruned
               /\ ~ view'[y].dirty => view'[y].coins = CacheAnswer(y)
         /\ \A y \in TxId : y # x => view'[y] = view[y]
         /\ view[x] # NoEntry => view'[x] = view[x]
         /\ view[x] = NoEntry /\ CacheAnswer(x) = Absent => view'[x] = NoEntry
<1>1. /\ view \in [TxId -> Entry \union {NoEntry}]
      /\ CacheAnswer(x) \in Coin \union {Absent}
  BY Answers DEF IInv, TypeOK
<1>2. \A y \in TxId : view[y] # NoEntry =>
               /\ view[y].fresh => OrPruned(CacheAnswer(y)) = Pruned
               /\ ~ view[y].dirty => view[y].coins = CacheAnswer(y)
  BY DEF IInv, FlagsSound, CacheCoins
<1>3. CASE view[x] = NoEntry /\ CacheAnswer(x) # Absent
  <2>1. /\ Kept(CacheAnswer(x)) \in Entry
        /\ Kept(CacheAnswer(x)).coins = CacheAnswer(x)
        /\ Kept(CacheAnswer(x)).fresh => CacheAnswer(x) = Pruned
    BY <1>1, <1>3 DEF Kept, Entry, Coin
  <2>2. view' = [view EXCEPT ![x] = Kept(CacheAnswer(x))]
    BY <1>3 DEF Fetched
  <2>3. QED
    BY <1>1, <1>2, <1>3, <2>1, <2>2 DEF ViewAnswer, OrPruned
<1>4. CASE ~ (view[x] = NoEntry /\ CacheAnswer(x) # Absent)
  <2>1. view' = view
    BY <1>4 DEF Fetched
  <2>2. QED
    BY <1>1, <1>2, <1>4, <2>1 DEF ViewAnswer
<1>5. QED
  BY <1>3, <1>4

(* What pcoinsTip holds of one transaction after a flush of the view: the   *)
(* coins of the view, under flags that are right.                           *)
LEMMA MergedEntry ==
  ASSUME IInv, NEW x \in TxId
  PROVE  LET n == Merged(cache[x], view[x])
         IN  /\ n = NoEntry \/ n \in Entry
             /\ n # NoEntry => /\ n.fresh => db[x] = Absent
                               /\ ~ n.dirty => n.coins = db[x]
             /\ OrPruned(IF n = NoEntry THEN db[x] ELSE n.coins) = OrPruned(ViewAnswer(x))
<1> DEFINE c == cache[x]
           e == view[x]
           n == Merged(c, e)
<1>1. /\ c = NoEntry \/ c \in Entry
      /\ e = NoEntry \/ e \in Entry
      /\ db[x] \in Value \union {Absent}
  BY Answers DEF IInv
<1>2. /\ c # NoEntry => (c.fresh => db[x] = Absent) /\ (~ c.dirty => c.coins = db[x])
      /\ e # NoEntry => /\ e.fresh => OrPruned(IF c = NoEntry THEN db[x] ELSE c.coins) = Pruned
                        /\ ~ e.dirty => e.coins = IF c = NoEntry THEN db[x] ELSE c.coins
      /\ e # NoEntry /\ c = NoEntry => e.fresh
  BY DEF IInv, FlagsSound, ReadsLeaveCopies, CacheCoins, CacheAnswer
<1>3. ViewAnswer(x) = IF e = NoEntry THEN (IF c = NoEntry THEN db[x] ELSE c.coins) ELSE e.coins
  BY DEF ViewAnswer, CacheAnswer
<1>4. CASE e = NoEntry \/ ~ e.dirty
  <2>1. n = c
    BY <1>1, <1>4 DEF Merged, Dirty
  <2>2. QED
    BY <1>1, <1>2, <1>3, <1>4, <2>1
<1>5. CASE e # NoEntry /\ e.dirty /\ c = NoEntry /\ e.coins = Pruned
  <2>1. n = NoEntry
    BY <1>5 DEF Merged, Dirty
  <2>2. db[x] = Absent
    BY <1>1, <1>2, <1>5 DEF OrPruned
  <2>3. QED
    BY <1>3, <1>5, <2>1, <2>2 DEF OrPruned
<1>6. CASE e # NoEntry /\ e.dirty /\ c = NoEntry /\ e.coins # Pruned
  <2>1. n = [coins |-> e.coins, dirty |-> TRUE, fresh |-> TRUE]
    BY <1>6 DEF Merged, Dirty
  <2>2. db[x] = Absent
    BY <1>1, <1>2, <1>6 DEF OrPruned
  <2>3. n.coins = e.coins /\ n.dirty
    BY <2>1
  <2>4. e.coins \in Coin
    BY <1>1, <1>6 DEF Entry
  <2>5. n \in Entry
    BY <2>1, <2>4 DEF Entry
  <2>6. n # NoEntry
    BY <2>5
  <2>7. QED
    BY <1>3, <1>6, <2>2, <2>3, <2>5, <2>6
<1>7. CASE e # NoEntry /\ e.dirty /\ c # NoEntry /\ c.fresh /\ e.coins = Pruned
  <2>1. n = NoEntry
    BY <1>7 DEF Merged, Dirty
  <2>2. QED
    BY <1>2, <1>3, <1>7, <2>1 DEF OrPruned
<1>8. CASE e # NoEntry /\ e.dirty /\ c # NoEntry /\ ~ (c.fresh /\ e.coins = Pruned)
  <2>1. n = [c EXCEPT !.coins = e.coins, !.dirty = TRUE]
    BY <1>8 DEF Merged, Dirty
  <2>2. n \in Entry /\ n.coins = e.coins /\ n.dirty /\ n.fresh = c.fresh
    BY <1>1, <1>8, <2>1 DEF Entry
  <2>3. QED
    BY <1>2, <1>3, <1>8, <2>2
<1>9. QED
  BY <1>4, <1>5, <1>6, <1>7, <1>8

(* What the database holds of one transaction after a flush of pcoinsTip.   *)
LEMMA WrittenCoins ==
  ASSUME IInv, NEW x \in TxId
  PROVE  /\ Written(db[x], cache[x]) \in Value \union {Absent}
         /\ OrPruned(Written(db[x], cache[x])) = OrPruned(CacheAnswer(x))
<1>1. db[x] \in Value \union {Absent} /\ (cache[x] = NoEntry \/ cache[x] \in Entry)
  BY Answers DEF IInv
<1>2. cache[x] # NoEntry /\ ~ cache[x].dirty => cache[x].coins = db[x]
  BY DEF IInv, FlagsSound
<1>3. QED
  BY <1>1, <1>2 DEF Written, Dirty, OrPruned, CacheAnswer, Entry, Coin

-----------------------------------------------------------------------------
(* The steps: IInv is kept, and the coins at each level are what the        *)
(* corresponding step of CoinsStore makes of them.                          *)

SameDb == DbCoins' = DbCoins /\ dbBest' = dbBest
SameTip == CacheCoins' = CacheCoins /\ TipBest' = TipBest
SameView == ViewCoins' = ViewCoins /\ viewBest' = viewBest /\ mode' = mode

LEMMA ReadTipStep ==
  ASSUME IInv, NEW x \in TxId, ReadTip(x)
  PROVE  IInv' /\ SameDb /\ SameTip /\ SameView
<1>1. /\ cache' \in [TxId -> Entry \union {NoEntry}]
      /\ \A y \in TxId : CacheAnswer(y)' = CacheAnswer(y)
      /\ \A y \in TxId : cache'[y] # NoEntry =>
            /\ cache'[y].fresh => db[y] = Absent
            /\ ~ cache'[y].dirty => cache'[y].coins = db[y]
  BY CopyInTip DEF ReadTip
<1>2. view = Empty /\ view' = view
  BY DEF IInv, ViewLifecycle, ReadTip
<1>3. TypeOK' /\ ViewLifecycle'
  BY <1>1 DEF IInv, TypeOK, ViewLifecycle, ReadTip, Empty
<1>4. FlagsSound' /\ ReadsLeaveCopies'
  BY <1>1, <1>2 DEF FlagsSound, ReadsLeaveCopies, ReadTip, Empty
<1>5. SameDb /\ SameTip /\ SameView
  BY <1>1, <1>2 DEF SameDb, SameTip, SameView, ReadTip, DbCoins, CacheCoins, ViewCoins,
                    ViewAnswer, TipBest
<1>6. QED
  BY <1>3, <1>4, <1>5 DEF IInv

LEMMA ReadCoinsStep ==
  ASSUME IInv, NEW x \in TxId, ReadCoins(x)
  PROVE  IInv' /\ SameDb /\ SameTip /\ SameView
<1>1. /\ cache' \in [TxId -> Entry \union {NoEntry}]
      /\ \A y \in TxId : CacheAnswer(y)' = CacheAnswer(y)
      /\ \A y \in TxId : cache'[y] # NoEntry =>
            /\ cache'[y].fresh => db[y] = Absent
            /\ ~ cache'[y].dirty => cache'[y].coins = db[y]
      /\ \A y \in TxId : cache'[y] = NoEntry => cache[y] = NoEntry
      /\ view[x] = NoEntry /\ cache'[x] = NoEntry => CacheAnswer(x) = Absent
  <2>1. CASE view[x] = NoEntry
    <3>1. cache' = Fetched(cache, x, db[x]) /\ UNCHANGED db
      BY <2>1 DEF ReadCoins
    <3>2. QED
      BY <3>1, CopyInTip DEF CacheAnswer
  <2>2. CASE view[x] # NoEntry
    <3>1. cache' = cache /\ UNCHANGED db
      BY <2>2 DEF ReadCoins
    <3>2. QED
      BY <2>2, <3>1 DEF IInv, TypeOK, FlagsSound, CacheAnswer
  <2>3. QED
    BY <2>1, <2>2
<1>2. /\ view' \in [TxId -> Entry \union {NoEntry}]
      /\ \A y \in TxId : ViewAnswer(y)' = ViewAnswer(y)
      /\ \A y \in TxId : view'[y] # NoEntry =>
            /\ view'[y].fresh => OrPruned(CacheAnswer(y)) = Pruned
            /\ ~ view'[y].dirty => view'[y].coins = CacheAnswer(y)
      /\ \A y \in TxId : y # x => view'[y] = view[y]
      /\ view[x] # NoEntry => view'[x] = view[x]
      /\ view[x] = NoEntry /\ CacheAnswer(x) = Absent => view'[x] = NoEntry
  BY <1>1, CopyInView DEF ReadCoins
<1>3. TypeOK' /\ ViewLifecycle'
  BY <1>1, <1>2 DEF IInv, TypeOK, ViewLifecycle, ReadCoins
<1>4. FlagsSound'
  BY <1>1, <1>2 DEF FlagsSound, ReadCoins, CacheCoins
<1>5. ReadsLeaveCopies'
  BY <1>1, <1>2 DEF IInv, ReadsLeaveCopies
<1>6. SameDb /\ SameTip /\ SameView
  BY <1>1, <1>2 DEF SameDb, SameTip, SameView, ReadCoins, DbCoins, CacheCoins, ViewCoins, TipBest
<1>7. QED
  BY <1>3, <1>4, <1>5, <1>6 DEF IInv

LEMMA OpenViewStep ==
  ASSUME IInv, OpenView
  PROVE  /\ IInv' /\ SameDb /\ SameTip
         /\ ViewCoins' = CacheCoins /\ viewBest' = TipBest
<1>1. view' = Empty /\ TipBest \in Block /\ NoBlock \notin Block
  BY CoinsTyped DEF OpenView, IInv
<1>2. TypeOK' /\ ViewLifecycle'
  BY <1>1 DEF IInv, TypeOK, ViewLifecycle, OpenView, Empty
<1>3. FlagsSound' /\ ReadsLeaveCopies'
  BY <1>1 DEF IInv, FlagsSound, ReadsLeaveCopies, OpenView, Empty, CacheCoins, CacheAnswer
<1>4. SameDb /\ SameTip
  BY <1>1 DEF SameDb, SameTip, OpenView, DbCoins, CacheCoins, CacheAnswer, TipBest
<1>5. ViewCoins' = CacheCoins
  BY <1>1 DEF OpenView, ViewCoins, ViewAnswer, CacheCoins, CacheAnswer, Empty
<1>6. QED
  BY <1>2, <1>3, <1>4, <1>5 DEF IInv, OpenView

LEMMA SetBestBlockStep ==
  ASSUME IInv, NEW b \in Block, SetBestBlock(b)
  PROVE  /\ IInv' /\ SameDb /\ SameTip
         /\ ViewCoins' = ViewCoins /\ viewBest' = b
<1>1. TypeOK' /\ ViewLifecycle'
  BY DEF IInv, TypeOK, ViewLifecycle, SetBestBlock
<1>2. FlagsSound' /\ ReadsLeaveCopies'
  BY DEF IInv, FlagsSound, ReadsLeaveCopies, SetBestBlock, CacheCoins, CacheAnswer
<1>3. SameDb /\ SameTip /\ ViewCoins' = ViewCoins
  BY DEF SameDb, SameTip, SetBestBlock, DbCoins, CacheCoins, CacheAnswer, TipBest, ViewCoins,
         ViewAnswer
<1>4. QED
  BY <1>1, <1>2, <1>3 DEF IInv, SetBestBlock

LEMMA DiscardViewStep ==
  ASSUME IInv, DiscardView
  PROVE  IInv' /\ SameDb /\ SameTip
<1>1. TypeOK' /\ ViewLifecycle'
  BY DEF IInv, TypeOK, ViewLifecycle, DiscardView, Empty
<1>2. FlagsSound' /\ ReadsLeaveCopies'
  BY DEF IInv, FlagsSound, ReadsLeaveCopies, DiscardView, Empty, CacheCoins, CacheAnswer
<1>3. SameDb /\ SameTip
  BY DEF SameDb, SameTip, DiscardView, DbCoins, CacheCoins, CacheAnswer, TipBest
<1>4. QED
  BY <1>1, <1>2, <1>3 DEF IInv

LEMMA FlushViewStep ==
  ASSUME IInv, FlushView
  PROVE  /\ IInv' /\ SameDb
         /\ CacheCoins' = ViewCoins /\ TipBest' = viewBest
<1>1. /\ \A x \in TxId : cache'[x] = Merged(cache[x], view[x])
      /\ db' = db /\ view' = Empty /\ viewBest \in Block
  BY DEF FlushView, IInv, ViewLifecycle
<1>2. /\ \A x \in TxId : cache'[x] = NoEntry \/ cache'[x] \in Entry
      /\ \A x \in TxId : cache'[x] # NoEntry =>
            /\ cache'[x].fresh => db[x] = Absent
            /\ ~ cache'[x].dirty => cache'[x].coins = db[x]
      /\ \A x \in TxId : OrPruned(IF cache'[x] = NoEntry THEN db[x] ELSE cache'[x].coins)
                            = OrPruned(ViewAnswer(x))
  BY <1>1, MergedEntry
<1>3. cache' \in [TxId -> Entry \union {NoEntry}]
  BY <1>2 DEF FlushView
<1>4. TypeOK' /\ ViewLifecycle'
  BY <1>1, <1>3 DEF IInv, TypeOK, ViewLifecycle, FlushView, Empty
<1>5. FlagsSound' /\ ReadsLeaveCopies'
  BY <1>1, <1>2 DEF FlagsSound, ReadsLeaveCopies, Empty
<1>6. CacheCoins' = ViewCoins
  BY <1>1, <1>2 DEF CacheCoins, CacheAnswer, ViewCoins
<1>7. SameDb /\ TipBest' = viewBest
  BY <1>1 DEF SameDb, DbCoins, TipBest, FlushView
<1>8. QED
  BY <1>4, <1>5, <1>6, <1>7 DEF IInv

(* ModifyCoins marks an entry fresh only if pcoinsTip has nothing unspent,  *)
(* so that dropping it when it is pruned leaves the view without coins.     *)
LEMMA ModifyCoinsStep ==
  ASSUME IInv, NEW x \in TxId, NEW c \in Coin, ModifyCoins(x, c)
  PROVE  /\ IInv' /\ SameDb /\ SameTip /\ viewBest' = viewBest /\ mode' = mode
         /\ ViewCoins' = [ViewCoins EXCEPT ![x] = c]
<1> DEFINE fresh == IF view[x] = NoEntry THEN CacheAnswer(x) \in {Absent, Pruned}
                                         ELSE view[x].fresh
           n == IF fresh /\ c = Pruned THEN NoEntry
                ELSE [coins |-> c, dirty |-> TRUE, fresh |-> fresh]
<1>1. /\ mode = "open" /\ UNCHANGED <<db, dbBest, cacheBest, viewBest, mode>>
      /\ view' = [view EXCEPT ![x] = n]
      /\ cache' = IF view[x] = NoEntry THEN Fetched(cache, x, db[x]) ELSE cache
  BY DEF ModifyCoins
<1>2. /\ cache' \in [TxId -> Entry \union {NoEntry}]
      /\ \A y \in TxId : CacheAnswer(y)' = CacheAnswer(y)
      /\ \A y \in TxId : cache'[y] # NoEntry =>
            /\ cache'[y].fresh => db[y] = Absent
            /\ ~ cache'[y].dirty => cache'[y].coins = db[y]
      /\ \A y \in TxId : cache'[y] = NoEntry => cache[y] = NoEntry
      /\ view[x] = NoEntry /\ cache'[x] = NoEntry => CacheAnswer(x) = Absent
  <2>1. CASE view[x] = NoEntry
    <3>1. cache' = Fetched(cache, x, db[x]) /\ UNCHANGED db
      BY <1>1, <2>1
    <3>2. QED
      BY <3>1, CopyInTip DEF CacheAnswer
  <2>2. CASE view[x] # NoEntry
    <3>1. cache' = cache /\ UNCHANGED db
      BY <1>1, <2>2
    <3>2. QED
      BY <2>2, <3>1 DEF IInv, TypeOK, FlagsSound, CacheAnswer
  <2>3. QED
    BY <2>1, <2>2
<1>3. /\ view \in [TxId -> Entry \union {NoEntry}]
      /\ view[x] = NoEntry \/ view[x] \in Entry
  BY Answers DEF IInv, TypeOK
<1>4. fresh \in BOOLEAN
  <2>1. CASE view[x] = NoEntry
    <3>1. CASE CacheAnswer(x) \in {Absent, Pruned}
      <4>1. fresh = TRUE
        BY <2>1, <3>1
      <4>2. QED
        BY <4>1
    <3>2. CASE CacheAnswer(x) \notin {Absent, Pruned}
      <4>1. fresh = FALSE
        BY <2>1, <3>2
      <4>2. QED
        BY <4>1
    <3>3. QED
      BY <3>1, <3>2
  <2>2. CASE view[x] # NoEntry
    <3>1. view[x].fresh \in BOOLEAN
      BY <1>3, <2>2 DEF Entry
    <3>2. fresh = view[x].fresh
      BY <2>2
    <3>3. QED
      BY <3>1, <3>2
  <2>3. QED
    BY <2>1, <2>2
<1>5. fresh => OrPruned(CacheAnswer(x)) = Pruned
  BY <1>3 DEF IInv, FlagsSound, CacheCoins, OrPruned
<1>6. /\ n # NoEntry => n \in Entry /\ n.dirty /\ n.fresh = fresh /\ n.coins = c
      /\ n = NoEntry => fresh /\ c = Pruned
  <2>1. [coins |-> c, dirty |-> TRUE, fresh |-> fresh] \in Entry
    BY <1>4 DEF Entry
  <2>2. QED
    BY <2>1
<1>7. view'[x] = n /\ \A y \in TxId : y # x => view'[y] = view[y]
  BY <1>1, <1>3
<1>8. view' \in [TxId -> Entry \union {NoEntry}]
  <2>1. n \in Entry \union {NoEntry}
    BY <1>6
  <2>2. QED
    BY <1>1, <1>3, <2>1
<1>9. TypeOK' /\ ViewLifecycle'
  BY <1>1, <1>2, <1>8 DEF IInv, TypeOK, ViewLifecycle
<1>10. FlagsSound'
  <2>1. ASSUME NEW y \in TxId, view'[y] # NoEntry
        PROVE  /\ view'[y].fresh => OrPruned(CacheAnswer(y)) = Pruned
               /\ ~ view'[y].dirty => view'[y].coins = CacheAnswer(y)
    <3>1. CASE y = x
      BY <1>5, <1>6, <1>7, <2>1, <3>1
    <3>2. CASE y # x
      BY <1>7, <2>1, <3>2 DEF IInv, FlagsSound, CacheCoins
    <3>3. QED
      BY <3>1, <3>2
  <2>2. QED
    BY <1>1, <1>2, <2>1 DEF FlagsSound, CacheCoins
<1>11. ReadsLeaveCopies'
  <2>1. ASSUME NEW y \in TxId, view'[y] # NoEntry, cache'[y] = NoEntry
        PROVE  view'[y].fresh
    <3>1. cache[y] = NoEntry
      BY <1>2, <2>1
    <3>2. CASE y = x
      <4>1. fresh
        BY <1>2, <2>1, <3>1, <3>2 DEF IInv, ReadsLeaveCopies
      <4>2. QED
        BY <1>6, <1>7, <2>1, <3>2, <4>1
    <3>3. CASE y # x
      BY <1>7, <2>1, <3>1, <3>3 DEF IInv, ReadsLeaveCopies
    <3>4. QED
      BY <3>2, <3>3
  <2>2. QED
    BY <2>1 DEF ReadsLeaveCopies
<1>12. SameDb /\ SameTip
  BY <1>1, <1>2 DEF SameDb, SameTip, DbCoins, CacheCoins, TipBest
<1>13. ViewCoins' = [ViewCoins EXCEPT ![x] = c]
  <2>1. OrPruned(ViewAnswer(x))' = c
    <3>1. CASE n = NoEntry
      BY <1>2, <1>5, <1>6, <1>7, <3>1 DEF ViewAnswer, OrPruned
    <3>2. CASE n # NoEntry
      BY <1>6, <1>7, <3>2 DEF ViewAnswer, OrPruned
    <3>3. QED
      BY <3>1, <3>2
  <2>2. \A y \in TxId : y # x => ViewAnswer(y)' = ViewAnswer(y)
    BY <1>2, <1>7 DEF ViewAnswer
  <2>3. QED
    BY <2>1, <2>2 DEF ViewCoins, OrPruned
<1>14. QED
  BY <1>1, <1>9, <1>10, <1>11, <1>12, <1>13 DEF IInv

LEMMA FlushTipStep ==
  ASSUME IInv, FlushTip
  PROVE  /\ IInv' /\ SameTip /\ SameView
         /\ DbCoins' = CacheCoins /\ dbBest' = TipBest
<1>1. /\ \A x \in TxId : db'[x] = Written(db[x], cache[x])
      /\ cache' = Empty /\ view' = view /\ view = Empty
  BY DEF FlushTip, IInv, ViewLifecycle
<1>2. /\ \A x \in TxId : db'[x] \in Value \union {Absent}
      /\ \A x \in TxId : OrPruned(db'[x]) = OrPruned(CacheAnswer(x))
  BY <1>1, WrittenCoins
<1>3. db' \in [TxId -> Value \union {Absent}]
  BY <1>2 DEF FlushTip
<1>4. TypeOK' /\ ViewLifecycle'
  BY <1>3, CoinsTyped DEF IInv, TypeOK, ViewLifecycle, FlushTip, Empty
<1>5. FlagsSound' /\ ReadsLeaveCopies'
  BY <1>1 DEF FlagsSound, ReadsLeaveCopies, Empty
<1>6. DbCoins' = CacheCoins /\ CacheCoins' = CacheCoins /\ ViewCoins' = ViewCoins
  BY <1>1, <1>2 DEF DbCoins, CacheCoins, ViewCoins, CacheAnswer, ViewAnswer, Empty
<1>7. SameTip /\ SameView
  BY <1>6 DEF SameTip, SameView, TipBest, FlushTip
<1>8. QED
  BY <1>4, <1>5, <1>6, <1>7 DEF IInv, FlushTip

(* A refused batch loses coins, but no flag lies afterwards.                *)
LEMMA FlushTipFailsStep ==
  ASSUME IInv, FlushTipFails
  PROVE  /\ IInv' /\ SameDb
         /\ CacheCoins' = DbCoins /\ TipBest' = TipBest
<1>1. cache' = Empty /\ view = Empty /\ view' = Empty /\ db' = db
  BY DEF FlushTipFails, IInv, ViewLifecycle
<1>2. TypeOK' /\ ViewLifecycle'
  BY <1>1 DEF IInv, TypeOK, ViewLifecycle, FlushTipFails, Empty
<1>3. FlagsSound' /\ ReadsLeaveCopies'
  BY <1>1 DEF FlagsSound, ReadsLeaveCopies, Empty
<1>4. SameDb /\ CacheCoins' = DbCoins /\ TipBest' = TipBest
  BY <1>1 DEF SameDb, DbCoins, CacheCoins, CacheAnswer, Empty, TipBest, FlushTipFails
<1>5. QED
  BY <1>2, <1>3, <1>4 DEF IInv

LEMMA RestartStep ==
  ASSUME IInv, Restart
  PROVE  /\ IInv' /\ SameDb
         /\ CacheCoins' = DbCoins /\ TipBest' = dbBest
<1>1. cache' = Empty /\ view' = Empty /\ db' = db
  BY DEF Restart
<1>2. TypeOK' /\ ViewLifecycle'
  BY <1>1 DEF IInv, TypeOK, ViewLifecycle, Restart, Empty
<1>3. FlagsSound' /\ ReadsLeaveCopies'
  BY <1>1 DEF FlagsSound, ReadsLeaveCopies, Empty
<1>4. SameDb /\ CacheCoins' = DbCoins /\ TipBest' = dbBest
  BY <1>1 DEF SameDb, DbCoins, CacheCoins, CacheAnswer, Empty, TipBest, Restart
<1>5. QED
  BY <1>2, <1>3, <1>4 DEF IInv

-----------------------------------------------------------------------------
(* The theorems                                                             *)

LEMMA InitIInv == Init => IInv /\ DbCoins = CoinsAt[Genesis] /\ CacheCoins = DbCoins
                              /\ TipBest = Genesis
<1>1. SUFFICES ASSUME Init
               PROVE  IInv /\ DbCoins = CoinsAt[Genesis] /\ CacheCoins = DbCoins
                           /\ TipBest = Genesis
  OBVIOUS
<1>2. \A x \in TxId : CoinsAt[Genesis][x] \in Coin
  OBVIOUS
<1>3. TypeOK /\ ViewLifecycle
  BY <1>1, <1>2 DEF Init, TypeOK, ViewLifecycle, Empty, Coin
<1>4. FlagsSound /\ ReadsLeaveCopies
  BY <1>1 DEF Init, FlagsSound, ReadsLeaveCopies, Empty
<1>5. DbCoins = CoinsAt[Genesis] /\ CacheCoins = DbCoins
  BY <1>1, <1>2 DEF Init, DbCoins, CacheCoins, CacheAnswer, Empty, OrPruned, Coin
<1>6. QED
  BY <1>1, <1>3, <1>4, <1>5 DEF IInv, Init, TipBest

LEMMA NextIInv == IInv /\ [Next]_vars => IInv'
<1>1. CASE UNCHANGED vars
  BY <1>1 DEF vars, IInv, TypeOK, ViewLifecycle, FlagsSound, ReadsLeaveCopies, CacheCoins,
              CacheAnswer
<1>2. ASSUME IInv, Next PROVE IInv'
  BY <1>2, ReadTipStep, ReadCoinsStep, ModifyCoinsStep, SetBestBlockStep, OpenViewStep,
     DiscardViewStep, FlushViewStep, FlushTipStep, FlushTipFailsStep, RestartStep DEF Next
<1>3. QED
  BY <1>1, <1>2

(* The inductive invariant of the coins caches.                             *)
THEOREM Invariance == Spec => []IInv
<1>1. Init => IInv
  BY InitIInv
<1>2. QED
  BY <1>1, NextIInv, PTL DEF Spec

(* Every variable keeps its type.                                           *)
THEOREM TypeCorrect == Spec => []TypeOK
<1>1. IInv => TypeOK
  BY DEF IInv
<1>2. QED
  BY <1>1, Invariance, PTL

(* The DIRTY and FRESH flags tell the truth, also after refused batches,    *)
(* and the assertion of BatchWrite (coins.cpp:179) cannot fail.             *)
THEOREM CachesAreSound == Spec => []CachesSound
<1>1. IInv => CachesSound
  BY DEF IInv, ReadsLeaveCopies, FlushAssertHolds, CachesSound
<1>2. QED
  BY <1>1, Invariance, PTL

-----------------------------------------------------------------------------
(* The coins of a level are those of the block it names                     *)

(* The view of a block that is done has that block's coins.                 *)
DoneViewExact == mode = "done" => ViewCoins = CoinsAt[viewBest]

LEMMA DoneViewStep ==
  ASSUME IInv, DoneViewExact, [Next]_vars
  PROVE  DoneViewExact'
<1> USE DEF DoneViewExact
<1>1. ASSUME NEW x \in TxId, ReadTip(x) \/ ReadCoins(x) PROVE DoneViewExact'
  BY <1>1, ReadTipStep, ReadCoinsStep DEF SameView
<1>2. ASSUME NEW x \in TxId, NEW c \in Coin, ModifyCoins(x, c) PROVE DoneViewExact'
  BY <1>2, ModifyCoinsStep DEF ModifyCoins
<1>3. ASSUME NEW b \in Block, SetBestBlock(b) PROVE DoneViewExact'
  BY <1>3, SetBestBlockStep DEF SetBestBlock
<1>4. CASE OpenView \/ DiscardView \/ FlushView \/ FlushTip \/ FlushTipFails \/ Restart
  BY <1>4 DEF OpenView, DiscardView, FlushView, FlushTip, FlushTipFails, Restart
<1>5. CASE UNCHANGED vars
  BY <1>5 DEF vars, CacheAnswer, ViewCoins, ViewAnswer
<1>6. QED
  BY <1>1, <1>2, <1>3, <1>4, <1>5 DEF Next

LEMMA ConsistentStep ==
  ASSUME IInv, DoneViewExact, DiskConsistent, TipConsistent, ~ FlushTipFails, [Next]_vars
  PROVE  DiskConsistent' /\ TipConsistent'
<1> USE DEF DoneViewExact, DiskConsistent, TipConsistent
<1> DEFINE Goal == DiskConsistent' /\ TipConsistent'
<1>1. ASSUME NEW x \in TxId, ReadTip(x) \/ ReadCoins(x) PROVE Goal
  BY <1>1, ReadTipStep, ReadCoinsStep DEF SameDb, SameTip
<1>2. ASSUME NEW x \in TxId, NEW c \in Coin, ModifyCoins(x, c) PROVE Goal
  BY <1>2, ModifyCoinsStep DEF SameDb, SameTip
<1>3. ASSUME NEW b \in Block, SetBestBlock(b) PROVE Goal
  BY <1>3, SetBestBlockStep DEF SameDb, SameTip
<1>4. CASE OpenView
  BY <1>4, OpenViewStep DEF SameDb, SameTip
<1>5. CASE DiscardView
  BY <1>5, DiscardViewStep DEF SameDb, SameTip
<1>6. CASE FlushView
  BY <1>6, FlushViewStep DEF SameDb, FlushView
<1>7. CASE FlushTip
  BY <1>7, FlushTipStep DEF SameTip
<1>8. CASE Restart
  BY <1>8, RestartStep DEF SameDb, Restart
<1>9. CASE UNCHANGED vars
  BY <1>9 DEF vars, DbCoins, CacheCoins, CacheAnswer, TipBest
<1>10. QED
  BY <1>1, <1>2, <1>3, <1>4, <1>5, <1>6, <1>7, <1>8, <1>9 DEF Next

LEMMA DoneViews == Spec => []DoneViewExact
<1>1. Init => DoneViewExact
  BY DEF Init, DoneViewExact
<1>2. IInv /\ DoneViewExact /\ [Next]_vars => DoneViewExact'
  BY DoneViewStep
<1>3. QED
  BY <1>1, <1>2, Invariance, PTL DEF Spec

(* Blocks connected, disconnected, flushed and lost in a restart keep the   *)
(* database and pcoinsTip at the coins of the blocks they name: only a      *)
(* refused batch does not.                                                  *)
THEOREM OnlyRefusalsCorrupt == Spec => OnlyRefusalCorrupts
<1>1. IInv /\ DoneViewExact /\ [Next]_vars
         => [DiskConsistent /\ TipConsistent /\ ~ FlushTipFails
               => (DiskConsistent /\ TipConsistent)']_vars
  BY ConsistentStep
<1>2. QED
  BY <1>1, DoneViews, Invariance, PTL DEF Spec, OnlyRefusalCorrupts

(* While no batch is refused, the database holds the coins of the best      *)
(* block it names, across restarts.                                         *)
THEOREM DiskIsConsistent ==
  ASSUME DbErrors = FALSE
  PROVE  Spec => []DiskConsistent
<1> DEFINE Consistent == DiskConsistent /\ TipConsistent
<1>1. Init => Consistent
  BY InitIInv DEF DiskConsistent, TipConsistent, Init
<1>2. IInv /\ DoneViewExact /\ Consistent /\ [Next]_vars => Consistent'
  BY ConsistentStep DEF FlushTipFails
<1>3. Consistent => DiskConsistent
  OBVIOUS
<1> HIDE DEF Consistent
<1>4. QED
  BY <1>1, <1>2, <1>3, DoneViews, Invariance, PTL DEF Spec

-----------------------------------------------------------------------------
(* The refinement                                                           *)

(* The record that stands for an open view is not NoView.                   *)
LEMMA OpenViewIsRecord ==
  ASSUME TypeOK, ViewLifecycle, mode # "closed"
  PROVE  [coins |-> ViewCoins, best |-> viewBest] # NoView
<1>1. [coins |-> ViewCoins, best |-> viewBest] \in [coins : [TxId -> Coin], best : Block]
  BY CoinsTyped DEF ViewLifecycle
<1>2. QED
  BY <1>1

LEMMA StepsRefine ==
  ASSUME IInv, [Next]_vars
  PROVE  [Store!Next]_(Store!vars)
<1> USE DEF Store!vars
<1>1. mode \in {"closed", "open", "done"}
  BY DEF IInv, TypeOK
<1>2. mode # "closed" => [coins |-> ViewCoins, best |-> viewBest] # NoView
  BY OpenViewIsRecord DEF IInv
<1>3. ASSUME NEW x \in TxId, ReadTip(x) PROVE UNCHANGED Store!vars
  BY <1>3, ReadTipStep DEF SameDb, SameTip, SameView
<1>4. ASSUME NEW x \in TxId, ReadCoins(x) PROVE UNCHANGED Store!vars
  BY <1>4, ReadCoinsStep DEF SameDb, SameTip, SameView
<1>5. ASSUME NEW x \in TxId, NEW c \in Coin, ModifyCoins(x, c) PROVE Store!Change(x, c)
  <2>1. mode = "open" /\ mode' = "open"
    BY <1>5 DEF ModifyCoins
  <2>2. [coins |-> ViewCoins, best |-> viewBest]'
          = [coins |-> [ViewCoins EXCEPT ![x] = c], best |-> viewBest]
    BY <1>5, ModifyCoinsStep
  <2>3. UNCHANGED <<[coins |-> DbCoins, best |-> dbBest], [coins |-> CacheCoins, best |-> TipBest]>>
    BY <1>5, ModifyCoinsStep DEF SameDb, SameTip
  <2>4. QED
    BY <1>2, <2>1, <2>2, <2>3 DEF Store!Change
<1>6. ASSUME NEW b \in Block, SetBestBlock(b) PROVE Store!Settle(b)
  <2>1. mode = "open" /\ mode' = "done"
    BY <1>6 DEF SetBestBlock
  <2>2. QED
    BY <1>2, <1>6, <2>1, SetBestBlockStep DEF SameDb, SameTip, Store!Settle
<1>7. CASE OpenView
  <2>1. mode = "closed" /\ mode' = "open"
    BY <1>7 DEF OpenView
  <2>2. Store!Open
    BY <1>7, <2>1, OpenViewStep DEF SameDb, SameTip, Store!Open
  <2>3. QED
    BY <2>2 DEF Store!Next
<1>8. CASE DiscardView
  <2>1. mode # "closed" /\ mode' = "closed"
    BY <1>8 DEF DiscardView
  <2>2. Store!Discard
    BY <1>2, <1>8, <2>1, DiscardViewStep DEF SameDb, SameTip, Store!Discard
  <2>3. QED
    BY <2>2 DEF Store!Next
<1>9. CASE FlushView
  <2>1. mode # "closed" /\ mode' = "closed"
    BY <1>9 DEF FlushView
  <2>2. Store!Commit
    BY <1>2, <1>9, <2>1, FlushViewStep DEF SameDb, Store!Commit
  <2>3. QED
    BY <2>2 DEF Store!Next
<1>10. CASE FlushTip
  <2>1. mode = "closed" /\ mode' = "closed"
    BY <1>10 DEF FlushTip
  <2>2. Store!Save
    BY <1>10, <2>1, FlushTipStep DEF SameTip, Store!Save
  <2>3. QED
    BY <2>2 DEF Store!Next
<1>11. CASE Restart
  <2>1. mode' = "closed"
    BY <1>11 DEF Restart
  <2>2. Store!Restart
    BY <1>11, <2>1, RestartStep DEF SameDb, Store!Restart
  <2>3. QED
    BY <2>2 DEF Store!Next
<1>12. CASE UNCHANGED vars
  BY <1>12 DEF vars, DbCoins, CacheCoins, CacheAnswer, ViewCoins, ViewAnswer, TipBest
<1>13. CASE FlushTipFails
  <2>1. DbErrors /\ mode = "closed" /\ mode' = "closed"
    BY <1>13 DEF FlushTipFails
  <2>2. Store!Lose
    BY <1>13, <2>1, FlushTipFailsStep DEF SameDb, Store!Lose
  <2>3. QED
    BY <2>2 DEF Store!Next
<1>14. QED
  BY <1>3, <1>4, <1>5, <1>6, <1>7, <1>8, <1>9, <1>10, <1>11, <1>12, <1>13
     DEF Next, Store!Next

(* The two caches with their flags implement plain sets of coins, refused   *)
(* batches included: every step is one of CoinsStore's or changes none.     *)
THEOREM CachesImplementStore == Spec => ImplementsStore
<1>1. Init => Store!Init
  BY InitIInv DEF Init, Store!Init
<1>2. IInv /\ [Next]_vars => [Store!Next]_(Store!vars)
  BY StepsRefine
<1>3. QED
  BY <1>1, <1>2, Invariance, PTL DEF Spec, ImplementsStore, Store!Spec
=============================================================================
