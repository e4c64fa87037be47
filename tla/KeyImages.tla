------------------------------ MODULE KeyImages ------------------------------
(***************************************************************************)
(* The key-image records that stand in for a spent-output set: ring inputs *)
(* hide which output they spend, so ConnectBlock detects a double spend    *)
(* only by the list of blocks CBlockTreeDB keeps under every key image     *)
(* (src/src/txdb.cpp).  The lists are append-only: a disconnected or       *)
(* rejected block keeps its records, and connecting a block again adds to  *)
(* them.  IsKeyImageSpend1 (src/src/main.cpp) must therefore tell records  *)
(* of the block's own chain from those of other branches.                  *)
(***************************************************************************)
EXTENDS BlockTree, Sequences

CONSTANTS
    KeyImage,   \* key images
    Spends,     \* key images of a block's non-coinbase inputs ({} for a
                \* PoA block, whose inputs ConnectBlock does not look at);
                \* a set, for CheckBlock refuses a repeated key image
    NoBlock,    \* no block is being connected
    MaxRecords  \* bound on the number of records

ASSUME KeyImagesAssumption ==
    /\ Spends \in [Block -> SUBSET KeyImage]
    /\ Spends[Genesis] = {}     \* ConnectBlock skips its transactions
    /\ NoBlock \notin Block
    /\ MaxRecords \in Nat

VARIABLES
    records,     \* the writes of WriteKeyImage in order, as <<image, block>>
    synced,      \* how many of them a WriteBatchSync has made durable
    tip,         \* chainActive.Tip()
    flushed,     \* best blocks the coins database may hold after a crash
    connecting,  \* the block ConnectBlock works on
    todo,        \* key images of its inputs still to be looked at
    connected    \* history: blocks that have ever been the tip

vars == <<records, synced, tip, flushed, connecting, todo, connected>>

Active == Anc[tip]

StrictAnc(b) == Anc[b] \ {b}

Init ==
    /\ records = <<>>
    /\ synced = 0
    /\ tip = Genesis
    /\ flushed = {Genesis}
    /\ connecting = NoBlock
    /\ todo = {}
    /\ connected = {Genesis}

-----------------------------------------------------------------------------

(* Bug: only the oldest record of k is looked at.                          *)
IsKeyImageSpendOldest(k, b) ==
    \E i \in DOMAIN records :
        /\ records[i][1] = k
        /\ records[i][2] \in StrictAnc(b)
        /\ \A j \in 1 .. i - 1 : records[j][1] # k

(* IsKeyImageSpend1(k, b), ConnectBlock's question.  ReadKeyImages returns *)
(* the list of k in write order; b's own record, met first, means "not     *)
(* spent", and an ancestor's record, met first, means "spent".             *)
IsKeyImageSpend1(k, b) ==
    \E i \in DOMAIN records :
        /\ records[i][1] = k
        /\ records[i][2] \in StrictAnc(b)
        /\ \A j \in 1 .. i : records[j] # <<k, b>>

(* Bug: a record counts whichever branch its block is on.                  *)
IsSpentAnywhere(k) == \E i \in DOMAIN records : records[i][1] = k

(* IsKeyImageSpend1(k, 0), the question of the mempool, the miner and the  *)
(* masternode code: is k spent in the active chain?                        *)
IsSpentInMainChain(k) ==
    \E i \in DOMAIN records : records[i][1] = k /\ records[i][2] \in Active

WriteKeyImage(k, b) ==
    /\ Len(records) < MaxRecords
    /\ records' = Append(records, <<k, b>>)

-----------------------------------------------------------------------------

(* ConnectTip on a child of the tip.  (The genesis block is connected      *)
(* once, when the databases are created.)                                  *)
BeginConnect(b) ==
    /\ connecting = NoBlock
    /\ b # Genesis /\ Parent[b] = tip
    /\ connecting' = b
    /\ todo' = Spends[b]
    /\ UNCHANGED <<records, synced, tip, flushed, connected>>

(* Bug: the image is recorded before it is looked up.                      *)
SpendInputFirst(k) ==
    /\ connecting # NoBlock /\ k \in todo
    /\ WriteKeyImage(k, connecting)
    /\ IF IsKeyImageSpend1(k, connecting)
       THEN todo' = {} /\ connecting' = NoBlock
       ELSE todo' = todo \ {k} /\ UNCHANGED connecting
    /\ UNCHANGED <<synced, tip, flushed, connected>>

(* One input: not spent on this chain, so it is recorded at once, before   *)
(* the rest of the block is checked.                                       *)
SpendInput(k) ==
    /\ connecting # NoBlock /\ k \in todo
    /\ ~ IsKeyImageSpend1(k, connecting)
    /\ WriteKeyImage(k, connecting)
    /\ todo' = todo \ {k}
    /\ UNCHANGED <<synced, tip, flushed, connecting, connected>>

(* "ConnectBlock() : key image already spent", or any other rule or system *)
(* error: the records already written stay.                                *)
FailConnect ==
    /\ connecting # NoBlock
    /\ connecting' = NoBlock
    /\ todo' = {}
    /\ UNCHANGED <<records, synced, tip, flushed, connected>>

FinishConnect ==
    /\ connecting # NoBlock /\ todo = {}
    /\ tip' = connecting
    /\ connected' = connected \union {connecting}
    /\ connecting' = NoBlock
    /\ UNCHANGED <<records, synced, flushed, todo>>

(* DisconnectTip flushes with FLUSH_STATE_ALWAYS: the block-tree database  *)
(* synchronously, then the coins.                                          *)
DisconnectTip ==
    /\ connecting = NoBlock
    /\ tip # Genesis
    /\ tip' = Parent[tip]
    /\ synced' = Len(records)
    /\ flushed' = flushed \union {Parent[tip]}
    /\ UNCHANGED <<records, connecting, todo, connected>>

(* CWallet::AddToWallet writes the key images of a wallet transaction once *)
(* more, for the block that confirms it: after the block is connected, or  *)
(* when the wallet is loaded.                                              *)
WalletRecord(k, b) ==
    /\ connecting = NoBlock
    /\ b \in connected /\ k \in Spends[b]
    /\ WriteKeyImage(k, b)
    /\ UNCHANGED <<synced, tip, flushed, connecting, todo, connected>>

(* FlushStateToDisk: WriteBatchSync, then pcoinsTip->Flush(), which is not *)
(* synchronous.                                                            *)
FlushIndex ==
    /\ connecting = NoBlock
    /\ synced' = Len(records)
    /\ UNCHANGED <<records, tip, flushed, connecting, todo, connected>>

(* Bug: the coins are flushed without the index.                           *)
FlushCoinsOnly ==
    /\ connecting = NoBlock
    /\ flushed' = flushed \union {tip}
    /\ UNCHANGED <<records, synced, tip, connecting, todo, connected>>

FlushStateToDisk ==
    /\ connecting = NoBlock
    /\ synced' = Len(records)
    /\ flushed' = flushed \union {tip}
    /\ UNCHANGED <<records, tip, connecting, todo, connected>>

(* The machine stops: the unsynced end of either database may be lost.     *)
(* LoadBlockIndexDB starts again from the best block of the coins          *)
(* database.  (Before that it may replay stored blocks into the coins,     *)
(* main.cpp:4987-5051, unless -forcestart is given; that replay is not     *)
(* modelled here.)                                                         *)
CrashAndRestart ==
    /\ \E n \in synced .. Len(records) :
          /\ records' = SubSeq(records, 1, n)
          /\ synced' = n
    /\ tip' \in flushed
    /\ flushed' = {tip'}
    /\ connecting' = NoBlock
    /\ todo' = {}
    /\ UNCHANGED connected

Next ==
    \/ \E b \in Block : BeginConnect(b)
    \/ \E k \in KeyImage : SpendInput(k)
    \/ FailConnect
    \/ FinishConnect
    \/ DisconnectTip
    \/ \E k \in KeyImage, b \in Block : WalletRecord(k, b)
    \/ FlushIndex
    \/ FlushStateToDisk
    \/ CrashAndRestart

Spec == Init /\ [][Next]_vars

-----------------------------------------------------------------------------
(* Properties *)

(* Types of the variables.                                                 *)
TypeOK ==
    /\ records \in Seq(KeyImage \X Block)
    /\ synced \in 0 .. Len(records)
    /\ tip \in Block
    /\ flushed \in SUBSET Block
    /\ connecting \in Block \union {NoBlock}
    /\ todo \in SUBSET KeyImage
    /\ connected \in SUBSET Block

(* No chain of blocks that was ever active spends a key image twice,       *)
(* across reorganisations, failed connections, repeated records and        *)
(* crashes.                                                                *)
NoDoubleSpend ==
    \A b \in connected : \A a \in StrictAnc(b) : Spends[a] \cap Spends[b] = {}

(* The mempool's and the miner's question has the right answer: a key      *)
(* image is reported spent exactly if a block of the active chain spends   *)
(* it.                                                                     *)
MainChainAnswerExact ==
    \A k \in KeyImage :
        IsSpentInMainChain(k) <=> \E a \in Active : k \in Spends[a]

(* The index is on disk before the coins that refer to it: whatever best   *)
(* block survives a crash, the key images of its chain survive too.        *)
FlushedIsRecorded ==
    \A f \in flushed : \A a \in Anc[f] : \A k \in Spends[a] :
        \E i \in 1 .. synced : records[i] = <<k, a>>

(* Nothing is ever recorded for a double spend, not even by a block that   *)
(* failed later: no record names a block with an ancestor that spends the  *)
(* key image.  So it never matters that a list is read in write order.     *)
RecordsClean ==
    \A i \in DOMAIN records :
        /\ records[i][1] \in Spends[records[i][2]]
        /\ \A a \in StrictAnc(records[i][2]) : records[i][1] \notin Spends[a]

-----------------------------------------------------------------------------
(* The inductive invariant.                                                *)

HistoryClosed ==
    /\ tip \in connected /\ flushed \subseteq connected
    /\ \A b \in connected : Anc[b] \subseteq connected

ActiveIsRecorded ==
    \A a \in Active : \A k \in Spends[a] : \E i \in DOMAIN records : records[i] = <<k, a>>

(* The inputs ConnectBlock is done with are recorded and were unspent.     *)
ConnectingIsRecorded ==
    connecting # NoBlock =>
        /\ connecting # Genesis /\ Parent[connecting] = tip
        /\ todo \subseteq Spends[connecting]
        /\ \A k \in Spends[connecting] \ todo :
              /\ \E i \in DOMAIN records : records[i] = <<k, connecting>>
              /\ \A a \in StrictAnc(connecting) : k \notin Spends[a]

IInv ==
    /\ TypeOK
    /\ HistoryClosed
    /\ RecordsClean
    /\ ActiveIsRecorded
    /\ FlushedIsRecorded
    /\ ConnectingIsRecorded
    /\ NoDoubleSpend
=============================================================================
