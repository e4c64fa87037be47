---------------------------- MODULE TxPoolProofs ----------------------------
(* Proofs about KeyImages and about TxPool on top of it, for every tree of  *)
(* blocks, every set of transactions and every assignment of key images to  *)
(* them.  The ledger first: no active chain spends a key image twice, and   *)
(* the records answer the mempool exactly.  Then the pool against the       *)
(* chain: a step of the pool's specification is a step of the ledger's, so  *)
(* what is proved of the ledger holds with a pool beside it.                *)
EXTENDS TxPool, BlockTreeTheorems, SequenceTheorems

USE BlockTreeAssumption, KeyImagesAssumption

-----------------------------------------------------------------------------
(* The ledger                                                               *)

(* What a write does to the list of records.                                *)
LEMMA AppendRecord ==
  ASSUME TypeOK, NEW k \in KeyImage, NEW b \in Block,
         records' = Append(records, <<k, b>>)
  PROVE  /\ records' \in Seq(KeyImage \X Block)
         /\ Len(records') = Len(records) + 1
         /\ DOMAIN records = 1 .. Len(records)
         /\ DOMAIN records' = 1 .. (Len(records) + 1)
         /\ \A i \in 1 .. Len(records) : records'[i] = records[i]
         /\ records'[Len(records) + 1] = <<k, b>>
  BY DEF TypeOK

(* What a crash leaves of them.                                             *)
LEMMA TruncateRecords ==
  ASSUME TypeOK, NEW n \in synced .. Len(records),
         records' = SubSeq(records, 1, n)
  PROVE  /\ records' \in Seq(KeyImage \X Block)
         /\ Len(records') = n
         /\ DOMAIN records = 1 .. Len(records)
         /\ DOMAIN records' = 1 .. n
         /\ \A i \in 1 .. n : records'[i] = records[i]
  BY DEF TypeOK

(* A block's strict ancestors are its parent's ancestors.                   *)
LEMMA StrictAncParent ==
  \A b \in Block \ {Genesis} : StrictAnc(b) = Anc[Parent[b]]
  BY AncParent DEF StrictAnc

(* ConnectBlock's question finds every spend by an ancestor of the block.   *)
LEMMA SpendDetected ==
  ASSUME IInv, connecting # NoBlock,
         NEW a \in StrictAnc(connecting), NEW k \in Spends[a]
  PROVE  IsKeyImageSpend1(k, connecting)
<1>1. connecting \in Block \ {Genesis} /\ Parent[connecting] = tip
  BY DEF IInv, TypeOK, ConnectingIsRecorded
<1>2. a \in Active
  BY <1>1, StrictAncParent DEF Active
<1>3. PICK i \in DOMAIN records : records[i] = <<k, a>>
  BY <1>2 DEF IInv, ActiveIsRecorded
<1>4. DOMAIN records = 1 .. Len(records) /\ Len(records) \in Nat
  BY DEF IInv, TypeOK
<1>5. \A j \in 1 .. i : records[j] # <<k, connecting>>
  <2>1. SUFFICES ASSUME NEW j \in 1 .. i, records[j] = <<k, connecting>>
                 PROVE  FALSE
    OBVIOUS
  <2>2. j \in DOMAIN records
    BY <1>4
  <2>3. records[j][1] = k /\ records[j][2] = connecting
    BY <2>1
  <2>4. records[j][1] \notin Spends[a]
    BY <2>2, <2>3 DEF IInv, RecordsClean
  <2>5. QED
    BY <2>3, <2>4
<1>6. records[i][1] = k /\ records[i][2] = a
  BY <1>3
<1>7. QED
  BY <1>5, <1>6 DEF IsKeyImageSpend1

-----------------------------------------------------------------------------

(* The invariant holds of the databases a new node creates.                 *)
LEMMA InitInv == Init => IInv
<1> SUFFICES ASSUME Init PROVE IInv
  OBVIOUS
<1> USE DEF Init
<1>1. Len(records) = 0 /\ records \in Seq(KeyImage \X Block)
  OBVIOUS
<1>2. TypeOK
  BY <1>1 DEF TypeOK
<1>3. HistoryClosed
  BY AncGenesis DEF HistoryClosed
<1>4. RecordsClean
  BY DEF RecordsClean
<1>5. ActiveIsRecorded
  BY AncGenesis DEF ActiveIsRecorded, Active
<1>6. FlushedIsRecorded
  BY AncGenesis DEF FlushedIsRecorded
<1>7. ConnectingIsRecorded
  BY DEF ConnectingIsRecorded
<1>8. NoDoubleSpend
  BY AncGenesis DEF NoDoubleSpend, StrictAnc
<1>9. QED
  BY <1>2, <1>3, <1>4, <1>5, <1>6, <1>7, <1>8 DEF IInv

(* ConnectTip starts on a child of the tip.                                 *)
LEMMA BeginConnectInv ==
  ASSUME IInv, NEW b \in Block, BeginConnect(b)
  PROVE  IInv'
<1> USE DEF BeginConnect
<1>1. TypeOK'
  BY DEF IInv, TypeOK
<1>2. HistoryClosed'
  BY DEF IInv, HistoryClosed
<1>3. RecordsClean'
  BY DEF IInv, RecordsClean
<1>4. ActiveIsRecorded'
  BY DEF IInv, ActiveIsRecorded, Active
<1>5. FlushedIsRecorded'
  BY DEF IInv, FlushedIsRecorded
<1>6. ConnectingIsRecorded'
  BY DEF ConnectingIsRecorded
<1>7. NoDoubleSpend'
  BY DEF IInv, NoDoubleSpend
<1>8. QED
  BY <1>1, <1>2, <1>3, <1>4, <1>5, <1>6, <1>7 DEF IInv

(* A record is written at the end of the list: what was recorded stays      *)
(* recorded, and the list stays clean if the new record is.                 *)
LEMMA WriteKeepsRecords ==
  ASSUME IInv, NEW k \in KeyImage, NEW b \in Block, WriteKeyImage(k, b),
         synced' = synced, tip' = tip, flushed' = flushed,
         k \in Spends[b], \A a \in StrictAnc(b) : k \notin Spends[a]
  PROVE  /\ records' \in Seq(KeyImage \X Block)
         /\ synced' \in 0 .. Len(records')
         /\ RecordsClean'
         /\ ActiveIsRecorded'
         /\ FlushedIsRecorded'
         /\ \E i \in DOMAIN records' : records'[i] = <<k, b>>
         /\ \A r : (\E i \in DOMAIN records : records[i] = r)
                     => \E i \in DOMAIN records' : records'[i] = r
<1>1. TypeOK
  BY DEF IInv
<1>2. /\ records' \in Seq(KeyImage \X Block)
      /\ Len(records') = Len(records) + 1
      /\ DOMAIN records = 1 .. Len(records)
      /\ DOMAIN records' = 1 .. (Len(records) + 1)
      /\ \A i \in 1 .. Len(records) : records'[i] = records[i]
      /\ records'[Len(records) + 1] = <<k, b>>
  BY <1>1, AppendRecord DEF WriteKeyImage
<1>3. Len(records) \in Nat /\ synced \in 0 .. Len(records)
  BY <1>1 DEF TypeOK
<1>4. synced' \in 0 .. Len(records')
  BY <1>2, <1>3
<1>5. RecordsClean'
  <2>1. SUFFICES ASSUME NEW i \in DOMAIN records'
                 PROVE  /\ records'[i][1] \in Spends[records'[i][2]]
                        /\ \A a \in StrictAnc(records'[i][2]) : records'[i][1] \notin Spends[a]
    BY DEF RecordsClean, StrictAnc
  <2>2. CASE i \in 1 .. Len(records)
    <3>1. i \in DOMAIN records /\ records'[i] = records[i]
      BY <1>2, <2>2
    <3>2. /\ records[i][1] \in Spends[records[i][2]]
          /\ \A a \in StrictAnc(records[i][2]) : records[i][1] \notin Spends[a]
      BY <3>1 DEF IInv, RecordsClean
    <3>3. QED
      BY <3>1, <3>2 DEF StrictAnc
  <2>3. CASE i = Len(records) + 1
    BY <1>2, <2>3
  <2>4. QED
    BY <1>2, <1>3, <2>2, <2>3
<1>6. \A r : (\E i \in DOMAIN records : records[i] = r)
              => \E i \in DOMAIN records' : records'[i] = r
  BY <1>2, <1>3
<1>7. ActiveIsRecorded'
  BY <1>6 DEF IInv, ActiveIsRecorded, Active
<1>8. FlushedIsRecorded'
  <2>1. \A i \in 1 .. synced : records'[i] = records[i]
    BY <1>2, <1>3
  <2>2. SUFFICES ASSUME NEW f \in flushed, NEW a \in Anc[f], NEW m \in Spends[a]
                 PROVE  \E i \in 1 .. synced : records'[i] = <<m, a>>
    BY DEF FlushedIsRecorded
  <2>3. PICK i \in 1 .. synced : records[i] = <<m, a>>
    BY DEF IInv, FlushedIsRecorded
  <2>4. QED
    BY <2>1, <2>3
<1>9. Len(records) + 1 \in DOMAIN records'
  BY <1>2, <1>3
<1>10. QED
  BY <1>2, <1>4, <1>5, <1>6, <1>7, <1>8, <1>9

(* One input of the block is looked at and recorded.                        *)
LEMMA SpendInputInv ==
  ASSUME IInv, NEW k \in KeyImage, SpendInput(k)
  PROVE  IInv'
<1> USE DEF SpendInput
<1>1. /\ connecting \in Block \ {Genesis} /\ Parent[connecting] = tip
      /\ k \in Spends[connecting]
  BY DEF IInv, TypeOK, ConnectingIsRecorded
<1>2. \A a \in StrictAnc(connecting) : k \notin Spends[a]
  BY SpendDetected
<1>3. /\ records' \in Seq(KeyImage \X Block)
      /\ synced' \in 0 .. Len(records')
      /\ RecordsClean'
      /\ ActiveIsRecorded'
      /\ FlushedIsRecorded'
      /\ \E i \in DOMAIN records' : records'[i] = <<k, connecting>>
      /\ \A r : (\E i \in DOMAIN records : records[i] = r)
                  => \E i \in DOMAIN records' : records'[i] = r
  BY <1>1, <1>2, WriteKeepsRecords
<1>4. TypeOK'
  BY <1>3 DEF IInv, TypeOK
<1>5. HistoryClosed'
  BY DEF IInv, HistoryClosed
<1>6. ConnectingIsRecorded'
  <2>1. todo \subseteq Spends[connecting] /\ connecting' = connecting
    BY DEF IInv, ConnectingIsRecorded
  <2>2. SUFFICES ASSUME NEW m \in Spends[connecting] \ todo'
                 PROVE  /\ \E i \in DOMAIN records' : records'[i] = <<m, connecting>>
                        /\ \A a \in StrictAnc(connecting) : m \notin Spends[a]
    BY <1>1, <2>1 DEF ConnectingIsRecorded, StrictAnc
  <2>3. CASE m = k
    BY <1>2, <1>3, <2>3
  <2>4. CASE m # k
    <3>1. m \in Spends[connecting] \ todo
      BY <2>4
    <3>2. /\ \E i \in DOMAIN records : records[i] = <<m, connecting>>
          /\ \A a \in StrictAnc(connecting) : m \notin Spends[a]
      BY <3>1 DEF IInv, ConnectingIsRecorded
    <3>3. QED
      BY <1>3, <3>2
  <2>5. QED
    BY <2>3, <2>4
<1>7. NoDoubleSpend'
  BY DEF IInv, NoDoubleSpend, StrictAnc
<1>8. QED
  BY <1>3, <1>4, <1>5, <1>6, <1>7 DEF IInv

(* ConnectBlock fails and leaves its records behind.                        *)
LEMMA FailConnectInv ==
  ASSUME IInv, FailConnect
  PROVE  IInv'
<1> USE DEF FailConnect
<1>1. TypeOK'
  BY DEF IInv, TypeOK
<1>2. HistoryClosed'
  BY DEF IInv, HistoryClosed
<1>3. RecordsClean' /\ ActiveIsRecorded' /\ FlushedIsRecorded'
  BY DEF IInv, RecordsClean, ActiveIsRecorded, FlushedIsRecorded, Active, StrictAnc
<1>4. ConnectingIsRecorded'
  BY DEF ConnectingIsRecorded
<1>5. NoDoubleSpend'
  BY DEF IInv, NoDoubleSpend, StrictAnc
<1>6. QED
  BY <1>1, <1>2, <1>3, <1>4, <1>5 DEF IInv

(* The block becomes the tip: all its key images are recorded by now, and   *)
(* none of them was spent below.                                            *)
LEMMA FinishConnectInv ==
  ASSUME IInv, FinishConnect
  PROVE  IInv'
<1> USE DEF FinishConnect
<1>1. /\ connecting \in Block \ {Genesis} /\ Parent[connecting] = tip
      /\ \A k \in Spends[connecting] :
            /\ \E i \in DOMAIN records : records[i] = <<k, connecting>>
            /\ \A a \in StrictAnc(connecting) : k \notin Spends[a]
  BY DEF IInv, TypeOK, ConnectingIsRecorded
<1>2. Anc[connecting] = Active \union {connecting}
  BY <1>1, AncParent DEF Active
<1>3. TypeOK'
  BY <1>1 DEF IInv, TypeOK
<1>4. HistoryClosed'
  BY <1>1, <1>2 DEF IInv, HistoryClosed, Active
<1>5. RecordsClean' /\ FlushedIsRecorded'
  BY DEF IInv, RecordsClean, FlushedIsRecorded, StrictAnc
<1>6. ActiveIsRecorded'
  BY <1>1, <1>2 DEF IInv, ActiveIsRecorded, Active
<1>7. ConnectingIsRecorded'
  BY DEF ConnectingIsRecorded
<1>8. NoDoubleSpend'
  <2>1. \A b \in connected : \A a \in StrictAnc(b) : Spends[a] \cap Spends[b] = {}
    BY DEF IInv, NoDoubleSpend
  <2>2. \A a \in StrictAnc(connecting) : Spends[a] \cap Spends[connecting] = {}
    BY <1>1
  <2>3. QED
    BY <2>1, <2>2 DEF NoDoubleSpend, StrictAnc
<1>9. QED
  BY <1>3, <1>4, <1>5, <1>6, <1>7, <1>8 DEF IInv


(* A flush syncs the whole list, which holds what was synced before ...     *)
LEMMA SyncedPrefix ==
  ASSUME IInv
  PROVE  1 .. synced \subseteq 1 .. Len(records)
  BY DEF IInv, TypeOK

(* ... and the key images of the active chain.                              *)
LEMMA SyncedActive ==
  ASSUME IInv, NEW a \in Active, NEW k \in Spends[a]
  PROVE  \E i \in 1 .. Len(records) : records[i] = <<k, a>>
<1>1. PICK i \in DOMAIN records : records[i] = <<k, a>>
  BY DEF IInv, ActiveIsRecorded
<1>2. DOMAIN records = 1 .. Len(records)
  BY DEF IInv, TypeOK
<1>3. QED
  BY <1>1, <1>2

(* DisconnectTip makes the records durable and steps back to the parent.    *)
LEMMA DisconnectTipInv ==
  ASSUME IInv, DisconnectTip
  PROVE  IInv'
<1> USE DEF DisconnectTip
<1>1. tip \in Block \ {Genesis} /\ Parent[tip] \in Block
  BY DEF IInv, TypeOK
<1>2. Anc[Parent[tip]] \subseteq Active /\ Parent[tip] \in Active
  BY <1>1, AncParent, AncSelf DEF Active
<1>3. Len(records) \in Nat /\ DOMAIN records = 1 .. Len(records)
  BY DEF IInv, TypeOK
<1>4. TypeOK'
  BY <1>1, <1>3 DEF IInv, TypeOK
<1>5. HistoryClosed'
  BY <1>2 DEF IInv, HistoryClosed, Active
<1>6. RecordsClean'
  BY DEF IInv, RecordsClean
<1>7. ActiveIsRecorded'
  BY <1>2 DEF IInv, ActiveIsRecorded, Active
<1>8. FlushedIsRecorded'
  BY <1>2, <1>3, SyncedPrefix, SyncedActive DEF IInv, FlushedIsRecorded, Active
<1>9. ConnectingIsRecorded'
  BY DEF ConnectingIsRecorded
<1>10. NoDoubleSpend'
  BY DEF IInv, NoDoubleSpend
<1>11. QED
  BY <1>4, <1>5, <1>6, <1>7, <1>8, <1>9, <1>10 DEF IInv

(* A wallet that sees its transaction confirmed repeats the record.         *)
LEMMA WalletRecordInv ==
  ASSUME IInv, NEW k \in KeyImage, NEW b \in Block, WalletRecord(k, b)
  PROVE  IInv'
<1> USE DEF WalletRecord
<1>1. \A a \in StrictAnc(b) : k \notin Spends[a]
  BY DEF IInv, NoDoubleSpend
<1>2. /\ records' \in Seq(KeyImage \X Block)
      /\ synced' \in 0 .. Len(records')
      /\ RecordsClean'
      /\ ActiveIsRecorded'
      /\ FlushedIsRecorded'
  BY <1>1, WriteKeepsRecords
<1>3. TypeOK'
  BY <1>2 DEF IInv, TypeOK
<1>4. HistoryClosed' /\ NoDoubleSpend'
  BY DEF IInv, HistoryClosed, NoDoubleSpend, StrictAnc
<1>5. ConnectingIsRecorded'
  BY DEF ConnectingIsRecorded
<1>6. QED
  BY <1>2, <1>3, <1>4, <1>5 DEF IInv

(* The index alone is flushed.                                              *)
LEMMA FlushIndexInv ==
  ASSUME IInv, FlushIndex
  PROVE  IInv'
<1> USE DEF FlushIndex
<1>1. Len(records) \in Nat
  BY DEF IInv, TypeOK
<1>2. TypeOK'
  BY <1>1 DEF IInv, TypeOK
<1>3. HistoryClosed' /\ NoDoubleSpend'
  BY DEF IInv, HistoryClosed, NoDoubleSpend, StrictAnc
<1>4. RecordsClean' /\ ActiveIsRecorded'
  BY DEF IInv, RecordsClean, ActiveIsRecorded, Active, StrictAnc
<1>5. FlushedIsRecorded'
  BY SyncedPrefix DEF IInv, FlushedIsRecorded
<1>6. ConnectingIsRecorded'
  BY DEF ConnectingIsRecorded
<1>7. QED
  BY <1>2, <1>3, <1>4, <1>5, <1>6 DEF IInv

(* The index and then the coins are flushed.                                *)
LEMMA FlushStateToDiskInv ==
  ASSUME IInv, FlushStateToDisk
  PROVE  IInv'
<1> USE DEF FlushStateToDisk
<1>1. Len(records) \in Nat /\ tip \in Block
  BY DEF IInv, TypeOK
<1>2. TypeOK'
  BY <1>1 DEF IInv, TypeOK
<1>3. HistoryClosed' /\ NoDoubleSpend'
  BY DEF IInv, HistoryClosed, NoDoubleSpend, StrictAnc
<1>4. RecordsClean' /\ ActiveIsRecorded'
  BY DEF IInv, RecordsClean, ActiveIsRecorded, Active, StrictAnc
<1>5. FlushedIsRecorded'
  BY SyncedPrefix, SyncedActive DEF IInv, FlushedIsRecorded, Active
<1>6. ConnectingIsRecorded'
  BY DEF ConnectingIsRecorded
<1>7. QED
  BY <1>2, <1>3, <1>4, <1>5, <1>6 DEF IInv

(* The machine stops and LoadBlockIndexDB starts from a best block that     *)
(* reached the disk: its chain's records are among those that survive.      *)
LEMMA CrashAndRestartInv ==
  ASSUME IInv, CrashAndRestart
  PROVE  IInv'
<1> USE DEF CrashAndRestart
<1>1. PICK n \in synced .. Len(records) :
         records' = SubSeq(records, 1, n) /\ synced' = n
  OBVIOUS
<1>2. synced \in Nat /\ Len(records) \in Nat
  BY DEF IInv, TypeOK
<1>3. /\ records' \in Seq(KeyImage \X Block)
      /\ Len(records') = n
      /\ DOMAIN records = 1 .. Len(records)
      /\ DOMAIN records' = 1 .. n
      /\ \A i \in 1 .. n : records'[i] = records[i]
  BY <1>1, TruncateRecords DEF IInv
<1>4. tip' \in flushed /\ tip' \in Block /\ tip' \in connected
  BY DEF IInv, TypeOK, HistoryClosed
<1>5. TypeOK'
  BY <1>1, <1>2, <1>3, <1>4 DEF IInv, TypeOK
<1>6. HistoryClosed'
  BY <1>4 DEF IInv, HistoryClosed
<1>7. RecordsClean'
  <2>1. SUFFICES ASSUME NEW i \in DOMAIN records'
                 PROVE  /\ records'[i][1] \in Spends[records'[i][2]]
                        /\ \A a \in StrictAnc(records'[i][2]) : records'[i][1] \notin Spends[a]
    BY DEF RecordsClean, StrictAnc
  <2>2. i \in DOMAIN records /\ records'[i] = records[i]
    BY <1>2, <1>3
  <2>3. /\ records[i][1] \in Spends[records[i][2]]
        /\ \A a \in StrictAnc(records[i][2]) : records[i][1] \notin Spends[a]
    BY <2>2 DEF IInv, RecordsClean
  <2>4. QED
    BY <2>2, <2>3 DEF StrictAnc
<1>8. \A a \in Anc[tip'] : \A k \in Spends[a] :
         \E i \in 1 .. synced : records'[i] = <<k, a>>
  <2>1. \A i \in 1 .. synced : records'[i] = records[i]
    BY <1>1, <1>2, <1>3
  <2>2. QED
    BY <1>4, <2>1 DEF IInv, FlushedIsRecorded
<1>9. 1 .. synced \subseteq 1 .. n
  BY <1>1, <1>2
<1>10. ActiveIsRecorded'
  BY <1>3, <1>8, <1>9 DEF ActiveIsRecorded, Active
<1>11. FlushedIsRecorded'
  BY <1>1, <1>8, <1>9 DEF FlushedIsRecorded
<1>12. ConnectingIsRecorded'
  BY DEF ConnectingIsRecorded
<1>13. NoDoubleSpend'
  BY DEF IInv, NoDoubleSpend, StrictAnc
<1>14. QED
  BY <1>5, <1>6, <1>7, <1>10, <1>11, <1>12, <1>13 DEF IInv

----------------------------------------------------------------------------------------------------------------------------------------------------------

(* Every step keeps the invariant.                                          *)
LEMMA NextInv == IInv /\ [Next]_vars => IInv'
<1> SUFFICES ASSUME IInv, [Next]_vars PROVE IInv'
  OBVIOUS
<1>1. ASSUME NEW b \in Block, BeginConnect(b) PROVE IInv'
  BY <1>1, BeginConnectInv
<1>2. ASSUME NEW k \in KeyImage, SpendInput(k) PROVE IInv'
  BY <1>2, SpendInputInv
<1>3. CASE FailConnect
  BY <1>3, FailConnectInv
<1>4. CASE FinishConnect
  BY <1>4, FinishConnectInv
<1>5. CASE DisconnectTip
  BY <1>5, DisconnectTipInv
<1>6. ASSUME NEW k \in KeyImage, NEW b \in Block, WalletRecord(k, b) PROVE IInv'
  BY <1>6, WalletRecordInv
<1>7. CASE FlushIndex
  BY <1>7, FlushIndexInv
<1>8. CASE FlushStateToDisk
  BY <1>8, FlushStateToDiskInv
<1>9. CASE CrashAndRestart
  BY <1>9, CrashAndRestartInv
<1>10. CASE UNCHANGED vars
  <2> USE <1>10 DEF vars
  <2>1. TypeOK' /\ HistoryClosed'
    BY DEF IInv, TypeOK, HistoryClosed
  <2>2. RecordsClean' /\ NoDoubleSpend'
    BY DEF IInv, RecordsClean, NoDoubleSpend, StrictAnc
  <2>3. ActiveIsRecorded'
    BY DEF IInv, ActiveIsRecorded, Active
  <2>4. FlushedIsRecorded'
    BY DEF IInv, FlushedIsRecorded
  <2>5. ConnectingIsRecorded'
    BY DEF IInv, ConnectingIsRecorded, StrictAnc
  <2>6. QED
    BY <2>1, <2>2, <2>3, <2>4, <2>5 DEF IInv
<1>11. QED
  BY <1>1, <1>2, <1>3, <1>4, <1>5, <1>6, <1>7, <1>8, <1>9, <1>10 DEF Next

(* The invariant holds of every reachable state.                            *)
THEOREM Invariance == Spec => []IInv
  BY InitInv, NextInv, PTL DEF Spec

(* Type correctness of the key-image records and of the connection that     *)
(* writes them.                                                             *)
THEOREM TypeCorrect == Spec => []TypeOK
<1>1. IInv => TypeOK
  BY DEF IInv
<1>2. QED
  BY <1>1, Invariance, PTL

(* IsKeyImageSpend1 and the append-only records keep double spends out of   *)
(* every chain that is ever active, whatever reorganisations, failures,     *)
(* repeated records and crashes occur.                                      *)
THEOREM NoChainDoubleSpends == Spec => []NoDoubleSpend
<1>1. IInv => NoDoubleSpend
  BY DEF IInv
<1>2. QED
  BY <1>1, Invariance, PTL

(* The records of a chain are durable before the coins database can name    *)
(* the chain's tip as its best block.                                       *)
THEOREM RecordsBeforeCoins == Spec => []FlushedIsRecorded
<1>1. IInv => FlushedIsRecorded
  BY DEF IInv
<1>2. QED
  BY <1>1, Invariance, PTL

(* No record was ever written for a double spend.                           *)
THEOREM RecordsStayClean == Spec => []RecordsClean
<1>1. IInv => RecordsClean
  BY DEF IInv
<1>2. QED
  BY <1>1, Invariance, PTL

(* The exactness of IsKeyImageSpend1 in a state of the invariant.           *)
LEMMA Exact == IInv => MainChainAnswerExact
<1>1. ASSUME IInv, NEW k \in KeyImage, IsSpentInMainChain(k)
      PROVE  \E a \in Active : k \in Spends[a]
  <2>1. PICK i \in DOMAIN records : records[i][1] = k /\ records[i][2] \in Active
    BY <1>1 DEF IsSpentInMainChain
  <2>2. records[i][1] \in Spends[records[i][2]]
    BY <1>1 DEF IInv, RecordsClean
  <2>3. QED
    BY <2>1, <2>2
<1>2. ASSUME IInv, NEW k \in KeyImage, NEW a \in Active, k \in Spends[a]
      PROVE  IsSpentInMainChain(k)
  <2>1. PICK i \in DOMAIN records : records[i] = <<k, a>>
    BY <1>2 DEF IInv, ActiveIsRecorded
  <2>2. records[i][1] = k /\ records[i][2] = a
    BY <2>1
  <2>3. QED
    BY <2>2 DEF IsSpentInMainChain
<1>3. QED
  BY <1>1, <1>2 DEF MainChainAnswerExact

(* What the mempool, the miner and the masternode code are told about the   *)
(* active chain is exact.                                                   *)
THEOREM MainChainAnswersExact == Spec => []MainChainAnswerExact
  BY Exact, Invariance, PTL

-----------------------------------------------------------------------------
(* The pool                                                                 *)

USE TxPoolAssumption

LEMMA StepOfLedger == PoolNext => [Next]_vars
  BY DEF PoolNext, Next, AcceptToMemoryPool, RemoveInvalidTransactions, ConnectTip,
         DisconnectAndResurrect, Restart

(* With the pool beside it, the ledger does only what it does without.      *)
THEOREM PoolRefinesLedger == PoolSpec => Spec
<1>1. PoolInit => Init
  BY DEF PoolInit
<1>2. [PoolNext]_poolVars => [Next]_vars
  BY StepOfLedger DEF poolVars
<1>3. QED
  BY <1>1, <1>2, PTL DEF PoolSpec, Spec

(* A transaction of the chain is known to be spent.                         *)
LEMMA ConfirmedIsSpent ==
  ASSUME IInv, TxHasInput, NEW t \in Confirmed
  PROVE  t \in Tx /\ IsSpent(t)
<1>1. tip \in Block
  BY DEF IInv, TypeOK
<1>2. PICK a \in Anc[tip] : t \in Txs[a]
  BY DEF Confirmed, OnChain
<1>3. a \in Block
  BY <1>1, <1>2, AncSelf
<1>4. t \in Tx /\ Images[t] \subseteq Spends[a] /\ Images[t] \subseteq KeyImage
  BY <1>2, <1>3
<1>5. PICK k \in Images[t] : TRUE
  BY <1>4 DEF TxHasInput
<1>6. IsSpentInMainChain(k)
  BY <1>2, <1>4, <1>5, Exact DEF MainChainAnswerExact, Active
<1>7. QED
  BY <1>4, <1>5, <1>6 DEF IsSpent

(* DisconnectTip never gives a transaction back.                            *)
LEMMA NothingAccepted ==
  ASSUME IInv, TxHasInput
  PROVE  Resurrected = {}
<1>1. tip \in Block /\ tip \in Anc[tip]
  BY AncSelf DEF IInv, TypeOK
<1>2. Txs[tip] \subseteq Confirmed
  BY <1>1 DEF Confirmed, OnChain
<1>3. QED
  BY <1>2, ConfirmedIsSpent DEF Resurrected, Acceptable

LEMMA ConfirmedGrows ==
  ASSUME IInv, FinishConnect
  PROVE  Confirmed' = Confirmed \union Txs[connecting]
<1>1. connecting \in Block \ {Genesis} /\ Parent[connecting] = tip /\ tip' = connecting
  BY DEF IInv, TypeOK, ConnectingIsRecorded, FinishConnect
<1>2. Anc[connecting] = Anc[tip] \union {connecting}
  BY <1>1, AncParent
<1>3. QED
  BY <1>1, <1>2 DEF Confirmed, OnChain

LEMMA ConfirmedShrinks ==
  ASSUME IInv, DisconnectTip
  PROVE  Confirmed' = OnChain(Parent[tip]) /\ Confirmed = Confirmed' \union Txs[tip]
<1>1. tip \in Block \ {Genesis} /\ tip' = Parent[tip]
  BY DEF IInv, TypeOK, DisconnectTip
<1>2. Anc[tip] = Anc[Parent[tip]] \union {tip}
  BY <1>1, AncParent
<1>3. QED
  BY <1>1, <1>2 DEF Confirmed, OnChain

PoolInv == pool \subseteq Tx /\ PoolFollowsChain

LEMMA AcceptPool ==
  ASSUME PoolInv, NEW t \in Tx, AcceptToMemoryPool(t)
  PROVE  PoolInv'
<1>1. tip' = tip /\ Confirmed' = Confirmed
  BY DEF AcceptToMemoryPool, vars, Confirmed, OnChain
<1>2. t \notin Confirmed /\ Ring[t] \subseteq Confirmed
  BY DEF AcceptToMemoryPool, Acceptable, CheckHaveInputs, Confirmed
<1>3. Prevout[t] \in Confirmed \union {Old}
  BY <1>2
<1>4. QED
  BY <1>1, <1>2, <1>3 DEF PoolInv, PoolFollowsChain, AcceptToMemoryPool

LEMMA ConnectPool ==
  ASSUME IInv, PoolInv, ConnectTip
  PROVE  PoolInv'
<1>1. Confirmed' = Confirmed \union Txs[connecting]
  BY ConfirmedGrows DEF ConnectTip
<1>2. pool' = pool \ Txs[connecting]
  BY DEF ConnectTip
<1>3. QED
  BY <1>1, <1>2 DEF PoolInv, PoolFollowsChain

LEMMA DisconnectPool ==
  ASSUME IInv, TxHasInput, PoolInv, DisconnectAndResurrect
  PROVE  PoolInv'
<1>1. /\ Confirmed' = OnChain(Parent[tip])
      /\ Confirmed = Confirmed' \union Txs[tip]
  BY ConfirmedShrinks DEF DisconnectAndResurrect
<1>2. pool' = Rooted(pool \ Txs[tip], Parent[tip])
  BY NothingAccepted DEF DisconnectAndResurrect
<1>3. pool' \subseteq pool
  BY <1>2 DEF Rooted
<1>4. ASSUME NEW t \in pool' PROVE Prevout[t] \in Confirmed' \union {Old}
  <2>1. Prevout[t] \in pool \union Confirmed' \union {Old}
    BY <1>1, <1>2 DEF Rooted
  <2>2. Prevout[t] \in Confirmed \union {Old}
    BY <1>3 DEF PoolInv, PoolFollowsChain
  <2>3. Prevout[t] # Old => Prevout[t] \notin pool
    BY <2>2 DEF PoolInv, PoolFollowsChain
  <2>4. QED
    BY <2>1, <2>3
<1>5. QED
  BY <1>1, <1>3, <1>4 DEF PoolInv, PoolFollowsChain

LEMMA RestPool ==
  ASSUME PoolInv,
         \/ pool' \subseteq pool /\ tip' = tip
         \/ pool' = {}
  PROVE  PoolInv'
<1>1. CASE pool' \subseteq pool /\ tip' = tip
  <2>1. Confirmed' = Confirmed
    BY <1>1 DEF Confirmed, OnChain
  <2>2. QED
    BY <1>1, <2>1 DEF PoolInv, PoolFollowsChain
<1>2. CASE pool' = {}
  BY <1>2 DEF PoolInv, PoolFollowsChain
<1>3. QED
  BY <1>1, <1>2

LEMMA PoolStep ==
  ASSUME IInv, TxHasInput, PoolInv, [PoolNext]_poolVars
  PROVE  PoolInv'
<1>1. ASSUME NEW t \in Tx, AcceptToMemoryPool(t) PROVE PoolInv'
  BY <1>1, AcceptPool
<1>2. CASE RemoveInvalidTransactions
  BY <1>2, RestPool DEF RemoveInvalidTransactions, vars
<1>3. CASE ConnectTip
  BY <1>3, ConnectPool
<1>4. CASE DisconnectAndResurrect
  BY <1>4, DisconnectPool
<1>5. CASE Restart
  BY <1>5, RestPool DEF Restart
<1>6. CASE /\ \/ \E b \in Block : BeginConnect(b)
              \/ \E k \in KeyImage : SpendInput(k)
              \/ FailConnect
              \/ \E k \in KeyImage, b \in Block : WalletRecord(k, b)
              \/ FlushIndex
              \/ FlushStateToDisk
           /\ UNCHANGED pool
  <2>1. tip' = tip
    BY <1>6 DEF BeginConnect, SpendInput, FailConnect, WalletRecord, FlushIndex, FlushStateToDisk
  <2>2. QED
    BY <1>6, <2>1, RestPool
<1>7. CASE UNCHANGED poolVars
  BY <1>7, RestPool DEF poolVars, vars
<1>8. QED
  BY <1>1, <1>2, <1>3, <1>4, <1>5, <1>6, <1>7 DEF PoolNext

LEMMA PoolInvariance == PoolSpec => [](IInv /\ PoolInv)
<1>1. TxHasInput
  BY TxHasInput
<1>2. PoolInit => IInv /\ PoolInv
  BY InitInv DEF PoolInit, PoolInv, PoolFollowsChain
<1>3. IInv /\ PoolInv /\ [PoolNext]_poolVars => (IInv /\ PoolInv)'
  <2>1. [PoolNext]_poolVars => [Next]_vars
    BY StepOfLedger DEF poolVars
  <2>2. QED
    BY <1>1, <2>1, NextInv, PoolStep
<1>4. QED
  BY <1>2, <1>3, PTL DEF PoolSpec

(* Through reorganisations, failed connections and restarts, nothing in the *)
(* pool is confirmed, and what it says it spends is.                        *)
THEOREM PoolKeepsUp == PoolSpec => []PoolFollowsChain
<1>1. PoolInv => PoolFollowsChain
  BY DEF PoolInv
<1>2. QED
  BY <1>1, PoolInvariance, PTL

(* Whatever the pool has collected, a block the miner makes from it passes  *)
(* the tests for double spends and rings.                                   *)
THEOREM MinedBlocksConnect == PoolSpec => []TemplatesConnect
<1>1. ASSUME IInv, PoolInv, NEW S \in Templates
      PROVE  /\ \A t \in S : Ring[t] \subseteq Confirmed
             /\ \A t \in S : \A a \in Active : Images[t] \cap Spends[a] = {}
             /\ \A t, u \in S : t # u => Images[t] \cap Images[u] = {}
  <2>1. \A t \in S : t \in Tx /\ ~ IsSpent(t) /\ CheckHaveInputs(t)
    BY <1>1 DEF Templates, PoolInv
  <2>2. ASSUME NEW t \in S, NEW a \in Active, NEW k \in Images[t] \cap Spends[a]
        PROVE  FALSE
    <3>1. k \in KeyImage
      BY <2>1
    <3>2. IsSpentInMainChain(k)
      BY <1>1, <3>1, Exact DEF MainChainAnswerExact
    <3>3. QED
      BY <2>1, <3>2 DEF IsSpent
  <2>3. \A t \in S : Ring[t] \subseteq Confirmed
    BY <2>1 DEF CheckHaveInputs
  <2>4. \A t, u \in S : t # u => Images[t] \cap Images[u] = {}
    BY DEF Templates
  <2>5. QED
    BY <2>2, <2>3, <2>4
<1>2. IInv /\ PoolInv => TemplatesConnect
  BY <1>1 DEF TemplatesConnect
<1>3. QED
  BY <1>2, PoolInvariance, PTL

(* The other side of "Resurrect mempool transactions from the disconnected  *)
(* block" (main.cpp:3374): in no reachable state does DisconnectTip give a  *)
(* transaction back to the pool, because the block it takes off still       *)
(* counts as part of the chain when its transactions are offered.           *)
THEOREM NoneComesBack == PoolSpec => [](Resurrected = {})
<1>1. IInv => Resurrected = {}
  BY NothingAccepted, TxHasInput
<1>2. QED
  BY <1>1, PoolInvariance, PTL
=============================================================================
