-------------------------- MODULE ChainStateProofs --------------------------
(* Proofs about ChainState, for every tree of blocks, every number of       *)
(* threads and all verdicts: data reaches the tree in any order without     *)
(* losing a link, candidates stay fit to become the tip, a step never       *)
(* connects a failed block, and none is left in the active chain.           *)
EXTENDS ChainState, BlockTreeTheorems

USE BlockTreeAssumption, ChainStateAssumption

(* Parents and ancestors of blocks are blocks.                              *)
LEMMA Family ==
  /\ \A b \in Block : b \in Anc[b] /\ Anc[b] \subseteq Block /\ Genesis \in Anc[b]
  /\ \A b \in Block \ {Genesis} : /\ Parent[b] \in Block
                                  /\ Anc[b] = Anc[Parent[b]] \union {b}
                                  /\ b \notin Anc[Parent[b]]
  BY AncSelf, AncRoot, AncParent

(* The comparator of setBlockIndexCandidates is a strict order.             *)
LEMMA WorseIsStrict ==
  ASSUME seqId \in [Block -> Nat], NEW a \in Block, NEW b \in Block, Worse(a, b)
  PROVE  a # b /\ ~ Worse(b, a)
<1>1. ChainWork[a] \in Nat /\ ChainWork[b] \in Nat /\ seqId[a] \in Nat /\ seqId[b] \in Nat
  OBVIOUS
<1>2. QED
  BY <1>1 DEF Worse

(* More work sorts later.                                                   *)
LEMMA MoreWorkNotWorse ==
  ASSUME NEW a \in Block, NEW b \in Block, ChainWork[a] < ChainWork[b]
  PROVE  ~ Worse(b, a)
<1>1. ChainWork[a] \in Nat /\ ChainWork[b] \in Nat
  OBVIOUS
<1>2. QED
  BY <1>1 DEF Worse

(* Linked blocks have distinct sequence ids, so the order is total on them. *)
LEMMA WorseIsTotal ==
  ASSUME IInv, NEW a \in linked, NEW b \in linked, a # b
  PROVE  Worse(a, b) \/ Worse(b, a)
<1>1. a \in Block /\ b \in Block /\ seqId[a] # seqId[b]
  BY DEF IInv, TypeOK, CandidatesSound
<1>2. ChainWork[a] \in Nat /\ ChainWork[b] \in Nat /\ seqId[a] \in Nat /\ seqId[b] \in Nat
  BY <1>1 DEF IInv, TypeOK
<1>3. QED
  BY <1>1, <1>2 DEF Worse

(* Only a thread that holds cs_main is inside a step or an invalidation.    *)
LEMMA LockHeld ==
  ASSUME IInv
  PROVE  \A t \in Thread : pc[t] \in {"step", "invalidate"} => lock = t /\ lock # Nobody
  BY DEF IInv, LockDiscipline

(* The ancestors of a linked block are linked.                              *)
LEMMA LinkedClosed ==
  ASSUME IInv, NEW b \in linked
  PROVE  b \in Block /\ Anc[b] \subseteq linked
<1>1. b \in Block /\ Anc[b] \subseteq haveData
  BY DEF IInv, LinkedIffAllData
<1>2. \A a \in Anc[b] : a \in Block /\ Anc[a] \subseteq Anc[b]
  BY <1>1, AncSelf, AncTransitive
<1>3. QED
  BY <1>1, <1>2 DEF IInv, LinkedIffAllData

-----------------------------------------------------------------------------

(* The invariant holds when the node starts on the genesis block.           *)
LEMMA InitInv == Init => IInv
<1> SUFFICES ASSUME Init PROVE IInv
  OBVIOUS
<1> USE DEF Init
<1>1. TypeOK
  BY DEF TypeOK, UNKNOWN, TREE, TRANSACTIONS, SCRIPTS, Labels
<1>2. LockDiscipline
  BY DEF LockDiscipline
<1>3. LinkedIffAllData
  <2>1. linked = {b \in Block : Anc[b] \subseteq haveData}
    <3>1. \A b \in Block : Anc[b] \subseteq {Genesis} => b = Genesis
      BY AncSelf
    <3>2. QED
      BY <3>1, AncGenesis
  <2>2. QED
    BY <2>1 DEF LinkedIffAllData
<1>4. SeqIdsIssued
  BY DEF SeqIdsIssued
<1>5. ActiveLinked
  BY DEF ActiveLinked
<1>6. CandidatesSound
  BY DEF CandidatesSound, Worse
<1>7. TargetSound
  BY DEF TargetSound
<1>8. FailuresLeave
  BY DEF FailuresLeave, Failed
<1>9. QED
  BY <1>1, <1>2, <1>3, <1>4, <1>5, <1>6, <1>7, <1>8 DEF IInv

-----------------------------------------------------------------------------
(* Actions that leave the index alone *)

(* Levels apart, the index is what it was: links and sequence ids are as    *)
(* before.                                                                  *)
LEMMA SameIndex ==
  ASSUME IInv, UNCHANGED <<haveData, linked, seqId, nextSeq, unlinked>>
  PROVE  /\ LinkedIffAllData'
         /\ SeqIdsIssued'
         /\ \A a, b : Worse(a, b)' <=> Worse(a, b)
         /\ \A b, c \in linked' : b # c => seqId'[b] # seqId'[c]
<1>1. LinkedIffAllData'
  BY DEF IInv, LinkedIffAllData
<1>2. SeqIdsIssued'
  BY DEF IInv, SeqIdsIssued
<1>3. \A a, b : Worse(a, b)' <=> Worse(a, b)
  BY DEF Worse
<1>4. \A b, c \in linked' : b # c => seqId'[b] # seqId'[c]
  BY DEF IInv, CandidatesSound
<1>5. QED
  BY <1>1, <1>2, <1>3, <1>4

(* While cs_main is free nobody is inside a step or an invalidation, and    *)
(* the active chain is clean.                                               *)
LEMMA FreeLock ==
  ASSUME IInv, lock = Nobody
  PROVE  /\ \A u \in Thread : pc[u] \notin {"step", "invalidate"} /\ nested[u] = FALSE
         /\ ~ SystemErrors => Active \cap Failed = {}
<1>1. \A u \in Thread : pc[u] \notin {"step", "invalidate"} /\ ~ nested[u]
  BY DEF IInv, LockDiscipline
<1>2. \A u \in Thread : nested[u] = FALSE
  BY <1>1 DEF IInv, TypeOK
<1>3. QED
  BY <1>1, <1>2 DEF IInv, FailuresLeave

(* The active chain has all its data.                                       *)
LEMMA ActiveHasData ==
  ASSUME IInv
  PROVE  /\ tip \in Block /\ Active \subseteq linked /\ Active \subseteq haveData
         /\ linked \subseteq haveData
<1>1. tip \in Block /\ Active \subseteq linked
  BY LinkedClosed DEF IInv, ActiveLinked, Active
<1>2. linked \subseteq haveData
  BY AncSelf DEF IInv, LinkedIffAllData
<1>3. QED
  BY <1>1, <1>2

(* A header is accepted without its block.                                  *)
LEMMA AcceptHeaderOnlyInv ==
  ASSUME IInv, NEW t \in Thread, NEW b \in Block, AcceptHeaderOnly(t, b)
  PROVE  IInv'
<1> USE DEF AcceptHeaderOnly, failed, chain, local, env
<1>1. /\ LinkedIffAllData' /\ SeqIdsIssued'
      /\ \A x, y : Worse(x, y)' <=> Worse(x, y)
      /\ \A x, y \in linked' : x # y => seqId'[x] # seqId'[y]
  BY SameIndex
<1>2. /\ \A u \in Thread : pc[u] \notin {"step", "invalidate"} /\ nested[u] = FALSE
      /\ ~ SystemErrors => Active \cap Failed = {}
  BY FreeLock
<1>3. TypeOK'
  <2>1. level' \in [Block -> {UNKNOWN, TREE, TRANSACTIONS, SCRIPTS}]
    BY DEF Raised, IInv, TypeOK
  <2>2. failedValid' \in SUBSET Block /\ known' \in SUBSET Block
    BY DEF IInv, TypeOK
  <2>3. QED
    BY <2>1, <2>2 DEF IInv, TypeOK
<1>4. LockDiscipline'
  BY DEF IInv, LockDiscipline
<1>5. ActiveLinked'
  BY DEF IInv, ActiveLinked
<1>6. CandidatesSound'
  BY <1>1 DEF IInv, CandidatesSound
<1>7. TargetSound'
  BY <1>2 DEF TargetSound
<1>8. FailuresLeave'
  <2>1. b \notin Active
    BY ActiveHasData
  <2>2. QED
    BY <1>2, <2>1 DEF FailuresLeave, Active, Failed
<1>9. QED
  BY <1>1, <1>3, <1>4, <1>5, <1>6, <1>7, <1>8 DEF IInv

(* A block the node already has starts ActivateBestChain.                   *)
LEMMA AcceptDuplicateInv ==
  ASSUME IInv, NEW t \in Thread, NEW b \in Block, AcceptDuplicate(t, b)
  PROVE  IInv'
<1> USE DEF AcceptDuplicate, index, failed, chain, local, env
<1>1. /\ LinkedIffAllData' /\ SeqIdsIssued'
      /\ \A x, y : Worse(x, y)' <=> Worse(x, y)
      /\ \A x, y \in linked' : x # y => seqId'[x] # seqId'[y]
  BY SameIndex
<1>2. /\ \A u \in Thread : pc[u] \notin {"step", "invalidate"} /\ nested[u] = FALSE
      /\ ~ SystemErrors => Active \cap Failed = {}
  BY FreeLock
<1>3. pc' = [pc EXCEPT ![t] = "activate"] /\ pc \in [Thread -> Labels]
  BY DEF Goto, IInv, TypeOK
<1>4. TypeOK'
  BY <1>3 DEF IInv, TypeOK, Labels
<1>5. LockDiscipline'
  BY <1>2, <1>3 DEF LockDiscipline
<1>6. ActiveLinked'
  BY DEF IInv, ActiveLinked
<1>7. CandidatesSound'
  BY <1>1 DEF IInv, CandidatesSound
<1>8. TargetSound'
  BY <1>2, <1>3 DEF TargetSound
<1>9. FailuresLeave'
  BY <1>2 DEF FailuresLeave, Active, Failed
<1>10. QED
  BY <1>1, <1>4, <1>5, <1>6, <1>7, <1>8, <1>9 DEF IInv

(* What Reconsidered does to the candidates and the failure marks.          *)
LEMMA ReconsideredSound ==
  ASSUME IInv, NEW b \in Block, Reconsidered(b), UNCHANGED <<index, tip>>
  PROVE  /\ candidates' \subseteq linked /\ \A c \in candidates' : ~ Worse(c, tip)
         /\ failedValid' \subseteq failedValid /\ failedChild' \subseteq failedChild
         /\ bestInvalid' \in Block \union {NoBlock}
<1>1. candidates \subseteq linked /\ \A c \in candidates : ~ Worse(c, tip)
  BY DEF IInv, CandidatesSound
<1>2. \A c \in candidates' \ candidates : c \in linked /\ Worse(tip, c)
  BY DEF Reconsidered
<1>3. tip \in Block /\ linked \subseteq Block /\ seqId \in [Block -> Nat]
  BY DEF IInv, TypeOK
<1>4. \A c \in candidates' \ candidates : ~ Worse(c, tip)
  BY <1>2, <1>3, WorseIsStrict
<1>5. failedValid' \subseteq failedValid /\ failedChild' \subseteq failedChild
  BY DEF Reconsidered
<1>6. bestInvalid' \in Block \union {NoBlock}
  BY DEF Reconsidered, IInv, TypeOK
<1>7. QED
  BY <1>1, <1>2, <1>4, <1>5, <1>6

(* reconsiderblock.                                                         *)
LEMMA ReconsiderBlockInv ==
  ASSUME IInv, NEW t \in Thread, NEW b \in Block, ReconsiderBlock(t, b)
  PROVE  IInv'
<1> USE DEF ReconsiderBlock, index, local
<1>1. /\ LinkedIffAllData' /\ SeqIdsIssued'
      /\ \A x, y : Worse(x, y)' <=> Worse(x, y)
      /\ \A x, y \in linked' : x # y => seqId'[x] # seqId'[y]
  BY SameIndex
<1>2. /\ \A u \in Thread : pc[u] \notin {"step", "invalidate"} /\ nested[u] = FALSE
      /\ ~ SystemErrors => Active \cap Failed = {}
  BY FreeLock
<1>3. pc' = [pc EXCEPT ![t] = "activate"] /\ pc \in [Thread -> Labels]
  BY DEF Goto, IInv, TypeOK
<1>4. /\ candidates' \subseteq linked /\ \A c \in candidates' : ~ Worse(c, tip)
      /\ failedValid' \subseteq failedValid /\ failedChild' \subseteq failedChild
      /\ bestInvalid' \in Block \union {NoBlock}
  BY ReconsideredSound
<1>5. TypeOK'
  <2>1. rpcs' \in 0 .. MaxRpc
    BY DEF IInv, TypeOK
  <2>2. pc' \in [Thread -> Labels]
    BY <1>3 DEF Labels
  <2>3. QED
    BY <1>4, <2>1, <2>2 DEF IInv, TypeOK
<1>6. LockDiscipline'
  BY <1>2, <1>3 DEF LockDiscipline
<1>7. ActiveLinked'
  BY DEF IInv, ActiveLinked
<1>8. CandidatesSound'
  BY <1>1, <1>4 DEF CandidatesSound
<1>9. TargetSound'
  BY <1>2, <1>3 DEF TargetSound
<1>10. FailuresLeave'
  BY <1>2, <1>4 DEF FailuresLeave, Active, Failed
<1>11. QED
  BY <1>1, <1>5, <1>6, <1>7, <1>8, <1>9, <1>10 DEF IInv

(* The same inside AcceptBlock, which keeps cs_main.                        *)
LEMMA ReconsiderCheckpointInv ==
  ASSUME IInv, NEW t \in Thread, NEW b \in Block, ReconsiderCheckpoint(t, b)
  PROVE  IInv'
<1> USE DEF ReconsiderCheckpoint, index, local, env
<1>1. /\ LinkedIffAllData' /\ SeqIdsIssued'
      /\ \A x, y : Worse(x, y)' <=> Worse(x, y)
      /\ \A x, y \in linked' : x # y => seqId'[x] # seqId'[y]
  BY SameIndex
<1>2. /\ \A u \in Thread : pc[u] \notin {"step", "invalidate"} /\ nested[u] = FALSE
      /\ ~ SystemErrors => Active \cap Failed = {}
  BY FreeLock
<1>3. /\ pc' = [pc EXCEPT ![t] = "activate"] /\ pc \in [Thread -> Labels]
      /\ nested' = [nested EXCEPT ![t] = TRUE] /\ nested \in [Thread -> BOOLEAN]
  BY DEF Goto, IInv, TypeOK
<1>4. Parent[b] \in Block
  BY DEF Deliverable
<1>5. /\ candidates' \subseteq linked /\ \A c \in candidates' : ~ Worse(c, tip)
      /\ failedValid' \subseteq failedValid /\ failedChild' \subseteq failedChild
      /\ bestInvalid' \in Block \union {NoBlock}
  BY <1>4, ReconsideredSound
<1>6. TypeOK'
  <2>1. pc' \in [Thread -> Labels] /\ nested' \in [Thread -> BOOLEAN]
    BY <1>3 DEF Labels
  <2>2. QED
    BY <1>5, <2>1 DEF IInv, TypeOK
<1>7. LockDiscipline'
  BY <1>2, <1>3 DEF LockDiscipline
<1>8. ActiveLinked'
  BY DEF IInv, ActiveLinked
<1>9. CandidatesSound'
  BY <1>1, <1>5 DEF CandidatesSound
<1>10. TargetSound'
  BY <1>2, <1>3 DEF TargetSound
<1>11. FailuresLeave'
  BY <1>2, <1>5 DEF FailuresLeave, Active, Failed
<1>12. QED
  BY <1>1, <1>6, <1>7, <1>8, <1>9, <1>10, <1>11 DEF IInv

(* invalidateblock marks its block and starts to take it off the chain.     *)
LEMMA InvalidateBlockInv ==
  ASSUME IInv, NEW t \in Thread, NEW b \in Invalidatable, InvalidateBlock(t, b)
  PROVE  IInv'
<1> USE DEF InvalidateBlock, index
<1>1. /\ LinkedIffAllData' /\ SeqIdsIssued'
      /\ \A x, y : Worse(x, y)' <=> Worse(x, y)
      /\ \A x, y \in linked' : x # y => seqId'[x] # seqId'[y]
  BY SameIndex
<1>2. /\ \A u \in Thread : pc[u] \notin {"step", "invalidate"} /\ nested[u] = FALSE
      /\ ~ SystemErrors => Active \cap Failed = {}
  BY FreeLock
<1>3. /\ pc' = [pc EXCEPT ![t] = "invalidate"] /\ pc \in [Thread -> Labels]
      /\ target' = [target EXCEPT ![t] = b] /\ target \in [Thread -> Block]
      /\ b \in Block \ {Genesis}
  BY DEF Goto, IInv, TypeOK
<1>4. TypeOK'
  <2>1. rpcs' \in 0 .. MaxRpc
    BY DEF IInv, TypeOK
  <2>2. pc' \in [Thread -> Labels] /\ target' \in [Thread -> Block]
    BY <1>3 DEF Labels
  <2>3. QED
    BY <1>3, <2>1, <2>2 DEF IInv, TypeOK
<1>5. LockDiscipline'
  BY <1>2, <1>3 DEF LockDiscipline
<1>6. ActiveLinked'
  BY DEF IInv, ActiveLinked
<1>7. CandidatesSound'
  BY <1>1 DEF IInv, CandidatesSound
<1>8. TargetSound'
  BY <1>2, <1>3 DEF TargetSound
<1>9. FailuresLeave'
  <2>1. SUFFICES ASSUME ~ SystemErrors, NEW x \in Active' \cap Failed'
                 PROVE  pc'[t] = "invalidate" /\ target'[t] \in Anc[x]
    BY DEF FailuresLeave
  <2>2. x = b
    BY <1>2, <2>1 DEF Active, Failed
  <2>3. QED
    BY <1>3, <2>2, AncSelf
<1>10. QED
  BY <1>1, <1>4, <1>5, <1>6, <1>7, <1>8, <1>9 DEF IInv

-----------------------------------------------------------------------------
(* The action that links blocks *)

(* The blocks that a delivery links are new, and are exactly those whose    *)
(* ancestry it completes.                                                   *)
LEMMA LinkedByDelivery ==
  ASSUME IInv, NEW b \in Block \ {Genesis}, b \notin haveData
  PROVE  /\ NewlyLinked(b) \subseteq Block \ linked
         /\ NewlyLinked(b) # {} => b \in NewlyLinked(b)
         /\ linked \union NewlyLinked(b)
              = {d \in Block : Anc[d] \subseteq haveData \union {b}}
<1> DEFINE new == NewlyLinked(b)
           all == {d \in Block : Anc[d] \subseteq haveData \union {b}}
<1>1. /\ linked = {d \in Block : Anc[d] \subseteq haveData}
      /\ unlinked = haveData \ linked
  BY DEF IInv, LinkedIffAllData
<1>2. /\ Parent[b] \in Block /\ b \in Anc[b]
      /\ Anc[b] = Anc[Parent[b]] \union {b} /\ b \notin Anc[Parent[b]]
  BY Family
<1>3. new \subseteq Block /\ \A d \in new : b \in Anc[d]
  BY DEF NewlyLinked
<1>4. new \subseteq Block \ linked
  BY <1>1, <1>3
<1>5. new # {} => b \in new
  BY <1>2 DEF NewlyLinked
<1>6. linked \subseteq all
  BY <1>1
<1>7. ASSUME NEW d \in new PROVE d \in all
  <2>1. Parent[b] \in linked /\ Anc[d] \ Anc[b] \subseteq unlinked
    BY DEF NewlyLinked
  <2>2. Anc[b] \subseteq haveData \union {b}
    BY <1>1, <1>2, <2>1
  <2>3. QED
    BY <1>1, <1>3, <2>1, <2>2
<1>8. ASSUME NEW d \in all, d \notin linked PROVE d \in new
  <2>1. b \in Anc[d] /\ d \in Block
    BY <1>1, <1>8
  <2>2. Anc[b] \subseteq Anc[d]
    BY <2>1, AncTransitive
  <2>3. Parent[b] \in linked
    BY <1>1, <1>2, <2>2
  <2>4. ASSUME NEW x \in Anc[d] \ Anc[b] PROVE x \in unlinked
    <3>1. b \in Anc[x] /\ x \in Block
      BY <2>1, AncComparable, AncSelf
    <3>2. x \in haveData /\ x \notin linked
      BY <1>1, <1>2, <3>1
    <3>3. QED
      BY <1>1, <3>2
  <2>5. QED
    BY <2>1, <2>3, <2>4 DEF NewlyLinked
<1>9. QED
  BY <1>4, <1>5, <1>6, <1>7, <1>8

(* The numbers it hands out are fresh.                                      *)
LEMMA NumbersAreFresh ==
  ASSUME IInv, NEW S \in SUBSET Block, NEW f \in Numberings(S)
  PROVE  /\ Cardinality(S) \in Nat
         /\ nextSeq + Cardinality(S) \in Nat
         /\ \A x \in S : f[x] \in Nat /\ nextSeq =< f[x] /\ f[x] < nextSeq + Cardinality(S)
         /\ \A x, y \in S : x # y => f[x] # f[y]
<1>1. Cardinality(S) \in Nat /\ nextSeq \in Nat
  BY FS_Subset, FS_CardinalityType DEF IInv, TypeOK
<1>2. /\ f \in [S -> nextSeq .. (nextSeq + Cardinality(S) - 1)]
      /\ \A x, y \in S : x # y => f[x] # f[y]
  BY DEF Numberings
<1>3. \A x \in S : f[x] \in nextSeq .. (nextSeq + Cardinality(S) - 1)
  BY <1>2
<1>4. QED
  BY <1>1, <1>2, <1>3

(* A block arrives.                                                         *)
LEMMA AcceptBlockInv ==
  ASSUME IInv, NEW t \in Thread, NEW b \in Block, AcceptBlock(t, b)
  PROVE  IInv'
<1> DEFINE new == NewlyLinked(b)
<1>1. /\ lock = Nobody /\ b \in Block \ {Genesis} /\ b \notin haveData
      /\ ReceivedBlockTransactions(b)
      /\ pc' = [pc EXCEPT ![t] = "activate"] /\ pc \in [Thread -> Labels]
      /\ given' = [given EXCEPT ![t] = b]
      /\ UNCHANGED <<failed, tip, lock, target, oldTip, nested, env>>
  BY DEF AcceptBlock, Deliverable, Goto, IInv, TypeOK
<1>2. /\ \A u \in Thread : pc[u] \notin {"step", "invalidate"} /\ nested[u] = FALSE
      /\ ~ SystemErrors => Active \cap Failed = {}
  BY <1>1, FreeLock
<1>3. /\ new \subseteq Block \ linked
      /\ new # {} => b \in new
      /\ linked \union new = {d \in Block : Anc[d] \subseteq haveData \union {b}}
  BY <1>1, LinkedByDelivery
<1>4. /\ known' = known \union {b} /\ haveData' = haveData \union {b}
      /\ level' = [level EXCEPT ![b] = TRANSACTIONS]
      /\ linked' = linked \union new
      /\ nextSeq' = nextSeq + Cardinality(new)
      /\ unlinked' = IF new = {} THEN unlinked \union {b} ELSE unlinked \ new
      /\ candidates' = candidates \union
           {x \in new : ~ \/ ChainWork[x] < ChainWork[tip]
                          \/ ChainWork[x] = ChainWork[tip] /\ seqId'[x] > seqId[tip]}
  BY <1>1 DEF ReceivedBlockTransactions
<1>5. PICK f \in Numberings(new) :
         seqId' = [x \in Block |-> IF x \in new THEN f[x] ELSE seqId[x]]
  BY <1>1 DEF ReceivedBlockTransactions
<1>6. /\ Cardinality(new) \in Nat /\ nextSeq + Cardinality(new) \in Nat
      /\ \A x \in new : f[x] \in Nat /\ nextSeq =< f[x] /\ f[x] < nextSeq + Cardinality(new)
      /\ \A x, y \in new : x # y => f[x] # f[y]
  BY <1>3, NumbersAreFresh
<1> HIDE DEF new
<1>7. /\ \A x \in linked : seqId'[x] = seqId[x] /\ seqId[x] < nextSeq
      /\ \A x \in new : seqId'[x] = f[x]
      /\ linked \subseteq Block /\ tip \in linked /\ nextSeq \in Nat
      /\ seqId \in [Block -> Nat]
  BY <1>3, <1>5 DEF IInv, TypeOK, SeqIdsIssued, ActiveLinked
<1>8. TypeOK'
  <2>1. seqId' \in [Block -> Nat]
    BY <1>5, <1>6, <1>7
  <2>2. nextSeq' \in Nat
    BY <1>4, <1>6
  <2>3. level' \in [Block -> {UNKNOWN, TREE, TRANSACTIONS, SCRIPTS}]
    BY <1>4 DEF IInv, TypeOK
  <2>4. /\ known' \in SUBSET Block /\ haveData' \in SUBSET Block /\ linked' \in SUBSET Block
        /\ unlinked' \in SUBSET Block /\ candidates' \in SUBSET Block
    BY <1>3, <1>4 DEF IInv, TypeOK
  <2>5. pc' \in [Thread -> Labels] /\ given' \in [Thread -> Block \union {NoBlock}]
    BY <1>1 DEF Labels, IInv, TypeOK
  <2>6. QED
    BY <1>1, <2>1, <2>2, <2>3, <2>4, <2>5
    DEF IInv, TypeOK, failed, env
<1>9. LockDiscipline'
  BY <1>1, <1>2 DEF LockDiscipline
<1>10. LinkedIffAllData'
  <2>1. unlinked = haveData \ linked /\ \A x \in Block \ linked : seqId[x] = 0
    BY DEF IInv, LinkedIffAllData
  <2>2. b \notin linked
    BY <1>1, ActiveHasData
  <2>3. unlinked' = haveData' \ linked'
    BY <1>3, <1>4, <2>1, <2>2
  <2>4. \A x \in Block \ linked' : seqId'[x] = 0
    BY <1>4, <1>5, <2>1
  <2>5. QED
    BY <1>3, <1>4, <2>3, <2>4 DEF LinkedIffAllData
<1>11. SeqIdsIssued'
  <2>1. ASSUME NEW x \in linked' PROVE seqId'[x] < nextSeq'
    <3>1. CASE x \in linked
      <4>1. seqId[x] \in Nat
        BY <1>7, <3>1
      <4>2. QED
        BY <1>4, <1>6, <1>7, <3>1, <4>1
    <3>2. CASE x \in new
      BY <1>4, <1>6, <1>7, <3>2
    <3>3. QED
      BY <1>4, <3>1, <3>2
  <2>2. QED
    BY <2>1 DEF SeqIdsIssued
<1>12. ActiveLinked'
  BY <1>1, <1>4, <1>7 DEF ActiveLinked
<1>13. CandidatesSound'
  <2>1. candidates' \subseteq linked'
    BY <1>4 DEF IInv, CandidatesSound
  <2>2. ASSUME NEW c \in candidates' PROVE ~ Worse(c, tip)'
    <3>1. CASE c \in candidates
      <4>1. c \in linked /\ ~ Worse(c, tip)
        BY <3>1 DEF IInv, CandidatesSound
      <4>2. QED
        BY <1>1, <1>7, <4>1 DEF Worse
    <3>2. CASE c \notin candidates
      BY <1>1, <1>4, <1>7, <3>2 DEF Worse
    <3>3. QED
      BY <3>1, <3>2
  <2>3. ASSUME NEW x \in linked', NEW y \in linked', x # y PROVE seqId'[x] # seqId'[y]
    <3>1. CASE x \in linked /\ y \in linked
      BY <1>7, <2>3, <3>1 DEF IInv, CandidatesSound
    <3>2. CASE x \in new /\ y \in new
      BY <1>6, <1>7, <2>3, <3>2
    <3>3. ASSUME NEW u \in linked, NEW v \in new PROVE seqId'[u] # seqId'[v]
      <4>1. seqId[u] \in Nat /\ seqId[u] < nextSeq /\ seqId'[u] = seqId[u]
        BY <1>7
      <4>2. f[v] \in Nat /\ nextSeq =< f[v] /\ seqId'[v] = f[v]
        BY <1>6, <1>7
      <4>3. QED
        BY <1>7, <4>1, <4>2
    <3>4. QED
      BY <1>4, <3>1, <3>2, <3>3
  <2>4. QED
    BY <2>1, <2>2, <2>3 DEF CandidatesSound
<1>14. TargetSound'
  BY <1>1, <1>2 DEF TargetSound
<1>15. FailuresLeave'
  BY <1>1, <1>2 DEF FailuresLeave, Active, Failed, failed
<1>16. QED
  BY <1>8, <1>9, <1>10, <1>11, <1>12, <1>13, <1>14, <1>15 DEF IInv

-----------------------------------------------------------------------------
(* ActivateBestChain *)

(* A thread that holds cs_main or may take it has nobody beside it inside   *)
(* a section; unless it is invalidating itself, the active chain is clean.  *)
LEMMA Alone ==
  ASSUME IInv, NEW t \in Thread, MayLock(t)
  PROVE  /\ \A u \in Thread \ {t} : pc[u] \notin {"step", "invalidate"} /\ nested[u] = FALSE
         /\ ~ SystemErrors /\ pc[t] # "invalidate" => Active \cap Failed = {}
<1>1. \A u \in Thread \ {t} : lock # u
  BY DEF MayLock
<1>2. \A u \in Thread \ {t} : pc[u] \notin {"step", "invalidate"} /\ ~ nested[u]
  BY <1>1 DEF IInv, LockDiscipline
<1>3. \A u \in Thread \ {t} : nested[u] = FALSE
  BY <1>2 DEF IInv, TypeOK
<1>4. ~ SystemErrors /\ pc[t] # "invalidate" => Active \cap Failed = {}
  BY <1>2 DEF IInv, FailuresLeave
<1>5. QED
  BY <1>2, <1>3, <1>4

(* FindMostWorkChain drops a candidate with a failed ancestor.              *)
LEMMA DiscardCandidateInv ==
  ASSUME IInv, NEW t \in Thread, DiscardCandidate(t)
  PROVE  IInv'
<1> USE DEF DiscardCandidate, index, local, env
<1>1. /\ LinkedIffAllData' /\ SeqIdsIssued'
      /\ \A x, y : Worse(x, y)' <=> Worse(x, y)
      /\ \A x, y \in linked' : x # y => seqId'[x] # seqId'[y]
  BY SameIndex
<1>2. /\ \A u \in Thread \ {t} : pc[u] \notin {"step", "invalidate"} /\ nested[u] = FALSE
      /\ ~ SystemErrors => Active \cap Failed = {}
  BY Alone
<1>3. PICK c \in BestCandidates : \E test \in OffChain(c) \cap Failed :
         /\ failedChild' = failedChild \union (Anc[c] \ Anc[test])
         /\ candidates' = candidates \ (Anc[c] \ (Anc[test] \ {test}))
         /\ bestInvalid' = MoreInvalid(c)
  OBVIOUS
<1>4. PICK test \in OffChain(c) \cap Failed :
         /\ failedChild' = failedChild \union (Anc[c] \ Anc[test])
         /\ candidates' \subseteq candidates
         /\ bestInvalid' = MoreInvalid(c)
  BY <1>3
<1>5. c \in Block /\ Anc[c] \subseteq Block
  BY AncSelf DEF BestCandidates, IInv, TypeOK
<1>6. TypeOK'
  <2>1. failedChild' \in SUBSET Block /\ candidates' \in SUBSET Block
    BY <1>4, <1>5 DEF IInv, TypeOK
  <2>2. bestInvalid' \in Block \union {NoBlock}
    BY <1>4, <1>5 DEF MoreInvalid, IInv, TypeOK
  <2>3. QED
    BY <2>1, <2>2 DEF IInv, TypeOK
<1>7. LockDiscipline'
  BY <1>2 DEF IInv, LockDiscipline
<1>8. ActiveLinked'
  BY DEF IInv, ActiveLinked
<1>9. CandidatesSound'
  BY <1>1, <1>4 DEF IInv, CandidatesSound
<1>10. TargetSound'
  BY <1>2 DEF TargetSound
<1>11. FailuresLeave'
  <2>1. ASSUME NEW x \in Active, x \in Anc[c], x \notin Anc[test] PROVE FALSE
    <3>1. test \in Anc[x]
      BY <1>4, <1>5, <2>1, AncComparable DEF OffChain
    <3>2. tip \in Block
      BY DEF IInv, TypeOK
    <3>3. test \in Active
      BY <3>1, <3>2, AncTransitive DEF Active
    <3>4. QED
      BY <3>3 DEF OffChain
  <2>2. QED
    BY <1>2, <1>4, <2>1 DEF FailuresLeave, Active, Failed
<1>12. QED
  BY <1>1, <1>6, <1>7, <1>8, <1>9, <1>10, <1>11 DEF IInv

(* ActivateBestChain returns: what changes for its thread.                  *)
LEMMA ReturnTypes ==
  ASSUME IInv, NEW t \in Thread, Return(t)
  PROVE  /\ pc' \in [Thread -> Labels] /\ nested' \in [Thread -> BOOLEAN]
         /\ given' \in [Thread -> Block \union {NoBlock}]
         /\ pc'[t] \in {"activate", "idle"} /\ nested'[t] = FALSE
         /\ \A u \in Thread \ {t} : pc'[u] = pc[u] /\ nested'[u] = nested[u]
  BY DEF Return, Goto, IInv, TypeOK, Labels

(* FindMostWorkChain finds nothing to do.                                   *)
LEMMA NothingToDoInv ==
  ASSUME IInv, NEW t \in Thread, NothingToDo(t)
  PROVE  IInv'
<1> USE DEF NothingToDo, index, failed, chain, local, env
<1>1. /\ LinkedIffAllData' /\ SeqIdsIssued'
      /\ \A x, y : Worse(x, y)' <=> Worse(x, y)
      /\ \A x, y \in linked' : x # y => seqId'[x] # seqId'[y]
  BY SameIndex
<1>2. /\ \A u \in Thread \ {t} : pc[u] \notin {"step", "invalidate"} /\ nested[u] = FALSE
      /\ ~ SystemErrors => Active \cap Failed = {}
  BY Alone
<1>3. /\ pc' \in [Thread -> Labels] /\ nested' \in [Thread -> BOOLEAN]
      /\ given' \in [Thread -> Block \union {NoBlock}]
      /\ pc'[t] \in {"activate", "idle"} /\ nested'[t] = FALSE
      /\ \A u \in Thread \ {t} : pc'[u] = pc[u] /\ nested'[u] = nested[u]
  BY ReturnTypes
<1>4. TypeOK'
  BY <1>3 DEF IInv, TypeOK
<1>5. LockDiscipline'
  BY <1>2, <1>3 DEF LockDiscipline
<1>6. ActiveLinked'
  BY DEF IInv, ActiveLinked
<1>7. CandidatesSound'
  BY <1>1 DEF IInv, CandidatesSound
<1>8. TargetSound'
  BY <1>2, <1>3 DEF TargetSound
<1>9. FailuresLeave'
  BY <1>2 DEF FailuresLeave, Active, Failed
<1>10. QED
  BY <1>1, <1>4, <1>5, <1>6, <1>7, <1>8, <1>9 DEF IInv

(* FindMostWorkChain finds a target: it is better than the tip because the  *)
(* tip is not worse than no candidate but itself.                           *)
LEMMA ChooseTargetInv ==
  ASSUME IInv, NEW t \in Thread, ChooseTarget(t)
  PROVE  IInv'
<1> USE DEF ChooseTarget, index, failed, chain, env
<1>1. /\ LinkedIffAllData' /\ SeqIdsIssued'
      /\ \A x, y : Worse(x, y)' <=> Worse(x, y)
      /\ \A x, y \in linked' : x # y => seqId'[x] # seqId'[y]
  BY SameIndex
<1>2. /\ \A u \in Thread \ {t} : pc[u] \notin {"step", "invalidate"} /\ nested[u] = FALSE
      /\ ~ SystemErrors => Active \cap Failed = {}
  BY Alone
<1>3. PICK c \in BestCandidates \ {tip} :
         OffChain(c) \cap Failed = {} /\ target' = [target EXCEPT ![t] = c]
  OBVIOUS
<1>4. /\ c \in candidates /\ c \in linked /\ c \in Block /\ tip \in linked
      /\ tip \in Block /\ ~ Worse(c, tip)
  BY <1>3 DEF BestCandidates, IInv, TypeOK, CandidatesSound, ActiveLinked
<1>5. Worse(tip, c)
  BY <1>3, <1>4, WorseIsTotal
<1>6. /\ pc' = [pc EXCEPT ![t] = "step"] /\ pc \in [Thread -> Labels]
      /\ oldTip' = [oldTip EXCEPT ![t] = tip]
      /\ target \in [Thread -> Block] /\ oldTip \in [Thread -> Block]
  BY DEF Goto, IInv, TypeOK
<1>7. TypeOK'
  <2>1. /\ pc' \in [Thread -> Labels] /\ target' \in [Thread -> Block]
        /\ oldTip' \in [Thread -> Block]
    BY <1>3, <1>4, <1>6 DEF Labels
  <2>2. QED
    BY <2>1 DEF IInv, TypeOK
<1>8. LockDiscipline'
  BY <1>2, <1>3, <1>6 DEF LockDiscipline
<1>9. ActiveLinked'
  BY DEF IInv, ActiveLinked
<1>10. CandidatesSound'
  BY <1>1 DEF IInv, CandidatesSound
<1>11. TargetSound'
  <2>1. SUFFICES ASSUME NEW u \in Thread, pc'[u] = "step"
                 PROVE  /\ lock' = u /\ target'[u] \in candidates'
                        /\ Worse(oldTip[u], target[u])'
                        /\ OffChain(target[u])' \cap Failed' = {}
    BY DEF TargetSound
  <2>2. u = t
    BY <1>2, <1>6, <2>1
  <2>3. target'[u] = c /\ oldTip'[u] = tip /\ lock' = u
    BY <1>3, <1>6, <2>2
  <2>4. Worse(oldTip[u], target[u])'
    BY <1>5, <2>3 DEF Worse
  <2>5. OffChain(target[u])' \cap Failed' = {}
    BY <1>3, <2>3 DEF OffChain, Active, Failed
  <2>6. QED
    BY <1>4, <2>3, <2>4, <2>5
<1>12. FailuresLeave'
  BY <1>2 DEF FailuresLeave, Active, Failed
<1>13. QED
  BY <1>1, <1>7, <1>8, <1>9, <1>10, <1>11, <1>12 DEF IInv

(* What a thread inside a step knows.                                       *)
LEMMA InStep ==
  ASSUME IInv, NEW t \in Thread, pc[t] = "step"
  PROVE  /\ lock = t /\ MayLock(t)
         /\ target[t] \in candidates /\ target[t] \in linked /\ target[t] \in Block
         /\ Worse(oldTip[t], target[t])
         /\ OffChain(target[t]) \cap Failed = {}
         /\ tip \in Block /\ Active \subseteq linked
         /\ \A u \in Thread \ {t} : pc[u] \notin {"step", "invalidate"} /\ nested[u] = FALSE
         /\ ~ SystemErrors => Active \cap Failed = {}
<1>1. /\ lock = t /\ target[t] \in candidates
      /\ Worse(oldTip[t], target[t])
      /\ OffChain(target[t]) \cap Failed = {}
  BY DEF IInv, TargetSound
<1>2. target[t] \in linked /\ target[t] \in Block
  BY <1>1 DEF IInv, CandidatesSound, TypeOK
<1>3. MayLock(t)
  BY <1>1 DEF MayLock
<1>4. QED
  BY <1>1, <1>2, <1>3, Alone, ActiveHasData

(* The tip goes back to its parent.                                         *)
LEMMA TipDown ==
  ASSUME IInv, tip # Genesis
  PROVE  /\ Parent[tip] \in Block /\ Parent[tip] \in linked
         /\ Anc[Parent[tip]] = Active \ {tip}
         /\ \A c \in candidates : ~ Worse(c, Parent[tip])
<1>1. tip \in Block \ {Genesis} /\ Active \subseteq linked
  BY ActiveHasData
<1>2. /\ Parent[tip] \in Block /\ Parent[tip] \in Anc[Parent[tip]]
      /\ Anc[Parent[tip]] = Active \ {tip}
  BY <1>1, Family DEF Active
<1>3. ASSUME NEW c \in candidates PROVE ~ Worse(c, Parent[tip])
  <2>1. c \in Block /\ ~ Worse(c, tip)
    BY DEF IInv, TypeOK, CandidatesSound
  <2>2. /\ ChainWork[Parent[tip]] < ChainWork[tip]
        /\ ChainWork[Parent[tip]] \in Nat /\ ChainWork[tip] \in Nat /\ ChainWork[c] \in Nat
    BY <1>1, <1>2, <2>1
  <2>3. QED
    BY <2>1, <2>2 DEF Worse
<1>4. QED
  BY <1>1, <1>2, <1>3

(* DisconnectTip on the way to the fork.                                    *)
LEMMA DisconnectTipInv ==
  ASSUME IInv, NEW t \in Thread, DisconnectTip(t)
  PROVE  IInv'
<1> USE DEF DisconnectTip, index, failed, local, env
<1>1. /\ LinkedIffAllData' /\ SeqIdsIssued'
      /\ \A x, y : Worse(x, y)' <=> Worse(x, y)
      /\ \A x, y \in linked' : x # y => seqId'[x] # seqId'[y]
  BY SameIndex
<1>2. /\ lock = t /\ target[t] \in candidates /\ target[t] \in Block
      /\ Worse(oldTip[t], target[t])
      /\ OffChain(target[t]) \cap Failed = {}
      /\ \A u \in Thread \ {t} : pc[u] \notin {"step", "invalidate"}
      /\ ~ SystemErrors => Active \cap Failed = {}
  BY InStep
<1>3. tip # Genesis
  BY <1>2, Family
<1>4. /\ tip' \in Block /\ tip' \in linked /\ Active' = Active \ {tip}
      /\ \A c \in candidates : ~ Worse(c, tip')
  BY <1>3, TipDown DEF Active
<1>5. TypeOK'
  BY <1>4 DEF IInv, TypeOK
<1>6. LockDiscipline'
  BY DEF IInv, LockDiscipline
<1>7. ActiveLinked'
  BY <1>4 DEF ActiveLinked
<1>8. CandidatesSound'
  BY <1>1, <1>4 DEF IInv, CandidatesSound
<1>9. TargetSound'
  <2>1. Worse(oldTip[t], target[t])'
    BY <1>2 DEF Worse
  <2>2. OffChain(target[t])' \cap Failed' = {}
    BY <1>2, <1>4 DEF OffChain, Failed
  <2>3. QED
    BY <1>2, <2>1, <2>2 DEF TargetSound
<1>10. FailuresLeave'
  BY <1>2, <1>4 DEF FailuresLeave, Failed
<1>11. QED
  BY <1>1, <1>5, <1>6, <1>7, <1>8, <1>9, <1>10 DEF IInv

(* The block that is next on the way to the target.                         *)
LEMMA NextIsClean ==
  ASSUME IInv, NEW t \in Thread, pc[t] = "step", NEW n \in NextToConnect(t)
  PROVE  /\ n \in Block /\ n \in linked /\ n \in Anc[target[t]]
         /\ n \notin Active /\ n \notin Failed
         /\ Anc[n] = Active \union {n}
         /\ n # target[t] => ChainWork[n] < ChainWork[target[t]]
<1>1. /\ target[t] \in linked /\ target[t] \in Block
      /\ OffChain(target[t]) \cap Failed = {}
  BY InStep
<1>2. n \in Anc[target[t]] /\ n # Genesis /\ Parent[n] = tip
  BY DEF NextToConnect
<1>3. n \in Block /\ n \in linked
  BY <1>1, <1>2, Family, LinkedClosed
<1>4. Anc[n] = Active \union {n} /\ n \notin Active
  BY <1>2, <1>3, Family DEF Active
<1>5. n \notin Failed
  BY <1>1, <1>2, <1>4 DEF OffChain
<1>6. n # target[t] => ChainWork[n] < ChainWork[target[t]]
  BY <1>1, <1>2, AncLessWork
<1>7. QED
  BY <1>2, <1>3, <1>4, <1>5, <1>6

(* ConnectTip succeeds.                                                     *)
LEMMA ConnectTipInv ==
  ASSUME IInv, NEW t \in Thread, ConnectTip(t)
  PROVE  IInv'
<1> USE DEF ConnectTip, failed, local, env
<1>1. /\ LinkedIffAllData' /\ SeqIdsIssued'
      /\ \A x, y : Worse(x, y)' <=> Worse(x, y)
      /\ \A x, y \in linked' : x # y => seqId'[x] # seqId'[y]
  BY SameIndex
<1>2. /\ lock = t /\ target[t] \in candidates /\ target[t] \in Block
      /\ Worse(oldTip[t], target[t])
      /\ OffChain(target[t]) \cap Failed = {}
      /\ \A u \in Thread \ {t} : pc[u] \notin {"step", "invalidate"} /\ nested[u] = FALSE
      /\ ~ SystemErrors => Active \cap Failed = {}
  BY InStep
<1>3. PICK n \in NextToConnect(t) :
         /\ level' = Raised(n, SCRIPTS) /\ tip' = n /\ candidates' = Pruned(n)
         /\ IF ChainWork[n] > ChainWork[oldTip[t]] \/ n = target[t]
            THEN lock' = Released(t) /\ Goto(t, "looptest")
            ELSE UNCHANGED <<lock, pc>>
  OBVIOUS
<1>4. /\ n \in Block /\ n \in linked /\ n \notin Failed
      /\ Anc[n] = Active \union {n}
      /\ n # target[t] => ChainWork[n] < ChainWork[target[t]]
  BY NextIsClean
<1>5. Active' = Active \union {n}
  BY <1>3, <1>4 DEF Active
<1>6. \/ /\ lock' = Released(t) /\ pc' = [pc EXCEPT ![t] = "looptest"]
      \/ /\ n # target[t] /\ UNCHANGED <<lock, pc>>
  BY <1>3 DEF Goto
<1>7. /\ pc \in [Thread -> Labels] /\ lock' \in Thread \union {Nobody}
      /\ nested[t] => lock' = t
  BY <1>2, <1>6 DEF Released, IInv, TypeOK
<1>8. TypeOK'
  <2>1. level' \in [Block -> {UNKNOWN, TREE, TRANSACTIONS, SCRIPTS}]
    BY <1>3 DEF Raised, IInv, TypeOK
  <2>2. candidates' \in SUBSET Block
    BY <1>3 DEF Pruned, IInv, TypeOK
  <2>3. pc' \in [Thread -> Labels]
    BY <1>6, <1>7 DEF Labels
  <2>4. QED
    BY <1>3, <1>4, <1>7, <2>1, <2>2, <2>3 DEF IInv, TypeOK
<1>9. LockDiscipline'
  BY <1>2, <1>6, <1>7 DEF IInv, LockDiscipline
<1>10. ActiveLinked'
  BY <1>3, <1>4 DEF ActiveLinked
<1>11. CandidatesSound'
  BY <1>1, <1>3 DEF Pruned, IInv, CandidatesSound
<1>12. TargetSound'
  <2>1. SUFFICES ASSUME NEW u \in Thread, pc'[u] = "step"
                 PROVE  /\ lock' = u /\ target'[u] \in candidates'
                        /\ Worse(oldTip[u], target[u])'
                        /\ OffChain(target[u])' \cap Failed' = {}
    BY DEF TargetSound
  <2>2. u = t /\ n # target[t] /\ lock' = lock
    BY <1>2, <1>6, <1>7, <2>1
  <2>3. target[t] \in candidates'
    BY <1>2, <1>3, <1>4, <2>2, MoreWorkNotWorse DEF Pruned
  <2>4. Worse(oldTip[u], target[u])'
    BY <1>2, <2>2 DEF Worse
  <2>5. OffChain(target[u])' \cap Failed' = {}
    BY <1>2, <1>5, <2>2 DEF OffChain, Failed
  <2>6. QED
    BY <1>2, <2>2, <2>3, <2>4, <2>5
<1>13. FailuresLeave'
  BY <1>2, <1>4, <1>5 DEF FailuresLeave, Failed
<1>14. QED
  BY <1>1, <1>8, <1>9, <1>10, <1>11, <1>12, <1>13 DEF IInv

(* ConnectTip finds the block invalid.                                      *)
LEMMA ConnectTipInvalidInv ==
  ASSUME IInv, NEW t \in Thread, ConnectTipInvalid(t)
  PROVE  IInv'
<1> USE DEF ConnectTipInvalid, index, local, env
<1>1. /\ LinkedIffAllData' /\ SeqIdsIssued'
      /\ \A x, y : Worse(x, y)' <=> Worse(x, y)
      /\ \A x, y \in linked' : x # y => seqId'[x] # seqId'[y]
  BY SameIndex
<1>2. /\ lock = t
      /\ \A u \in Thread \ {t} : pc[u] \notin {"step", "invalidate"} /\ nested[u] = FALSE
      /\ ~ SystemErrors => Active \cap Failed = {}
  BY InStep
<1>3. PICK n \in NextToConnect(t) :
         /\ failedValid' = failedValid \union {n}
         /\ candidates' = candidates \ {n}
         /\ bestInvalid' = MoreInvalid(n)
  OBVIOUS
<1>4. n \in Block /\ n \notin Active
  BY NextIsClean
<1>5. /\ pc' = [pc EXCEPT ![t] = "looptest"] /\ pc \in [Thread -> Labels]
      /\ lock' \in Thread \union {Nobody} /\ (nested[t] => lock' = t)
  BY <1>2 DEF Goto, Released, IInv, TypeOK
<1>6. TypeOK'
  <2>1. bestInvalid' \in Block \union {NoBlock}
    BY <1>3, <1>4 DEF MoreInvalid, IInv, TypeOK
  <2>2. pc' \in [Thread -> Labels]
    BY <1>5 DEF Labels
  <2>3. QED
    BY <1>3, <1>4, <1>5, <2>1, <2>2 DEF IInv, TypeOK
<1>7. LockDiscipline'
  BY <1>2, <1>5 DEF IInv, LockDiscipline
<1>8. ActiveLinked'
  BY DEF IInv, ActiveLinked
<1>9. CandidatesSound'
  BY <1>1, <1>3 DEF IInv, CandidatesSound
<1>10. TargetSound'
  BY <1>2, <1>5 DEF TargetSound
<1>11. FailuresLeave'
  BY <1>2, <1>3, <1>4 DEF FailuresLeave, Active, Failed
<1>12. QED
  BY <1>1, <1>6, <1>7, <1>8, <1>9, <1>10, <1>11 DEF IInv

(* ConnectTip fails with CorruptionPossible.                                *)
LEMMA ConnectTipCorruptInv ==
  ASSUME IInv, NEW t \in Thread, ConnectTipCorrupt(t)
  PROVE  IInv'
<1> USE DEF ConnectTipCorrupt, index, failed, chain, local, env
<1>1. /\ LinkedIffAllData' /\ SeqIdsIssued'
      /\ \A x, y : Worse(x, y)' <=> Worse(x, y)
      /\ \A x, y \in linked' : x # y => seqId'[x] # seqId'[y]
  BY SameIndex
<1>2. /\ lock = t
      /\ \A u \in Thread \ {t} : pc[u] \notin {"step", "invalidate"} /\ nested[u] = FALSE
      /\ ~ SystemErrors => Active \cap Failed = {}
  BY InStep
<1>3. /\ pc' = [pc EXCEPT ![t] = "looptest"] /\ pc \in [Thread -> Labels]
      /\ lock' \in Thread \union {Nobody} /\ (nested[t] => lock' = t)
  BY <1>2 DEF Goto, Released, IInv, TypeOK
<1>4. TypeOK'
  BY <1>3 DEF IInv, TypeOK, Labels
<1>5. LockDiscipline'
  BY <1>2, <1>3 DEF IInv, LockDiscipline
<1>6. ActiveLinked'
  BY DEF IInv, ActiveLinked
<1>7. CandidatesSound'
  BY <1>1 DEF IInv, CandidatesSound
<1>8. TargetSound'
  BY <1>2, <1>3 DEF TargetSound
<1>9. FailuresLeave'
  BY <1>2 DEF FailuresLeave, Active, Failed
<1>10. QED
  BY <1>1, <1>4, <1>5, <1>6, <1>7, <1>8, <1>9 DEF IInv

(* ActivateBestChain gives up on a system error.                            *)
LEMMA StepErrorInv ==
  ASSUME IInv, NEW t \in Thread, StepError(t)
  PROVE  IInv'
<1> USE DEF StepError, index, failed, chain, local, env
<1>1. /\ LinkedIffAllData' /\ SeqIdsIssued'
      /\ \A x, y : Worse(x, y)' <=> Worse(x, y)
      /\ \A x, y \in linked' : x # y => seqId'[x] # seqId'[y]
  BY SameIndex
<1>2. /\ \A u \in Thread \ {t} : pc[u] \notin {"step", "invalidate"} /\ nested[u] = FALSE
      /\ ~ SystemErrors => Active \cap Failed = {}
  BY InStep
<1>3. /\ pc' \in [Thread -> Labels] /\ nested' \in [Thread -> BOOLEAN]
      /\ given' \in [Thread -> Block \union {NoBlock}]
      /\ pc'[t] \in {"activate", "idle"} /\ nested'[t] = FALSE
      /\ \A u \in Thread \ {t} : pc'[u] = pc[u] /\ nested'[u] = nested[u]
  BY ReturnTypes
<1>4. TypeOK'
  BY <1>3 DEF IInv, TypeOK
<1>5. LockDiscipline'
  BY <1>2, <1>3 DEF LockDiscipline
<1>6. ActiveLinked'
  BY DEF IInv, ActiveLinked
<1>7. CandidatesSound'
  BY <1>1 DEF IInv, CandidatesSound
<1>8. TargetSound'
  BY <1>2, <1>3 DEF TargetSound
<1>9. FailuresLeave'
  BY <1>2 DEF FailuresLeave, Active, Failed
<1>10. QED
  BY <1>1, <1>4, <1>5, <1>6, <1>7, <1>8, <1>9 DEF IInv

(* The loop test, the one place where another thread may be inside a step.  *)
LEMMA LoopTestInv ==
  ASSUME IInv, NEW t \in Thread, LoopTest(t)
  PROVE  IInv'
<1> USE DEF LoopTest, index, failed, chain, local, env
<1>1. /\ LinkedIffAllData' /\ SeqIdsIssued'
      /\ \A x, y : Worse(x, y)' <=> Worse(x, y)
      /\ \A x, y \in linked' : x # y => seqId'[x] # seqId'[y]
  BY SameIndex
<1>2. /\ pc' \in [Thread -> Labels] /\ nested' \in [Thread -> BOOLEAN]
      /\ given' \in [Thread -> Block \union {NoBlock}]
      /\ pc'[t] \in {"activate", "idle"}
      /\ \A u \in Thread \ {t} : pc'[u] = pc[u] /\ nested'[u] = nested[u]
      /\ \/ nested'[t] = FALSE /\ lock' = (IF nested[t] THEN Nobody ELSE lock)
         \/ pc'[t] = "activate" /\ nested' = nested /\ lock' = lock
  <2>1. CASE target[t] = tip
    BY <2>1, ReturnTypes
  <2>2. CASE target[t] # tip
    <3>1. pc' = [pc EXCEPT ![t] = "activate"] /\ UNCHANGED <<lock, nested, given>>
      BY <2>2 DEF Goto
    <3>2. QED
      BY <3>1 DEF IInv, TypeOK, Labels
  <2>3. QED
    BY <2>1, <2>2
<1>3. nested[t] \in BOOLEAN /\ (nested[t] => lock = t)
  BY DEF IInv, TypeOK, LockDiscipline
<1>4. \A u \in Thread \ {t} : lock = u => lock' = u
  BY <1>2, <1>3
<1>5. TypeOK'
  BY <1>2 DEF IInv, TypeOK
<1>6. LockDiscipline'
  <2>1. SUFFICES ASSUME NEW u \in Thread
                 PROVE  /\ pc'[u] \in {"step", "invalidate"} => lock' = u
                        /\ nested'[u] => /\ lock' = u
                                          /\ pc'[u] \in {"activate", "step", "looptest"}
                        /\ pc'[u] = "invalidate" => target'[u] # Genesis
    BY DEF LockDiscipline
  <2>2. CASE u # t
    BY <1>2, <1>4, <2>2 DEF IInv, LockDiscipline
  <2>3. CASE u = t
    BY <1>2, <1>3, <2>3
  <2>4. QED
    BY <2>2, <2>3
<1>7. ActiveLinked'
  BY DEF IInv, ActiveLinked
<1>8. CandidatesSound'
  BY <1>1 DEF IInv, CandidatesSound
<1>9. TargetSound'
  <2>1. SUFFICES ASSUME NEW u \in Thread, pc'[u] = "step"
                 PROVE  /\ lock' = u /\ target'[u] \in candidates'
                        /\ Worse(oldTip[u], target[u])'
                        /\ OffChain(target[u])' \cap Failed' = {}
    BY DEF TargetSound
  <2>2. u # t /\ pc[u] = "step"
    BY <1>2, <2>1
  <2>3. /\ lock = u /\ target[u] \in candidates
        /\ Worse(oldTip[u], target[u]) /\ OffChain(target[u]) \cap Failed = {}
    BY <2>2 DEF IInv, TargetSound
  <2>4. QED
    BY <1>4, <2>2, <2>3 DEF Worse, OffChain, Active, Failed
<1>10. FailuresLeave'
  <2>1. \A u \in Thread : pc[u] = "invalidate" => pc'[u] = "invalidate"
    BY <1>2
  <2>2. QED
    BY <2>1 DEF IInv, FailuresLeave, Active, Failed
<1>11. QED
  BY <1>1, <1>5, <1>6, <1>7, <1>8, <1>9, <1>10 DEF IInv

-----------------------------------------------------------------------------
(* InvalidateBlock *)

(* One block leaves the chain, or a system error ends the call.             *)
LEMMA InvalidateTipInv ==
  ASSUME IInv, NEW t \in Thread, InvalidateTip(t)
  PROVE  IInv'
<1> USE DEF InvalidateTip, index, local, env
<1>1. /\ LinkedIffAllData' /\ SeqIdsIssued'
      /\ \A x, y : Worse(x, y)' <=> Worse(x, y)
      /\ \A x, y \in linked' : x # y => seqId'[x] # seqId'[y]
  BY SameIndex
<1>2. /\ lock = t /\ target[t] # Genesis
      /\ \A u \in Thread \ {t} : pc[u] \notin {"step", "invalidate"} /\ nested[u] = FALSE
      /\ nested[t] = FALSE
  <2>1. lock = t /\ target[t] # Genesis /\ ~ nested[t]
    BY DEF IInv, LockDiscipline
  <2>2. MayLock(t) /\ nested[t] = FALSE
    BY <2>1 DEF MayLock, IInv, TypeOK
  <2>3. QED
    BY <2>1, <2>2, Alone
<1>3. tip # Genesis /\ tip \in Block
  BY <1>2, AncGenesis DEF Active, IInv, TypeOK
<1>4. /\ Parent[tip] \in Block /\ Parent[tip] \in linked
      /\ Anc[Parent[tip]] = Active \ {tip}
      /\ \A c \in candidates : ~ Worse(c, Parent[tip])
  BY <1>3, TipDown
<1>5. \/ tip' = Parent[tip] /\ UNCHANGED <<lock, pc>>
      \/ /\ SystemErrors /\ lock' = Nobody /\ tip' = tip
         /\ \E label \in {"activate", "idle"} : pc' = [pc EXCEPT ![t] = label]
  BY DEF Goto
<1>6. /\ pc' \in [Thread -> Labels] /\ lock' \in Thread \union {Nobody}
      /\ pc'[t] \in {"invalidate", "activate", "idle"}
      /\ \A u \in Thread \ {t} : pc'[u] = pc[u]
      /\ pc'[t] = "invalidate" => lock' = t
  BY <1>2, <1>5 DEF IInv, TypeOK, Labels
<1>7. TypeOK'
  BY <1>3, <1>4, <1>5, <1>6 DEF IInv, TypeOK
<1>8. LockDiscipline'
  BY <1>2, <1>6 DEF LockDiscipline
<1>9. ActiveLinked'
  BY <1>4, <1>5 DEF IInv, ActiveLinked
<1>10. CandidatesSound'
  <2>1. candidates' \subseteq linked /\ \A c \in candidates' : ~ Worse(c, tip')
    BY <1>4, <1>5 DEF IInv, CandidatesSound
  <2>2. QED
    BY <1>1, <2>1 DEF CandidatesSound
<1>11. TargetSound'
  BY <1>2, <1>6 DEF TargetSound
<1>12. FailuresLeave'
  <2>1. SUFFICES ASSUME ~ SystemErrors, NEW x \in Active' \cap Failed'
                 PROVE  \E u \in Thread : pc'[u] = "invalidate" /\ target'[u] \in Anc[x]
    BY DEF FailuresLeave
  <2>2. tip' = Parent[tip] /\ UNCHANGED <<lock, pc>>
    BY <1>5, <2>1
  <2>3. x \in Active /\ x # tip
    BY <1>4, <2>1, <2>2 DEF Active
  <2>4. x \in Failed
    BY <2>1, <2>3 DEF Failed
  <2>5. \E u \in Thread : pc[u] = "invalidate" /\ target[u] \in Anc[x]
    BY <2>1, <2>3, <2>4 DEF IInv, FailuresLeave
  <2>6. QED
    BY <2>2, <2>5
<1>13. QED
  BY <1>1, <1>7, <1>8, <1>9, <1>10, <1>11, <1>12 DEF IInv

(* The invalidated block has left the chain.                                *)
LEMMA InvalidateEndInv ==
  ASSUME IInv, NEW t \in Thread, InvalidateEnd(t)
  PROVE  IInv'
<1> USE DEF InvalidateEnd, index, local, env
<1>1. /\ LinkedIffAllData' /\ SeqIdsIssued'
      /\ \A x, y : Worse(x, y)' <=> Worse(x, y)
      /\ \A x, y \in linked' : x # y => seqId'[x] # seqId'[y]
  BY SameIndex
<1>2. /\ lock = t /\ nested[t] = FALSE
      /\ \A u \in Thread \ {t} : pc[u] \notin {"step", "invalidate"} /\ nested[u] = FALSE
  <2>1. lock = t /\ ~ nested[t]
    BY DEF IInv, LockDiscipline
  <2>2. MayLock(t) /\ nested[t] = FALSE
    BY <2>1 DEF MayLock, IInv, TypeOK
  <2>3. QED
    BY <2>1, <2>2, Alone
<1>3. pc' = [pc EXCEPT ![t] = "activate"] /\ pc \in [Thread -> Labels]
  BY DEF Goto, IInv, TypeOK
<1>4. candidates' \subseteq linked /\ \A c \in candidates' : ~ Worse(c, tip)
  BY DEF IInv, CandidatesSound
<1>5. TypeOK'
  <2>1. bestInvalid' \in Block \union {NoBlock}
    BY DEF MoreInvalid, IInv, TypeOK
  <2>2. pc' \in [Thread -> Labels]
    BY <1>3 DEF Labels
  <2>3. candidates' \in SUBSET Block
    BY <1>4 DEF IInv, TypeOK
  <2>4. QED
    BY <2>1, <2>2, <2>3 DEF IInv, TypeOK
<1>6. LockDiscipline'
  BY <1>2, <1>3 DEF LockDiscipline
<1>7. ActiveLinked'
  BY DEF IInv, ActiveLinked
<1>8. CandidatesSound'
  BY <1>1, <1>4 DEF CandidatesSound
<1>9. TargetSound'
  BY <1>2, <1>3 DEF TargetSound
<1>10. FailuresLeave'
  <2>1. SUFFICES ASSUME ~ SystemErrors, NEW x \in Active \cap Failed PROVE FALSE
    BY DEF FailuresLeave, Active, Failed
  <2>2. target[t] \in Anc[x]
    BY <1>2, <2>1 DEF IInv, FailuresLeave
  <2>3. tip \in Block
    BY DEF IInv, TypeOK
  <2>4. target[t] \in Active
    BY <2>1, <2>2, <2>3, AncTransitive DEF Active
  <2>5. QED
    BY <2>4
<1>11. QED
  BY <1>1, <1>5, <1>6, <1>7, <1>8, <1>9, <1>10 DEF IInv

-----------------------------------------------------------------------------

(* Every step of every thread keeps the invariant.                          *)
LEMMA NextInv == IInv /\ [Next]_vars => IInv'
<1> SUFFICES ASSUME IInv, [Next]_vars PROVE IInv'
  OBVIOUS
<1>1. ASSUME NEW t \in Thread, Step(t) PROVE IInv'
  BY <1>1, DiscardCandidateInv, NothingToDoInv, ChooseTargetInv, DisconnectTipInv,
     ConnectTipInv, ConnectTipInvalidInv, ConnectTipCorruptInv, StepErrorInv,
     LoopTestInv, InvalidateTipInv, InvalidateEndInv DEF Step
<1>2. ASSUME NEW t \in Thread, NEW b \in Block,
             \/ AcceptBlock(t, b) \/ AcceptHeaderOnly(t, b)
             \/ AcceptDuplicate(t, b) \/ ReconsiderCheckpoint(t, b)
      PROVE  IInv'
  BY <1>2, AcceptBlockInv, AcceptHeaderOnlyInv, AcceptDuplicateInv, ReconsiderCheckpointInv
<1>3. ASSUME NEW t \in Thread, NEW b \in Reconsiderable, ReconsiderBlock(t, b) PROVE IInv'
  BY <1>3, ReconsiderBlockInv
<1>4. ASSUME NEW t \in Thread, NEW b \in Invalidatable, InvalidateBlock(t, b) PROVE IInv'
  BY <1>4, InvalidateBlockInv
<1>5. CASE UNCHANGED vars
  <2> USE <1>5 DEF vars, index, failed, chain, local, env
  <2>1. /\ LinkedIffAllData' /\ SeqIdsIssued'
        /\ \A x, y : Worse(x, y)' <=> Worse(x, y)
    BY SameIndex
  <2>2. TypeOK' /\ ActiveLinked'
    BY DEF IInv, TypeOK, ActiveLinked
  <2>3. LockDiscipline'
    BY DEF IInv, LockDiscipline
  <2>4. CandidatesSound'
    BY DEF IInv, CandidatesSound, Worse
  <2>5. TargetSound'
    BY DEF IInv, TargetSound, Worse, OffChain, Active, Failed
  <2>6. FailuresLeave'
    BY DEF IInv, FailuresLeave, Active, Failed
  <2>7. QED
    BY <2>1, <2>2, <2>3, <2>4, <2>5, <2>6 DEF IInv
<1>6. QED
  BY <1>1, <1>2, <1>3, <1>4, <1>5 DEF Next

(* The invariant holds of every reachable state.                            *)
THEOREM Invariance == Spec => []IInv
  BY InitInv, NextInv, PTL DEF Spec

(* Type correctness of the block index, the chain and the threads.          *)
THEOREM TypeCorrect == Spec => []TypeOK
<1>1. IInv => TypeOK
  BY DEF IInv
<1>2. QED
  BY <1>1, Invariance, PTL

(* In whatever order headers and data arrive, ReceivedBlockTransactions     *)
(* links exactly the blocks whose whole ancestry is stored.                 *)
THEOREM LinksComplete == Spec => []LinkedIffAllData
<1>1. IInv => LinkedIffAllData
  BY DEF IInv
<1>2. QED
  BY <1>1, Invariance, PTL

(* setBlockIndexCandidates holds linked blocks no worse than the tip, in an *)
(* order without ties.                                                      *)
THEOREM CandidatesAreSound == Spec => []CandidatesSound
<1>1. IInv => CandidatesSound
  BY DEF IInv
<1>2. QED
  BY <1>1, Invariance, PTL

(* A thread inside ActivateBestChainStep holds cs_main, and works towards a *)
(* better block over blocks none of which is marked failed.                 *)
THEOREM TargetsAreSound == Spec => []TargetSound
<1>1. IInv => TargetSound
  BY DEF IInv
<1>2. QED
  BY <1>1, Invariance, PTL

(* ActivateBestChain inside AcceptBlock never gives cs_main away.           *)
THEOREM NestedKeepsLock == Spec => []NestedHoldsLock
<1>1. IInv => NestedHoldsLock
  BY DEF IInv, LockDiscipline, NestedHoldsLock
<1>2. QED
  BY <1>1, Invariance, PTL

(* Without system errors no thread finds a failed block in the active       *)
(* chain, whatever is connected, invalidated and reconsidered.              *)
THEOREM ActiveChainIsClean ==
  ASSUME SystemErrors = FALSE
  PROVE  Spec => []ActiveChainClean
<1>1. IInv => ActiveChainClean
  BY FreeLock DEF ActiveChainClean
<1>2. QED
  BY <1>1, Invariance, PTL

(* No step changes the key of an entry of setBlockIndexCandidates.          *)
THEOREM OrderIsStable == Spec => OrderStable
<1>1. IInv /\ [Next]_vars => [\A c \in candidates : seqId'[c] = seqId[c]]_vars
  <2> SUFFICES ASSUME IInv, Next PROVE \A c \in candidates : seqId'[c] = seqId[c]
    OBVIOUS
  <2>1. ASSUME NEW t \in Thread, NEW b \in Block, AcceptBlock(t, b)
        PROVE  \A c \in candidates : seqId'[c] = seqId[c]
    <3>1. b \in Block \ {Genesis} /\ b \notin haveData /\ ReceivedBlockTransactions(b)
      BY <2>1 DEF AcceptBlock, Deliverable
    <3>2. PICK f \in Numberings(NewlyLinked(b)) :
             seqId' = [x \in Block |-> IF x \in NewlyLinked(b) THEN f[x] ELSE seqId[x]]
      BY <3>1 DEF ReceivedBlockTransactions
    <3>3. NewlyLinked(b) \subseteq Block \ linked
      BY <3>1, LinkedByDelivery
    <3>4. candidates \subseteq linked /\ candidates \subseteq Block
      BY DEF IInv, TypeOK, CandidatesSound
    <3>5. QED
      BY <3>2, <3>3, <3>4
  <2>2. ASSUME NEW t \in Thread, Step(t) PROVE seqId' = seqId
    BY <2>2 DEF Step, DiscardCandidate, NothingToDo, ChooseTarget, DisconnectTip, ConnectTip,
       ConnectTipInvalid, ConnectTipCorrupt, StepError, LoopTest, InvalidateTip,
       InvalidateEnd, index
  <2>3. ASSUME NEW t \in Thread, NEW b \in Block,
               \/ AcceptHeaderOnly(t, b) \/ AcceptDuplicate(t, b) \/ ReconsiderCheckpoint(t, b)
               \/ ReconsiderBlock(t, b) \/ InvalidateBlock(t, b)
        PROVE  seqId' = seqId
    BY <2>3 DEF AcceptHeaderOnly, AcceptDuplicate, ReconsiderCheckpoint, ReconsiderBlock,
       InvalidateBlock, index
  <2>4. QED
    BY <2>1, <2>2, <2>3 DEF Next
<1>2. QED
  BY <1>1, Invariance, PTL DEF Spec, OrderStable

-----------------------------------------------------------------------------
(* What nStatus says of a block                                             *)

LEMMA InitMarks == Init => MarksInv
<1> SUFFICES ASSUME Init PROVE MarksInv
  OBVIOUS
<1> USE DEF Init
<1>1. StatusSound
  BY DEF StatusSound, Failed
<1>2. ConnectedSound
  <2>1. Connected = {Genesis}
    BY DEF Connected, UNKNOWN, TRANSACTIONS, SCRIPTS
  <2>2. QED
    BY <2>1, AncGenesis DEF ConnectedSound, Active
<1>3. InvalidatingMarked /\ UntouchedClean
  BY DEF InvalidatingMarked, UntouchedClean, Failed
<1> QED
  BY <1>1, <1>2, <1>3 DEF MarksInv

(* RaiseValidity changes the level of its own entry, and upwards.           *)
LEMMA RaisedKeeps ==
  ASSUME IInv, NEW n \in Block, NEW lvl \in {TREE, SCRIPTS}, level' = Raised(n, lvl)
  PROVE  /\ \A b \in Block : level[b] \in {TRANSACTIONS, SCRIPTS} =>
               level'[b] \in {TRANSACTIONS, SCRIPTS}
         /\ lvl = TREE => Connected' = Connected
         /\ lvl = SCRIPTS /\ n \notin Failed => Connected' = Connected \union {n}
<1> USE DEF UNKNOWN, TREE, TRANSACTIONS, SCRIPTS
<1>1. level \in [Block -> {UNKNOWN, TREE, TRANSACTIONS, SCRIPTS}]
  BY DEF IInv, TypeOK
<1>2. \A b \in Block : b # n => level'[b] = level[b]
  BY <1>1 DEF Raised
<1>3. level'[n] = IF n \notin Failed /\ level[n] < lvl THEN lvl ELSE level[n]
  BY <1>1 DEF Raised
<1>4. CASE lvl = TREE
  BY <1>1, <1>2, <1>3, <1>4 DEF Connected
<1>5. CASE lvl = SCRIPTS
  BY <1>1, <1>2, <1>3, <1>5 DEF Connected
<1> QED
  BY <1>4, <1>5

(* The blocks DiscardCandidate marks, and those it takes out, descend from  *)
(* a failed block off the active chain.                                     *)
LEMMA Discarded ==
  ASSUME IInv, NEW t \in Thread, DiscardCandidate(t)
  PROVE  \E test \in Failed : \E c \in candidates :
           /\ c \in Block /\ c \in linked /\ test \in Anc[c] /\ test \in Block
           /\ test \notin Active
           /\ failedChild' = failedChild \union (Anc[c] \ Anc[test])
           /\ candidates' = candidates \ (Anc[c] \ (Anc[test] \ {test}))
           /\ \A x \in Anc[c] \ Anc[test] : test \in Anc[x] /\ x \notin Active /\ x # Genesis
<1>1. PICK c \in BestCandidates : \E test \in OffChain(c) \cap Failed :
         /\ failedChild' = failedChild \union (Anc[c] \ Anc[test])
         /\ candidates' = candidates \ (Anc[c] \ (Anc[test] \ {test}))
  BY DEF DiscardCandidate
<1>2. PICK test \in OffChain(c) \cap Failed :
         /\ failedChild' = failedChild \union (Anc[c] \ Anc[test])
         /\ candidates' = candidates \ (Anc[c] \ (Anc[test] \ {test}))
  BY <1>1
<1>3. /\ c \in candidates /\ c \in Block /\ c \in linked
      /\ test \in Anc[c] /\ test \notin Active /\ test \in Failed
  BY <1>1, <1>2 DEF BestCandidates, OffChain, IInv, TypeOK, CandidatesSound
<1>4. test \in Block
  BY <1>3, AncSelf
<1>5. ASSUME NEW x \in Anc[c] \ Anc[test]
      PROVE  test \in Anc[x] /\ x \notin Active /\ x # Genesis
  <2>1. test \in Anc[x]
    BY <1>3, AncComparable
  <2>2. tip \in Block
    BY DEF IInv, TypeOK
  <2>3. x \notin Active
    BY <1>3, <2>1, <2>2, AncTransitive DEF Active
  <2>4. x # Genesis
    BY <1>4, AncRoot
  <2> QED
    BY <2>1, <2>3, <2>4
<1> QED
  BY <1>2, <1>3, <1>4, <1>5

(* An invalidation is not at the genesis block.                             *)
LEMMA InvalidatedTip ==
  ASSUME IInv, NEW t \in Thread, InvalidateTip(t)
  PROVE  tip \in Block \ {Genesis}
<1>1. target[t] # Genesis /\ tip \in Block
  BY DEF InvalidateTip, IInv, TypeOK, LockDiscipline
<1>2. tip # Genesis
  BY <1>1, AncGenesis DEF InvalidateTip, Active
<1> QED
  BY <1>1, <1>2

(* Marks are put on known blocks only, and never on the genesis block.      *)
LEMMA StatusKept ==
  ASSUME IInv, StatusSound, Next
  PROVE  StatusSound'
<1>1. /\ \A b \in haveData : level[b] \in {TRANSACTIONS, SCRIPTS}
      /\ haveData \subseteq known /\ Failed \subseteq known /\ Genesis \notin Failed
      /\ haveData \subseteq Block /\ linked \subseteq haveData /\ tip \in haveData
      /\ level \in [Block -> {UNKNOWN, TREE, TRANSACTIONS, SCRIPTS}]
  <2>1. tip \in Active
    BY AncSelf DEF Active, IInv, TypeOK
  <2> QED
    BY <2>1, ActiveHasData DEF StatusSound, IInv, TypeOK
<1>2. ASSUME NEW t \in Thread, NEW b \in Block, AcceptBlock(t, b) PROVE StatusSound'
  <2>1. /\ haveData' = haveData \union {b} /\ known' = known \union {b}
        /\ level' = [level EXCEPT ![b] = TRANSACTIONS]
        /\ Failed' = Failed
    BY <1>2 DEF AcceptBlock, ReceivedBlockTransactions, failed, Failed
  <2> QED
    BY <1>1, <2>1 DEF StatusSound
<1>3. ASSUME NEW t \in Thread, NEW b \in Block, AcceptHeaderOnly(t, b) PROVE StatusSound'
  <2>1. /\ haveData' = haveData /\ known' = known \union {b} /\ level' = Raised(b, TREE)
        /\ Failed' \subseteq Failed \union {b} /\ b # Genesis
    BY <1>3 DEF AcceptHeaderOnly, Deliverable, Failed
  <2>2. \A x \in haveData : level'[x] \in {TRANSACTIONS, SCRIPTS}
    BY <1>1, <2>1, RaisedKeeps
  <2> QED
    BY <1>1, <2>1, <2>2 DEF StatusSound
<1>4. ASSUME NEW t \in Thread, NEW b \in Block,
             \/ AcceptDuplicate(t, b) \/ ReconsiderCheckpoint(t, b)
             \/ ReconsiderBlock(t, b)
      PROVE  StatusSound'
  <2>1. UNCHANGED index /\ Failed' \subseteq Failed
    BY <1>4 DEF AcceptDuplicate, ReconsiderCheckpoint, ReconsiderBlock, Reconsidered,
       failed, Failed
  <2> QED
    BY <1>1, <2>1 DEF StatusSound, index
<1>5. ASSUME NEW t \in Thread, NEW b \in Invalidatable, InvalidateBlock(t, b) PROVE StatusSound'
  <2>1. UNCHANGED index /\ Failed' = Failed \union {b} /\ b \in known \ {Genesis}
    BY <1>5 DEF InvalidateBlock, Failed
  <2> QED
    BY <1>1, <2>1 DEF StatusSound, index
<1>6. ASSUME NEW t \in Thread, DiscardCandidate(t) PROVE StatusSound'
  <2>1. PICK test \in Failed : \E c \in candidates :
          /\ c \in linked
          /\ failedChild' = failedChild \union (Anc[c] \ Anc[test])
          /\ \A x \in Anc[c] \ Anc[test] : x # Genesis
    BY <1>6, Discarded
  <2>2. PICK c \in candidates :
          /\ c \in linked
          /\ failedChild' = failedChild \union (Anc[c] \ Anc[test])
          /\ \A x \in Anc[c] \ Anc[test] : x # Genesis
    BY <2>1
  <2>3. Anc[c] \subseteq linked
    BY <2>2, LinkedClosed
  <2>4. UNCHANGED <<index, failedValid>>
    BY <1>6 DEF DiscardCandidate
  <2> QED
    BY <1>1, <2>2, <2>3, <2>4 DEF StatusSound, Failed, index
<1>7. ASSUME NEW t \in Thread, ConnectTip(t) PROVE StatusSound'
  <2>1. PICK n \in NextToConnect(t) : level' = Raised(n, SCRIPTS)
    BY <1>7 DEF ConnectTip
  <2>2. n \in Block
    BY <1>7, <2>1, NextIsClean DEF ConnectTip
  <2>3. \A x \in haveData : level'[x] \in {TRANSACTIONS, SCRIPTS}
    BY <1>1, <2>1, <2>2, RaisedKeeps
  <2>4. UNCHANGED <<known, haveData, failed>>
    BY <1>7 DEF ConnectTip
  <2> QED
    BY <1>1, <2>3, <2>4 DEF StatusSound, Failed, failed
<1>8. ASSUME NEW t \in Thread, ConnectTipInvalid(t) PROVE StatusSound'
  <2>1. PICK n \in NextToConnect(t) : failedValid' = failedValid \union {n}
    BY <1>8 DEF ConnectTipInvalid
  <2>2. n \in linked /\ n # Genesis
    BY <1>8, <2>1, NextIsClean DEF ConnectTipInvalid, NextToConnect
  <2>3. UNCHANGED <<index, failedChild>>
    BY <1>8 DEF ConnectTipInvalid
  <2> QED
    BY <1>1, <2>1, <2>2, <2>3 DEF StatusSound, Failed, index
<1>9. ASSUME NEW t \in Thread, InvalidateTip(t) PROVE StatusSound'
  <2>1. UNCHANGED <<index, failedValid>> /\ failedChild' = failedChild \union {tip}
    BY <1>9 DEF InvalidateTip
  <2>2. tip # Genesis
    BY <1>9, InvalidatedTip
  <2> QED
    BY <1>1, <2>1, <2>2 DEF StatusSound, Failed, index
<1>10. ASSUME NEW t \in Thread,
              \/ NothingToDo(t) \/ ChooseTarget(t) \/ DisconnectTip(t) \/ ConnectTipCorrupt(t)
              \/ StepError(t) \/ LoopTest(t) \/ InvalidateEnd(t)
       PROVE  StatusSound'
  <2>1. UNCHANGED <<index, failedValid, failedChild>>
    BY <1>10 DEF NothingToDo, ChooseTarget, DisconnectTip, ConnectTipCorrupt, StepError,
       LoopTest, InvalidateEnd, failed
  <2> QED
    BY <1>1, <2>1 DEF StatusSound, Failed, index
<1> QED
  BY <1>2, <1>3, <1>4, <1>5, <1>6, <1>7, <1>8, <1>9, <1>10 DEF Next, Step

(* A block is raised to SCRIPTS only on top of a tip that was, and what is  *)
(* stored again was never raised.                                           *)
LEMMA ConnectedKept ==
  ASSUME IInv, StatusSound, ConnectedSound, Next
  PROVE  ConnectedSound'
<1>1. /\ Active \subseteq Connected /\ Connected \subseteq linked
      /\ \A b \in Connected : b \in Block /\ Anc[b] \subseteq Connected
      /\ \A b \in Connected \ {Genesis} : "ok" \in verdict[b]
      /\ linked \subseteq haveData /\ tip \in Block
  BY ActiveHasData DEF ConnectedSound, Connected
<1>2. ASSUME Connected' = Connected, Active' \subseteq Active, linked \subseteq linked',
             verdict' = verdict
      PROVE  ConnectedSound'
  BY <1>1, <1>2 DEF ConnectedSound
<1>3. ASSUME NEW t \in Thread, NEW b \in Block, AcceptBlock(t, b) PROVE ConnectedSound'
  <2>1. /\ level' = [level EXCEPT ![b] = TRANSACTIONS] /\ b # Genesis /\ b \notin haveData
        /\ linked \subseteq linked' /\ tip' = tip /\ verdict' = verdict
    BY <1>3 DEF AcceptBlock, Deliverable, ReceivedBlockTransactions, env
  <2>2. Connected' = Connected
    BY <1>1, <2>1 DEF Connected, IInv, TypeOK, TRANSACTIONS, SCRIPTS
  <2> QED
    BY <1>2, <2>1, <2>2 DEF Active
<1>4. ASSUME NEW t \in Thread, NEW b \in Block, AcceptHeaderOnly(t, b) PROVE ConnectedSound'
  <2>1. level' = Raised(b, TREE) /\ UNCHANGED <<linked, tip, verdict>>
    BY <1>4 DEF AcceptHeaderOnly, chain, env
  <2>2. Connected' = Connected
    BY <2>1, RaisedKeeps
  <2> QED
    BY <1>2, <2>1, <2>2 DEF Active
<1>5. ASSUME NEW t \in Thread, NEW b \in Block,
             \/ AcceptDuplicate(t, b) \/ ReconsiderCheckpoint(t, b)
             \/ ReconsiderBlock(t, b) \/ InvalidateBlock(t, b)
      PROVE  ConnectedSound'
  <2>1. UNCHANGED <<index, tip, verdict>>
    BY <1>5 DEF AcceptDuplicate, ReconsiderCheckpoint, ReconsiderBlock, InvalidateBlock,
       chain, env
  <2> QED
    BY <1>2, <2>1 DEF Connected, Active, index
<1>6. ASSUME NEW t \in Thread, ConnectTip(t) PROVE ConnectedSound'
  <2>1. PICK n \in NextToConnect(t) :
          "ok" \in verdict[n] /\ level' = Raised(n, SCRIPTS) /\ tip' = n
    BY <1>6 DEF ConnectTip
  <2>2. n \in linked /\ n \in Block /\ n \notin Failed /\ Anc[n] = Active \union {n}
    BY <1>6, <2>1, NextIsClean DEF ConnectTip
  <2>3. Connected' = Connected \union {n}
    BY <2>1, <2>2, RaisedKeeps
  <2>4. UNCHANGED <<linked, verdict>>
    BY <1>6 DEF ConnectTip, env
  <2> QED
    BY <1>1, <2>1, <2>2, <2>3, <2>4 DEF ConnectedSound, Active
<1>7. ASSUME NEW t \in Thread, DisconnectTip(t) \/ InvalidateTip(t) PROVE ConnectedSound'
  <2>1. UNCHANGED <<index, verdict>> /\ tip' \in {tip, Parent[tip]}
    BY <1>7 DEF DisconnectTip, InvalidateTip, env
  <2>2. tip # Genesis
    <3>1. CASE DisconnectTip(t)
      <4>1. target[t] \in Block /\ tip \notin Anc[target[t]]
        BY <3>1, InStep DEF DisconnectTip
      <4> QED
        BY <4>1, AncRoot
    <3>2. CASE InvalidateTip(t)
      BY <3>2, InvalidatedTip
    <3> QED
      BY <1>7, <3>1, <3>2
  <2>3. Active' \subseteq Active
    BY <1>1, <2>1, <2>2, Family DEF Active
  <2> QED
    BY <1>2, <2>1, <2>3 DEF Connected, index
<1>8. ASSUME NEW t \in Thread,
             \/ DiscardCandidate(t) \/ NothingToDo(t) \/ ChooseTarget(t) \/ ConnectTipInvalid(t)
             \/ ConnectTipCorrupt(t) \/ StepError(t) \/ LoopTest(t) \/ InvalidateEnd(t)
      PROVE  ConnectedSound'
  <2>1. UNCHANGED <<index, tip, verdict>>
    BY <1>8 DEF DiscardCandidate, NothingToDo, ChooseTarget, ConnectTipInvalid,
       ConnectTipCorrupt, StepError, LoopTest, InvalidateEnd, chain, env
  <2> QED
    BY <1>2, <2>1 DEF Connected, Active, index
<1> QED
  BY <1>3, <1>4, <1>5, <1>6, <1>7, <1>8 DEF Next, Step

-----------------------------------------------------------------------------
(* Why a block is marked                                                    *)

(* An operator's block stays marked while it is taken off the chain: nobody *)
(* else has cs_main.                                                        *)
LEMMA InvalidatingKept ==
  ASSUME IInv, InvalidatingMarked, Next
  PROVE  InvalidatingMarked'
<1>1. rpcs \in Nat
  BY DEF IInv, TypeOK
<1>2. ASSUME lock = Nobody, NEW t \in Thread,
             \A u \in Thread \ {t} : pc'[u] = pc[u], pc'[t] # "invalidate"
      PROVE  InvalidatingMarked'
  BY <1>2, FreeLock DEF InvalidatingMarked
<1>3. ASSUME NEW t \in Thread, NEW b \in Block,
             \/ AcceptBlock(t, b) \/ AcceptHeaderOnly(t, b) \/ AcceptDuplicate(t, b)
             \/ ReconsiderCheckpoint(t, b) \/ ReconsiderBlock(t, b)
      PROVE  InvalidatingMarked'
  <2>1. lock = Nobody /\ pc[t] = "idle" /\ pc' \in {pc, [pc EXCEPT ![t] = "activate"]}
    BY <1>3 DEF AcceptBlock, AcceptHeaderOnly, AcceptDuplicate, ReconsiderCheckpoint,
       ReconsiderBlock, Goto
  <2>2. pc \in [Thread -> Labels]
    BY DEF IInv, TypeOK
  <2> QED
    BY <1>2, <2>1, <2>2
<1>4. ASSUME NEW t \in Thread, NEW b \in Invalidatable, InvalidateBlock(t, b)
      PROVE  InvalidatingMarked'
  <2>1. /\ lock = Nobody /\ pc' = [pc EXCEPT ![t] = "invalidate"]
        /\ target' = [target EXCEPT ![t] = b]
        /\ b \in failedValid' /\ rpcs' > 0
        /\ pc \in [Thread -> Labels] /\ target \in [Thread -> Block]
    BY <1>1, <1>4 DEF InvalidateBlock, Goto, IInv, TypeOK
  <2> QED
    BY <2>1, FreeLock DEF InvalidatingMarked
<1>5. ASSUME NEW t \in Thread, Step(t) PROVE InvalidatingMarked'
  <2>1. failedValid \subseteq failedValid' /\ rpcs' = rpcs
    BY <1>5 DEF Step, DiscardCandidate, NothingToDo, ChooseTarget, DisconnectTip, ConnectTip,
       ConnectTipInvalid, ConnectTipCorrupt, StepError, LoopTest, InvalidateTip,
       InvalidateEnd, failed, env
  <2>2. \A u \in Thread : pc'[u] = "invalidate" => pc[u] = "invalidate"
    BY <1>5 DEF Step, DiscardCandidate, NothingToDo, ChooseTarget, DisconnectTip, ConnectTip,
       ConnectTipInvalid, ConnectTipCorrupt, StepError, LoopTest, InvalidateTip,
       InvalidateEnd, Goto, Return, IInv, TypeOK, Labels
  <2>3. \A u \in Thread : pc'[u] = "invalidate" => target'[u] = target[u]
    <3>1. CASE ChooseTarget(t)
      BY <3>1 DEF ChooseTarget, Goto, IInv, TypeOK, Labels
    <3>2. CASE ~ ChooseTarget(t)
      BY <1>5, <3>2 DEF Step, DiscardCandidate, NothingToDo, DisconnectTip, ConnectTip,
         ConnectTipInvalid, ConnectTipCorrupt, StepError, LoopTest, InvalidateTip,
         InvalidateEnd, local
    <3> QED
      BY <3>1, <3>2
  <2> QED
    BY <2>1, <2>2, <2>3 DEF InvalidatingMarked
<1> QED
  BY <1>3, <1>4, <1>5 DEF Next

(* As long as the operator has not called, no mark meets the active chain.  *)
LEMMA UntouchedKept ==
  ASSUME IInv, InvalidatingMarked, UntouchedClean, Next
  PROVE  UntouchedClean'
<1> SUFFICES ASSUME rpcs' = 0 PROVE Active' \cap Failed' = {}
  BY DEF UntouchedClean
<1>1. rpcs \in Nat /\ tip \in Block /\ Active \subseteq haveData
  BY ActiveHasData DEF IInv, TypeOK
<1>2. rpcs = 0 => Active \cap Failed = {}
  BY DEF UntouchedClean
<1>3. ASSUME NEW t \in Thread, NEW b \in Block,
             \/ AcceptBlock(t, b) \/ AcceptHeaderOnly(t, b) \/ AcceptDuplicate(t, b)
             \/ ReconsiderCheckpoint(t, b)
      PROVE  Active' \cap Failed' = {}
  <2>1. tip' = tip /\ rpcs' = rpcs
    BY <1>3 DEF AcceptBlock, AcceptHeaderOnly, AcceptDuplicate, ReconsiderCheckpoint, chain, env
  <2>2. Failed' \subseteq Failed \/ (Failed' \subseteq Failed \union {b} /\ b \notin haveData)
    BY <1>3 DEF AcceptBlock, AcceptHeaderOnly, AcceptDuplicate, ReconsiderCheckpoint,
       Reconsidered, failed, Failed
  <2> QED
    BY <1>1, <1>2, <2>1, <2>2 DEF Active
<1>4. ASSUME NEW t \in Thread, NEW b \in Block, ReconsiderBlock(t, b) \/ InvalidateBlock(t, b)
      PROVE  FALSE
  BY <1>1, <1>4 DEF ReconsiderBlock, InvalidateBlock
<1>5. ASSUME NEW t \in Thread, Step(t) PROVE rpcs = 0 /\ pc[t] # "invalidate"
  BY <1>5 DEF Step, DiscardCandidate, NothingToDo, ChooseTarget, DisconnectTip, ConnectTip,
     ConnectTipInvalid, ConnectTipCorrupt, StepError, LoopTest, InvalidateTip,
     InvalidateEnd, env, InvalidatingMarked
<1>6. ASSUME NEW t \in Thread, DiscardCandidate(t) PROVE Active' \cap Failed' = {}
  <2>1. PICK test \in Failed : \E c \in candidates :
          /\ failedChild' = failedChild \union (Anc[c] \ Anc[test])
          /\ \A x \in Anc[c] \ Anc[test] : x \notin Active
    BY <1>6, Discarded
  <2>2. UNCHANGED <<tip, failedValid>>
    BY <1>6 DEF DiscardCandidate
  <2> QED
    BY <1>2, <1>5, <1>6, <2>1, <2>2 DEF Step, Active, Failed
<1>7. ASSUME NEW t \in Thread, ConnectTip(t) PROVE Active' \cap Failed' = {}
  <2>1. PICK n \in NextToConnect(t) : tip' = n
    BY <1>7 DEF ConnectTip
  <2>2. n \notin Failed /\ Anc[n] = Active \union {n}
    BY <1>7, <2>1, NextIsClean DEF ConnectTip
  <2>3. Failed' = Failed
    BY <1>7 DEF ConnectTip, failed, Failed
  <2> QED
    BY <1>2, <1>5, <1>7, <2>1, <2>2, <2>3 DEF Step, Active
<1>8. ASSUME NEW t \in Thread, ConnectTipInvalid(t) PROVE Active' \cap Failed' = {}
  <2>1. PICK n \in NextToConnect(t) : failedValid' = failedValid \union {n}
    BY <1>8 DEF ConnectTipInvalid
  <2>2. n \notin Active
    BY <1>8, <2>1, NextIsClean DEF ConnectTipInvalid
  <2>3. UNCHANGED <<tip, failedChild>>
    BY <1>8 DEF ConnectTipInvalid
  <2> QED
    BY <1>2, <1>5, <1>8, <2>1, <2>2, <2>3 DEF Step, Active, Failed
<1>9. ASSUME NEW t \in Thread, DisconnectTip(t) PROVE Active' \cap Failed' = {}
  <2>1. tip # Genesis
    <3>1. target[t] \in Block /\ tip \notin Anc[target[t]]
      BY <1>9, InStep DEF DisconnectTip
    <3> QED
      BY <3>1, AncRoot
  <2>2. Active' \subseteq Active /\ Failed' = Failed
    BY <1>9, <2>1, TipDown DEF DisconnectTip, Active, failed, Failed
  <2> QED
    BY <1>2, <1>5, <1>9, <2>2 DEF Step
<1>10. ASSUME NEW t \in Thread,
              \/ NothingToDo(t) \/ ChooseTarget(t) \/ ConnectTipCorrupt(t)
              \/ StepError(t) \/ LoopTest(t)
       PROVE  Active' \cap Failed' = {}
  <2>1. UNCHANGED <<tip, failedValid, failedChild>>
    BY <1>10 DEF NothingToDo, ChooseTarget, ConnectTipCorrupt, StepError, LoopTest,
       chain, failed
  <2> QED
    BY <1>2, <1>5, <1>10, <2>1 DEF Step, Active, Failed
<1>11. ASSUME NEW t \in Thread, InvalidateTip(t) \/ InvalidateEnd(t) PROVE FALSE
  BY <1>5, <1>11 DEF Step, InvalidateTip, InvalidateEnd
<1> QED
  BY <1>3, <1>4, <1>6, <1>7, <1>8, <1>9, <1>10, <1>11 DEF Next, Step

LEMMA MarksKept == IInv /\ MarksInv /\ [Next]_vars => MarksInv'
<1> SUFFICES ASSUME IInv, MarksInv, [Next]_vars PROVE MarksInv'
  OBVIOUS
<1>1. CASE Next
  BY <1>1, StatusKept, ConnectedKept, InvalidatingKept, UntouchedKept DEF MarksInv
<1>2. CASE UNCHANGED vars
  BY <1>2 DEF MarksInv, StatusSound, ConnectedSound, InvalidatingMarked, UntouchedClean,
     vars, index, failed, chain, local, env, Failed, Connected, Active
<1> QED
  BY <1>1, <1>2

THEOREM MarksInvariance == Spec => [](IInv /\ MarksInv)
  BY InitMarks, MarksKept, Invariance, PTL DEF Spec

(* A block is SCRIPTS valid only on top of SCRIPTS valid blocks, whatever   *)
(* is received, reorganised, invalidated and reconsidered.                  *)
THEOREM ScriptsStayClosed == Spec => []ScriptsClosed
<1>1. MarksInv => ScriptsClosed
  BY DEF MarksInv, ConnectedSound, Connected, ScriptsClosed
<1> QED
  BY <1>1, MarksInvariance, PTL

-----------------------------------------------------------------------------
(* ReconsiderBlock clears the marks of a block, its descendants and its     *)
(* ancestors, but only the first two come back to the candidates, and what  *)
(* else hangs from an ancestor keeps its mark.  So two properties hold as   *)
(* long as what is reconsidered has no marked block above it.               *)
TopReconsidered ==
    \A t \in Thread :
        /\ \A b \in Reconsiderable :
              ReconsiderBlock(t, b) => Anc[b] \cap Failed \subseteq {b}
        /\ \A b \in Block \ {Genesis} :
              ReconsiderCheckpoint(t, b) => Anc[Parent[b]] \cap Failed \subseteq {Parent[b]}

(* Then a block that stays marked keeps the cause of its mark.              *)
LEMMA ReconsideredCause ==
  ASSUME IInv, StatusSound, FailedHasCause, NEW b \in Block, Reconsidered(b),
         Anc[b] \cap Failed \subseteq {b}
  PROVE  FailedHasCause'
<1> DEFINE invalid == {x \in known : b \in Anc[x] /\ (x \in Failed \/ level[x] < TRANSACTIONS)}
           cleared == invalid \union Anc[b]
<1>1. failedValid' = failedValid \ cleared /\ failedChild' = failedChild \ cleared
  BY DEF Reconsidered
<1>2. SUFFICES ASSUME NEW x \in Failed \ cleared PROVE Anc[x] \cap failedValid' # {}
  BY <1>1 DEF FailedHasCause, Failed
<1>3. PICK a \in Anc[x] : a \in failedValid
  BY DEF FailedHasCause
<1>4. x \in Block /\ x \in known /\ b \notin Anc[x]
  BY DEF StatusSound, IInv, TypeOK, Failed
<1>5. a \in Failed /\ Anc[a] \subseteq Anc[x]
  BY <1>3, <1>4, AncTransitive DEF Failed
<1>6. a \notin cleared
  BY <1>3, <1>4, <1>5
<1> QED
  BY <1>1, <1>3, <1>6

LEMMA CausesKept ==
  ASSUME IInv, MarksInv, FailedHasCause, Next, TopReconsidered
  PROVE  FailedHasCause'
<1>1. /\ Failed \subseteq Block /\ Genesis \notin Failed
      /\ \A x \in Failed : Anc[x] \cap failedValid # {}
  BY DEF MarksInv, StatusSound, FailedHasCause, Failed, IInv, TypeOK
<1>2. ASSUME failedValid \subseteq failedValid',
             \A x \in Failed' \ Failed : Anc[x] \cap failedValid' # {}
      PROVE  FailedHasCause'
  BY <1>1, <1>2 DEF FailedHasCause
<1>3. ASSUME NEW t \in Thread, NEW b \in Block,
             \/ AcceptBlock(t, b) \/ AcceptHeaderOnly(t, b) \/ AcceptDuplicate(t, b)
             \/ InvalidateBlock(t, b)
      PROVE  FailedHasCause'
  <2>1. /\ failedValid \subseteq failedValid' /\ failedChild' = failedChild
        /\ failedValid' \subseteq failedValid \union {b}
    BY <1>3 DEF AcceptBlock, AcceptHeaderOnly, AcceptDuplicate, InvalidateBlock, failed
  <2>2. b \in Anc[b]
    BY AncSelf
  <2> QED
    BY <1>2, <2>1, <2>2 DEF Failed
<1>4. ASSUME NEW t \in Thread, NEW b \in Block, ReconsiderCheckpoint(t, b)
      PROVE  FailedHasCause'
  <2>1. b # Genesis /\ Reconsidered(Parent[b])
    BY <1>4 DEF ReconsiderCheckpoint, Deliverable
  <2>2. Parent[b] \in Block /\ Anc[Parent[b]] \cap Failed \subseteq {Parent[b]}
    BY <1>4, <2>1 DEF TopReconsidered
  <2> QED
    BY <2>1, <2>2, ReconsideredCause DEF MarksInv
<1>5. ASSUME NEW t \in Thread, NEW b \in Reconsiderable, ReconsiderBlock(t, b)
      PROVE  FailedHasCause'
  <2>1. Reconsidered(b) /\ b \in Block
    BY <1>5 DEF ReconsiderBlock
  <2>2. Anc[b] \cap Failed \subseteq {b}
    BY <1>5 DEF TopReconsidered
  <2> QED
    BY <2>1, <2>2, ReconsideredCause DEF MarksInv
<1>6. ASSUME NEW t \in Thread, DiscardCandidate(t) PROVE FailedHasCause'
  <2>1. PICK test \in Failed : \E c \in candidates :
          /\ failedChild' = failedChild \union (Anc[c] \ Anc[test])
          /\ c \in Block /\ \A x \in Anc[c] \ Anc[test] : test \in Anc[x]
    BY <1>6, Discarded
  <2>2. failedValid' = failedValid
    BY <1>6 DEF DiscardCandidate
  <2>3. ASSUME NEW x \in Failed' \ Failed PROVE Anc[x] \cap failedValid # {}
    <3>1. x \in Block /\ test \in Anc[x]
      BY <2>1, <2>2, <2>3, AncSelf DEF Failed
    <3>2. Anc[test] \subseteq Anc[x]
      BY <3>1, AncTransitive
    <3> QED
      BY <1>1, <3>2
  <2> QED
    BY <1>2, <2>2, <2>3
<1>7. ASSUME NEW t \in Thread, ConnectTipInvalid(t) PROVE FailedHasCause'
  <2>1. PICK n \in NextToConnect(t) : failedValid' = failedValid \union {n}
    BY <1>7 DEF ConnectTipInvalid
  <2>2. n \in Anc[n]
    BY <1>7, <2>1, NextIsClean, AncSelf DEF ConnectTipInvalid
  <2>3. failedChild' = failedChild
    BY <1>7 DEF ConnectTipInvalid
  <2> QED
    BY <1>2, <2>1, <2>2, <2>3 DEF Failed
<1>8. ASSUME NEW t \in Thread, InvalidateTip(t) PROVE FailedHasCause'
  <2>1. /\ failedChild' = failedChild \union {tip} /\ failedValid' = failedValid
        /\ target[t] \in Anc[tip] /\ target[t] \in failedValid
    BY <1>8 DEF InvalidateTip, Active, MarksInv, InvalidatingMarked
  <2> QED
    BY <1>2, <2>1 DEF Failed
<1>9. ASSUME NEW t \in Thread,
             \/ NothingToDo(t) \/ ChooseTarget(t) \/ DisconnectTip(t) \/ ConnectTip(t)
             \/ ConnectTipCorrupt(t) \/ StepError(t) \/ LoopTest(t) \/ InvalidateEnd(t)
      PROVE  FailedHasCause'
  <2>1. UNCHANGED <<failedValid, failedChild>>
    BY <1>9 DEF NothingToDo, ChooseTarget, DisconnectTip, ConnectTip, ConnectTipCorrupt,
       StepError, LoopTest, InvalidateEnd, failed
  <2> QED
    BY <1>2, <2>1 DEF Failed
<1> QED
  BY <1>3, <1>4, <1>5, <1>6, <1>7, <1>8, <1>9 DEF Next, Step

(* "The failed mask cannot be set for blocks without invalid parents", and  *)
(* no block is SCRIPTS valid above one that is not, in any history that     *)
(* reconsiders no block below a marked one.                                 *)
THEOREM MarksAreSound == Spec /\ [][TopReconsidered]_vars => []MarksSound
<1>1. Init => FailedHasCause
  BY DEF Init, FailedHasCause, Failed
<1>2. FailedHasCause /\ IInv /\ MarksInv /\ [Next]_vars /\ [TopReconsidered]_vars => FailedHasCause'
  <2>1. CASE UNCHANGED vars
    BY <2>1 DEF FailedHasCause, Failed, vars, failed
  <2>2. CASE ~ UNCHANGED vars
    BY <2>2, CausesKept
  <2> QED
    BY <2>1, <2>2
<1>3. MarksInv /\ FailedHasCause => MarksSound
  BY DEF MarksInv, ConnectedSound, Connected, ScriptsClosed, MarksSound
<1> QED
  BY <1>1, <1>2, <1>3, MarksInvariance, PTL DEF Spec

-----------------------------------------------------------------------------
(* The best chain stays within reach                                        *)

(* Being no worse is transitive.                                            *)
LEMMA NotWorseTransitive ==
  ASSUME seqId \in [Block -> Nat], NEW a \in Block, NEW b \in Block, NEW c \in Block
  PROVE  /\ ~ Worse(a, b) /\ ~ Worse(b, c) => ~ Worse(a, c)
         /\ Worse(a, b) /\ Worse(b, c) => Worse(a, c)
<1>1. /\ ChainWork[a] \in Nat /\ ChainWork[b] \in Nat /\ ChainWork[c] \in Nat
      /\ seqId[a] \in Nat /\ seqId[b] \in Nat /\ seqId[c] \in Nat
  OBVIOUS
<1> QED
  BY <1>1 DEF Worse

(* Marks that meet the active chain are on their way out of it.             *)
Quiet ==
    /\ rpcs = 0 \/ ~ SystemErrors
    /\ \A t \in Thread : pc[t] # "invalidate"

LEMMA CleanWhenQuiet == IInv /\ MarksInv /\ Quiet => Active \cap Failed = {}
  BY DEF IInv, FailuresLeave, MarksInv, UntouchedClean, Quiet

(* Only the end of an invalidation makes a node quiet that was not.         *)
LEMMA QuietBefore ==
  ASSUME IInv, MarksInv, Next, Quiet'
  PROVE  /\ Quiet \/ \E t \in Thread : InvalidateEnd(t)
         /\ ~ \E t \in Thread : InvalidateTip(t) \/ \E b \in Invalidatable : InvalidateBlock(t, b)
<1>1. rpcs \in Nat /\ pc \in [Thread -> Labels]
  BY DEF IInv, TypeOK
<1>2. ASSUME NEW t \in Thread, InvalidateTip(t) PROVE FALSE
  <2>1. pc[t] = "invalidate" /\ rpcs' = rpcs /\ rpcs > 0
    BY <1>2 DEF InvalidateTip, env, MarksInv, InvalidatingMarked
  <2>2. pc' = pc \/ SystemErrors
    BY <1>2 DEF InvalidateTip
  <2> QED
    BY <1>1, <2>1, <2>2 DEF Quiet
<1>3. ASSUME NEW t \in Thread, NEW b \in Invalidatable, InvalidateBlock(t, b) PROVE FALSE
  BY <1>1, <1>3 DEF InvalidateBlock, Goto, Quiet
<1>4. ASSUME NEW t \in Thread, NEW b \in Block,
             \/ AcceptBlock(t, b) \/ AcceptHeaderOnly(t, b) \/ AcceptDuplicate(t, b)
             \/ ReconsiderCheckpoint(t, b) \/ ReconsiderBlock(t, b)
      PROVE  Quiet
  <2>1. /\ pc[t] = "idle" /\ pc' \in {pc, [pc EXCEPT ![t] = "activate"]}
        /\ rpcs' = rpcs \/ rpcs' = rpcs + 1
    BY <1>4 DEF AcceptBlock, AcceptHeaderOnly, AcceptDuplicate, ReconsiderCheckpoint,
       ReconsiderBlock, Goto, env
  <2> QED
    BY <1>1, <2>1 DEF Quiet
<1>5. ASSUME NEW t \in Thread, Step(t), ~ InvalidateEnd(t), ~ InvalidateTip(t)
      PROVE  Quiet
  <2>1. /\ pc[t] # "invalidate" /\ \A u \in Thread \ {t} : pc'[u] = pc[u]
        /\ rpcs' = rpcs
    BY <1>1, <1>5 DEF Step, DiscardCandidate, NothingToDo, ChooseTarget, DisconnectTip,
       ConnectTip, ConnectTipInvalid, ConnectTipCorrupt, StepError, LoopTest, Goto,
       Return, env
  <2> QED
    BY <2>1 DEF Quiet
<1> QED
  BY <1>2, <1>3, <1>4, <1>5 DEF Next

(* r covers still what the candidates miss if the order of what was linked  *)
(* is what it was, no mark reaches r, and all that is new to the blocks     *)
(* outside the candidates sorts no higher than the tip.                     *)
LEMMA CoversKept ==
  ASSUME IInv, NEW r \in candidates, Covers(r),
         linked \subseteq linked', linked' \subseteq Block,
         \A x \in linked : seqId'[x] = seqId[x], seqId' \in [Block -> Nat],
         r \in candidates', Anc[r] \cap Failed' = {}, Connected \subseteq Connected',
         \A x \in linked' \ (Failed' \union candidates') :
            (x \in linked \ (Failed \union candidates)) \/ ~ Worse(tip, x)'
              \/ (x \in linked /\ ~ Worse(r, x)),
         tip' = tip
  PROVE  Covers(r)'
<1>1. /\ r \in linked /\ r \in Connected /\ ~ Worse(r, tip) /\ r \in Block
      /\ tip \in linked /\ tip \in Block
      /\ \A x \in linked \ (Failed \union candidates) : ~ Worse(r, x)
  BY DEF Covers, Eligible, IInv, TypeOK, CandidatesSound, ActiveLinked
<1>2. \A x \in linked : ~ Worse(r, x) => ~ Worse(r, x)'
  BY <1>1 DEF Worse
<1>3. ASSUME NEW x \in linked' \ (Failed' \union candidates') PROVE ~ Worse(r, x)'
  <2>1. CASE x \in linked /\ ~ Worse(r, x)
    BY <1>2, <2>1
  <2>2. CASE ~ Worse(tip, x)'
    <3>1. ~ Worse(r, tip)' /\ x \in Block
      BY <1>1, <1>2 DEF Worse
    <3>2. /\ ChainWork[r] \in Nat /\ ChainWork[tip] \in Nat /\ ChainWork[x] \in Nat
          /\ seqId'[r] \in Nat /\ seqId'[tip] \in Nat /\ seqId'[x] \in Nat
      BY <1>1, <3>1
    <3> QED
      BY <2>2, <3>1, <3>2 DEF Worse
  <2> QED
    BY <1>1, <2>1, <2>2
<1> QED
  BY <1>1, <1>3 DEF Covers, Eligible


(* Deliveries, headers and repetitions.                                     *)
LEMMA CoveredOnDelivery ==
  ASSUME IInv, MarksInv, BestCovered, Quiet, NEW t \in Thread, NEW b \in Block,
         AcceptBlock(t, b) \/ AcceptHeaderOnly(t, b)
  PROVE  \E r \in candidates' : Covers(r)'
<1>1. PICK r \in candidates : Covers(r)
  BY DEF BestCovered, Quiet
<1>2. /\ r \in linked /\ r \in Block /\ Anc[r] \subseteq linked /\ Anc[r] \cap Failed = {}
      /\ linked \subseteq Block /\ linked \subseteq haveData
      /\ Connected \subseteq haveData /\ seqId \in [Block -> Nat] /\ tip \in linked
  <2>1. r \in linked /\ Anc[r] \cap Failed = {}
    BY <1>1 DEF Covers, Eligible
  <2> QED
    BY <2>1, LinkedClosed, ActiveHasData
    DEF IInv, TypeOK, ActiveLinked, MarksInv, ConnectedSound
<1>3. CASE AcceptBlock(t, b)
  <2> DEFINE new == NewlyLinked(b)
  <2>1. /\ b \in Block \ {Genesis} /\ b \notin haveData
        /\ linked' = linked \union new /\ Failed' = Failed /\ tip' = tip
        /\ level' = [level EXCEPT ![b] = TRANSACTIONS]
        /\ candidates' = candidates \union
             {x \in new : ~ \/ ChainWork[x] < ChainWork[tip]
                            \/ ChainWork[x] = ChainWork[tip] /\ seqId'[x] > seqId[tip]}
    BY <1>3 DEF AcceptBlock, ReceivedBlockTransactions, Deliverable, failed, Failed
  <2>2. new \subseteq Block \ linked
    BY <2>1, LinkedByDelivery
  <2>3. PICK f \in Numberings(new) :
           seqId' = [x \in Block |-> IF x \in new THEN f[x] ELSE seqId[x]]
    BY <1>3 DEF AcceptBlock, ReceivedBlockTransactions
  <2>4. seqId' \in [Block -> Nat]
    BY <1>3, AcceptBlockInv DEF IInv, TypeOK
  <2> HIDE DEF new
  <2>5. \A x \in linked : seqId'[x] = seqId[x]
    BY <1>2, <2>2, <2>3
  <2>6. Connected \subseteq Connected'
    BY <1>2, <2>1 DEF Connected, IInv, TypeOK, TRANSACTIONS, SCRIPTS
  <2>7. \A x \in new \ candidates' : ~ Worse(tip, x)'
    <3>1. SUFFICES ASSUME NEW x \in new \ candidates' PROVE ~ Worse(tip, x)'
      OBVIOUS
    <3>2. /\ ChainWork[x] \in Nat /\ ChainWork[tip] \in Nat
          /\ seqId'[x] \in Nat /\ seqId'[tip] \in Nat /\ seqId'[tip] = seqId[tip]
      BY <1>2, <2>2, <2>4, <2>5
    <3> QED
      BY <2>1, <3>2 DEF Worse
  <2>8. Covers(r)'
    BY <1>1, <1>2, <2>1, <2>2, <2>4, <2>5, <2>6, <2>7, CoversKept
  <2> QED
    BY <2>1, <2>8
<1>4. CASE AcceptHeaderOnly(t, b)
  <2>1. /\ b \notin haveData /\ UNCHANGED <<linked, seqId, candidates, tip>>
        /\ Failed' \subseteq Failed \union {b} /\ level' = Raised(b, TREE)
        /\ Failed \subseteq Failed'
    BY <1>4 DEF AcceptHeaderOnly, chain, Failed
  <2>2. Connected' = Connected
    BY <2>1, RaisedKeeps
  <2>3. Covers(r)'
    BY <1>1, <1>2, <2>1, <2>2, CoversKept
  <2> QED
    BY <2>1, <2>3
<1> QED
  BY <1>3, <1>4

(* What ReconsiderBlock clears comes back to the candidates if it is better *)
(* than the tip, unless it is an ancestor.                                  *)
LEMMA CoveredOnReconsider ==
  ASSUME IInv, MarksInv, BestCovered, Quiet, NEW b \in Block, Reconsidered(b),
         UNCHANGED <<index, tip>>, Anc[b] \cap Failed \subseteq {b}
  PROVE  \E r \in candidates' : Covers(r)'
<1> DEFINE invalid == {x \in known : b \in Anc[x] /\ (x \in Failed \/ level[x] < TRANSACTIONS)}
           cleared == invalid \union Anc[b]
<1>1. PICK r \in candidates : Covers(r)
  BY DEF BestCovered, Quiet
<1>2. /\ r \in linked /\ r \in Block /\ Anc[r] \cap Failed = {}
      /\ linked \subseteq Block /\ linked \subseteq haveData /\ seqId \in [Block -> Nat]
      /\ Failed \subseteq known /\ \A x \in haveData : level[x] \in {TRANSACTIONS, SCRIPTS}
  <2>1. r \in linked /\ Anc[r] \cap Failed = {}
    BY <1>1 DEF Covers, Eligible
  <2> QED
    BY <2>1, ActiveHasData DEF IInv, TypeOK, MarksInv, StatusSound
<1>3. /\ failedValid' = failedValid \ cleared /\ failedChild' = failedChild \ cleared
      /\ candidates' = candidates \union
           {x \in invalid : level[x] >= TRANSACTIONS /\ x \in linked /\ Worse(tip, x)}
  BY DEF Reconsidered
<1>4. UNCHANGED <<linked, seqId, tip>> /\ Connected' = Connected
  BY DEF index, Connected
<1>5. ASSUME NEW x \in linked' \ (Failed' \union candidates')
      PROVE  (x \in linked \ (Failed \union candidates)) \/ ~ Worse(tip, x)'
  <2>1. CASE x \notin Failed
    BY <1>3, <1>4, <2>1
  <2>2. CASE x \in Failed
    <3>1. x \in cleared /\ x \in linked
      BY <1>3, <1>4, <2>2 DEF Failed
    <3>2. x \in invalid
      <4>1. CASE x \in invalid
        BY <4>1
      <4>2. CASE x \in Anc[b]
        BY <1>2, <2>2, <4>2, AncSelf
      <4> QED
        BY <3>1, <4>1, <4>2
    <3>3. level[x] >= TRANSACTIONS
      BY <1>2, <3>1 DEF TRANSACTIONS, SCRIPTS
    <3>4. ~ Worse(tip, x)
      BY <1>3, <3>1, <3>2, <3>3
    <3> QED
      BY <1>4, <3>4 DEF Worse
  <2> QED
    BY <2>1, <2>2
<1>6. Covers(r)'
  <2>1. Failed' \subseteq Failed /\ r \in candidates'
    BY <1>3 DEF Failed
  <2> QED
    BY <1>1, <1>2, <1>4, <1>5, <2>1, CoversKept
<1> QED
  BY <1>3, <1>6

(* What FindMostWorkChain takes out of the candidates is marked.            *)
LEMMA CoveredOnDiscard ==
  ASSUME IInv, MarksInv, BestCovered, Quiet, NEW t \in Thread, DiscardCandidate(t)
  PROVE  \E r \in candidates' : Covers(r)'
<1>1. PICK r \in candidates : Covers(r)
  BY DEF BestCovered, Quiet
<1>2. /\ r \in linked /\ r \in Block /\ r \in Anc[r] /\ Anc[r] \cap Failed = {}
      /\ linked \subseteq Block /\ seqId \in [Block -> Nat]
  <2>1. r \in linked /\ Anc[r] \cap Failed = {}
    BY <1>1 DEF Covers, Eligible
  <2> QED
    BY <2>1, AncSelf DEF IInv, TypeOK
<1>3. PICK test \in Failed : \E c \in candidates :
        /\ c \in Block /\ test \in Anc[c] /\ test \in Block
        /\ failedChild' = failedChild \union (Anc[c] \ Anc[test])
        /\ candidates' = candidates \ (Anc[c] \ (Anc[test] \ {test}))
        /\ \A x \in Anc[c] \ Anc[test] : test \in Anc[x]
  BY Discarded
<1>4. PICK c \in candidates :
        /\ c \in Block /\ test \in Anc[c] /\ test \in Block
        /\ failedChild' = failedChild \union (Anc[c] \ Anc[test])
        /\ candidates' = candidates \ (Anc[c] \ (Anc[test] \ {test}))
        /\ \A x \in Anc[c] \ Anc[test] : test \in Anc[x]
  BY <1>3
<1>5. /\ UNCHANGED <<linked, seqId, tip, failedValid>> /\ Connected' = Connected
  BY DEF DiscardCandidate, index, Connected
<1>6. r \in candidates'
  BY <1>2, <1>4
<1>7. Anc[r] \cap Failed' = {}
  <2>1. SUFFICES ASSUME NEW x \in Anc[r], x \in Anc[c] \ Anc[test] PROVE FALSE
    BY <1>2, <1>4, <1>5 DEF Failed
  <2>2. test \in Anc[r]
    BY <1>2, <1>4, <2>1, AncTransitive
  <2> QED
    BY <1>2, <2>2
<1>8. \A x \in linked' \ (Failed' \union candidates') : x \in linked \ (Failed \union candidates)
  BY <1>4, <1>5 DEF Failed
<1>9. Covers(r)'
  BY <1>1, <1>2, <1>5, <1>6, <1>7, <1>8, CoversKept
<1> QED
  BY <1>6, <1>9

(* A block that is connected takes over from those it prunes.               *)
LEMMA CoveredOnConnect ==
  ASSUME IInv, MarksInv, BestCovered, Quiet, NEW t \in Thread, ConnectTip(t)
  PROVE  \E r \in candidates' : Covers(r)'
<1>1. PICK r \in candidates : Covers(r)
  BY DEF BestCovered, Quiet
<1>2. /\ r \in linked /\ r \in Block /\ Anc[r] \cap Failed = {}
      /\ linked \subseteq Block /\ seqId \in [Block -> Nat] /\ candidates \subseteq Block
      /\ \A x \in linked \ (Failed \union candidates) : ~ Worse(r, x)
  BY <1>1 DEF Covers, Eligible, IInv, TypeOK
<1>3. PICK n \in NextToConnect(t) :
        "ok" \in verdict[n] /\ level' = Raised(n, SCRIPTS) /\ candidates' = Pruned(n)
  BY DEF ConnectTip
<1>4. n \in Block /\ n \in linked /\ n \notin Failed /\ Anc[n] = Active \union {n}
  BY <1>3, NextIsClean DEF ConnectTip
<1>5. Connected' = Connected \union {n}
  BY <1>3, <1>4, RaisedKeeps
<1>6. UNCHANGED <<linked, seqId, failedValid, failedChild>>
  BY DEF ConnectTip, failed
<1>7. \A x \in linked \ (Failed \union candidates') :
         ~ Worse(r, x) \/ (x \in candidates /\ Worse(x, n))
  BY <1>2, <1>3 DEF Pruned
<1>8. CASE ~ Worse(r, n)
  <2>1. \A x \in linked \ (Failed \union candidates') : ~ Worse(r, x)
    BY <1>2, <1>4, <1>7, <1>8, NotWorseTransitive
  <2>2. Covers(r)'
    BY <1>1, <1>3, <1>5, <1>6, <1>8, <2>1 DEF Covers, Eligible, Pruned, Failed, Worse
  <2>3. r \in candidates'
    BY <1>3, <1>8 DEF Pruned
  <2> QED
    BY <2>2, <2>3
<1>9. CASE Worse(r, n)
  <2>1. n \in candidates
    BY <1>2, <1>4, <1>9
  <2>2. n \in candidates'
    BY <1>2, <1>3, <1>4, <2>1, WorseIsStrict DEF Pruned
  <2>3. \A x \in linked \ (Failed \union candidates') : ~ Worse(n, x)
    <3>1. ASSUME NEW x \in linked, ~ Worse(r, x) PROVE ~ Worse(n, x)
      BY <1>2, <1>4, <1>9, <3>1, NotWorseTransitive
    <3>2. ASSUME NEW x \in linked, Worse(x, n) PROVE ~ Worse(n, x)
      BY <1>2, <1>4, <3>2, WorseIsStrict
    <3> QED
      BY <1>7, <3>1, <3>2
  <2>4. Anc[n] \cap Failed = {}
    BY <1>4, CleanWhenQuiet
  <2>5. Covers(n)'
    BY <1>4, <1>5, <1>6, <2>2, <2>3, <2>4 DEF Covers, Eligible, Failed, Worse
  <2> QED
    BY <2>2, <2>5
<1> QED
  BY <1>8, <1>9


(* No block is one that ConnectBlock may both accept and find invalid.      *)
VerdictsFixed == \A v \in Verdicts : \A b \in Block : ~ ({"ok", "invalid"} \subseteq v[b])

(* A block that turns out invalid was never connected, so it is not among   *)
(* the ancestors of one that was.                                           *)
LEMMA CoveredOnInvalid ==
  ASSUME IInv, MarksInv, BestCovered, Quiet, VerdictsFixed,
         NEW t \in Thread, ConnectTipInvalid(t)
  PROVE  \E r \in candidates' : Covers(r)'
<1>1. PICK r \in candidates : Covers(r)
  BY DEF BestCovered, Quiet
<1>2. /\ r \in linked /\ r \in Block /\ r \in Anc[r] /\ Anc[r] \cap Failed = {}
      /\ linked \subseteq Block /\ seqId \in [Block -> Nat]
      /\ Anc[r] \subseteq Connected
  <2>1. r \in linked /\ Anc[r] \cap Failed = {} /\ r \in Connected
    BY <1>1 DEF Covers, Eligible
  <2> QED
    BY <2>1, AncSelf DEF IInv, TypeOK, MarksInv, ConnectedSound
<1>3. PICK n \in NextToConnect(t) :
        /\ "invalid" \in verdict[n] /\ failedValid' = failedValid \union {n}
        /\ candidates' = candidates \ {n}
  BY DEF ConnectTipInvalid
<1>4. n \in Block \ {Genesis}
  BY <1>3, NextIsClean DEF ConnectTipInvalid, NextToConnect
<1>5. n \notin Connected
  <2>1. verdict \in Verdicts
    BY DEF IInv, TypeOK
  <2> QED
    BY <1>3, <1>4, <2>1 DEF VerdictsFixed, MarksInv, ConnectedSound
<1>6. UNCHANGED <<linked, seqId, tip, failedChild>> /\ Connected' = Connected
  BY DEF ConnectTipInvalid, index, Connected
<1>7. r \in candidates' /\ Anc[r] \cap Failed' = {}
  BY <1>2, <1>3, <1>5, <1>6 DEF Failed
<1>8. \A x \in linked' \ (Failed' \union candidates') : x \in linked \ (Failed \union candidates)
  BY <1>3, <1>6 DEF Failed
<1>9. Covers(r)'
  BY <1>1, <1>2, <1>6, <1>7, <1>8, CoversKept
<1> QED
  BY <1>7, <1>9

(* The tip that an invalidation leaves covers what it makes candidates of.  *)
LEMMA CoveredOnInvalidateEnd ==
  ASSUME IInv, MarksInv, Quiet', NEW t \in Thread, InvalidateEnd(t)
  PROVE  \E r \in candidates' : Covers(r)'
<1>1. /\ UNCHANGED <<index, tip, failedValid, failedChild, rpcs>>
      /\ candidates' = candidates \union
           {x \in (known \cap linked) \ Failed : level[x] >= TRANSACTIONS /\ ~ Worse(x, tip)}
      /\ pc[t] = "invalidate"
  BY DEF InvalidateEnd, env
<1>2. ~ SystemErrors
  BY <1>1 DEF Quiet, MarksInv, InvalidatingMarked, IInv, TypeOK
<1>3. Active \cap Failed = {}
  <2>1. IInv'
    BY InvalidateEndInv
  <2>2. \A u \in Thread : pc'[u] # "invalidate"
    BY DEF Quiet
  <2>3. Active' \cap Failed' = {}
    BY <1>2, <2>1, <2>2 DEF IInv, FailuresLeave
  <2> QED
    BY <1>1, <2>3 DEF Active, Failed
<1>4. /\ tip \in linked /\ tip \in Block /\ tip \in Active /\ tip \in Connected
      /\ linked \subseteq Block /\ linked \subseteq known
      /\ \A x \in linked : level[x] >= TRANSACTIONS
      /\ seqId \in [Block -> Nat]
  <2>1. tip \in Active
    BY AncSelf DEF Active, IInv, TypeOK
  <2>2. linked \subseteq haveData
    BY ActiveHasData
  <2> QED
    BY <2>1, <2>2 DEF IInv, TypeOK, ActiveLinked, MarksInv, ConnectedSound, StatusSound,
       TRANSACTIONS, SCRIPTS
<1>5. ~ Worse(tip, tip)
  BY <1>4, WorseIsStrict
<1>6. tip \in candidates'
  BY <1>1, <1>3, <1>4, <1>5
<1>7. \A x \in linked \ (Failed \union candidates') : ~ Worse(tip, x)
  BY <1>1, <1>4, WorseIsStrict
<1>8. Covers(tip)'
  BY <1>1, <1>3, <1>4, <1>6, <1>7
  DEF Covers, Eligible, Active, Failed, Connected, Worse, index
<1> QED
  BY <1>1, <1>6, <1>8

LEMMA CoveredKept ==
  ASSUME IInv, MarksInv, BestCovered, VerdictsFixed, Next, TopReconsidered
  PROVE  BestCovered'
<1> SUFFICES ASSUME Quiet' PROVE \E r \in candidates' : Covers(r)'
  BY DEF BestCovered, Quiet
<1>1. CASE \E t \in Thread : InvalidateEnd(t)
  BY <1>1, CoveredOnInvalidateEnd
<1>2. CASE ~ \E t \in Thread : InvalidateEnd(t)
  <2>1. Quiet
    BY <1>2, QuietBefore
  <2>2. ASSUME NEW t \in Thread, NEW b \in Block, AcceptBlock(t, b) \/ AcceptHeaderOnly(t, b)
        PROVE  \E r \in candidates' : Covers(r)'
    BY <2>1, <2>2, CoveredOnDelivery
  <2>3. ASSUME NEW t \in Thread, NEW b \in Block, ReconsiderCheckpoint(t, b)
        PROVE  \E r \in candidates' : Covers(r)'
    <3>1. b # Genesis /\ Reconsidered(Parent[b]) /\ UNCHANGED <<index, tip>>
      BY <2>3 DEF ReconsiderCheckpoint, Deliverable
    <3>2. Parent[b] \in Block /\ Anc[Parent[b]] \cap Failed \subseteq {Parent[b]}
      BY <2>3, <3>1 DEF TopReconsidered
    <3> QED
      BY <2>1, <3>1, <3>2, CoveredOnReconsider
  <2>4. ASSUME NEW t \in Thread, NEW b \in Reconsiderable, ReconsiderBlock(t, b)
        PROVE  \E r \in candidates' : Covers(r)'
    <3>1. Reconsidered(b) /\ b \in Block /\ UNCHANGED <<index, tip>>
      BY <2>4 DEF ReconsiderBlock
    <3>2. Anc[b] \cap Failed \subseteq {b}
      BY <2>4 DEF TopReconsidered
    <3> QED
      BY <2>1, <3>1, <3>2, CoveredOnReconsider
  <2>5. ASSUME NEW t \in Thread, DiscardCandidate(t) PROVE \E r \in candidates' : Covers(r)'
    BY <2>1, <2>5, CoveredOnDiscard
  <2>6. ASSUME NEW t \in Thread, ConnectTip(t) PROVE \E r \in candidates' : Covers(r)'
    BY <2>1, <2>6, CoveredOnConnect
  <2>7. ASSUME NEW t \in Thread, ConnectTipInvalid(t) PROVE \E r \in candidates' : Covers(r)'
    BY <2>1, <2>7, CoveredOnInvalid
  <2>8. ASSUME UNCHANGED <<index, failed, candidates>>
        PROVE  \E r \in candidates' : Covers(r)'
    <3>1. PICK r \in candidates : Covers(r)
      BY <2>1 DEF BestCovered, Quiet
    <3>2. Covers(r)'
      BY <2>8, <3>1 DEF Covers, Eligible, Failed, failed, Connected, Worse, index
    <3> QED
      BY <2>8, <3>2
  <2>9. ASSUME NEW t \in Thread,
               \/ NothingToDo(t) \/ ChooseTarget(t) \/ DisconnectTip(t)
               \/ ConnectTipCorrupt(t) \/ StepError(t) \/ LoopTest(t)
               \/ \E b \in Block : AcceptDuplicate(t, b)
        PROVE  UNCHANGED <<index, failed, candidates>>
    BY <2>9 DEF NothingToDo, ChooseTarget, DisconnectTip, ConnectTipCorrupt, StepError,
       LoopTest, AcceptDuplicate, chain
  <2>10. /\ \A t \in Thread : ~ InvalidateTip(t)
         /\ \A t \in Thread : \A b \in Invalidatable : ~ InvalidateBlock(t, b)
    BY QuietBefore
  <2> QED
    BY <1>2, <2>2, <2>3, <2>4, <2>5, <2>6, <2>7, <2>8, <2>9, <2>10 DEF Next, Step
<1> QED
  BY <1>1, <1>2

(* Pruning, reorganisations that fail, marks, operator calls and            *)
(* reconsidered blocks leave a candidate that was connected before and that *)
(* covers every block the candidates miss, as long as no block is accepted  *)
(* here and found invalid there, nor reconsidered below a marked one.       *)
THEOREM BestStaysCovered ==
  ASSUME VerdictsFixed
  PROVE  Spec /\ [][TopReconsidered]_vars => []BestCovered
<1>1. Init => BestCovered
  <2> SUFFICES ASSUME Init PROVE Covers(Genesis) /\ Genesis \in candidates
    BY DEF BestCovered
  <2> QED
    BY AncGenesis DEF Init, Covers, Eligible, Failed, Connected
<1>2. BestCovered /\ IInv /\ MarksInv /\ [Next]_vars /\ [TopReconsidered]_vars => BestCovered'
  <2> SUFFICES ASSUME BestCovered, IInv, MarksInv, [Next]_vars, [TopReconsidered]_vars
               PROVE  BestCovered'
    OBVIOUS
  <2>1. CASE UNCHANGED vars
    BY <2>1 DEF BestCovered, Covers, Eligible, Failed, Connected, Worse,
       vars, index, failed, chain, env
  <2>2. CASE ~ UNCHANGED vars
    BY <2>2, CoveredKept
  <2> QED
    BY <2>1, <2>2
<1> QED
  BY <1>1, <1>2, MarksInvariance, PTL DEF Spec

(* So while cs_main is free the candidates hold a block as good as any that *)
(* could be the tip.                                                        *)
THEOREM BestStaysReachable ==
  ASSUME VerdictsFixed
  PROVE  Spec /\ [][TopReconsidered]_vars => []BestReachable
<1>1. IInv /\ BestCovered => BestReachable
  <2> SUFFICES ASSUME IInv, BestCovered, lock = Nobody, rpcs = 0 \/ ~ SystemErrors,
                      NEW b \in Block, Eligible(b)
               PROVE  \E c \in candidates : Eligible(c) /\ ~ Worse(c, b)
    BY DEF BestReachable
  <2>1. PICK r \in candidates : Covers(r)
    BY FreeLock DEF BestCovered
  <2>2. CASE b \in candidates
    BY <2>2, WorseIsStrict DEF IInv, TypeOK
  <2>3. CASE b \notin candidates
    <3>1. b \in linked \ (Failed \union candidates)
      BY <2>3, AncSelf DEF Eligible
    <3> QED
      BY <2>1, <3>1 DEF Covers
  <2> QED
    BY <2>2, <2>3
<1> QED
  BY <1>1, BestStaysCovered, Invariance, PTL

-----------------------------------------------------------------------------
(* Somebody is on the way to the best candidate                             *)

(* Neither the candidates a step meets nor the targets get better meanwhile. *)
LEMMA TargetsStay ==
  ASSUME IInv, TargetBest, linked \subseteq linked',
         \A u \in Thread : pc'[u] \in {"step", "looptest"} =>
            pc[u] \in {"step", "looptest"} /\ target'[u] = target[u],
         \A u \in Thread : pc'[u] = "step" =>
            pc[u] = "step" /\ seqId' = seqId /\ candidates' \subseteq candidates
  PROVE  TargetBest'
<1>1. ASSUME NEW u \in Thread, pc'[u] \in {"step", "looptest"} PROVE target'[u] \in linked'
  BY <1>1 DEF TargetBest
<1>2. ASSUME NEW u \in Thread, pc'[u] = "step", NEW c \in candidates'
      PROVE  ~ Worse(target[u], c)'
  <2>1. pc[u] = "step" /\ seqId' = seqId /\ c \in candidates /\ target'[u] = target[u]
    BY <1>2
  <2>2. ~ Worse(target[u], c)
    BY <2>1 DEF TargetBest
  <2> QED
    BY <2>1, <2>2 DEF Worse
<1> QED
  BY <1>1, <1>2 DEF TargetBest

LEMMA TargetBestKept ==
  ASSUME IInv, TargetBest, Next
  PROVE  TargetBest'
<1>1. pc \in [Thread -> Labels] /\ target \in [Thread -> Block]
  BY DEF IInv, TypeOK
<1>2. ASSUME NEW t \in Thread, NEW b \in Block,
             \/ AcceptBlock(t, b) \/ AcceptHeaderOnly(t, b) \/ AcceptDuplicate(t, b)
             \/ ReconsiderCheckpoint(t, b) \/ ReconsiderBlock(t, b) \/ InvalidateBlock(t, b)
      PROVE  TargetBest'
  <2>1. /\ lock = Nobody /\ linked \subseteq linked'
        /\ \A u \in Thread : pc'[u] = pc[u] \/ pc'[u] \in {"activate", "invalidate"}
        /\ \A u \in Thread : pc'[u] = "looptest" => target'[u] = target[u]
    <3>1. lock = Nobody /\ linked \subseteq linked'
      BY <1>2 DEF AcceptBlock, ReceivedBlockTransactions, AcceptHeaderOnly, AcceptDuplicate,
         ReconsiderCheckpoint, ReconsiderBlock, InvalidateBlock, index
    <3>2. pc' \in {pc, [pc EXCEPT ![t] = "activate"], [pc EXCEPT ![t] = "invalidate"]}
      BY <1>2 DEF AcceptBlock, AcceptHeaderOnly, AcceptDuplicate,
         ReconsiderCheckpoint, ReconsiderBlock, InvalidateBlock, Goto
    <3>3. \/ target' = target
          \/ target' = [target EXCEPT ![t] = b] /\ pc' = [pc EXCEPT ![t] = "invalidate"]
      BY <1>2 DEF AcceptBlock, AcceptHeaderOnly, AcceptDuplicate,
         ReconsiderCheckpoint, ReconsiderBlock, InvalidateBlock, Goto, local
    <3> QED
      BY <1>1, <3>1, <3>2, <3>3
  <2> QED
    BY <2>1, FreeLock, TargetsStay
<1>3. ASSUME NEW t \in Thread, ChooseTarget(t) PROVE TargetBest'
  <2>1. PICK c \in BestCandidates : target' = [target EXCEPT ![t] = c]
    BY <1>3 DEF ChooseTarget
  <2>2. /\ c \in linked /\ \A d \in candidates : ~ Worse(c, d)
        /\ pc' = [pc EXCEPT ![t] = "step"]
        /\ UNCHANGED <<linked, seqId, candidates>>
        /\ \A u \in Thread \ {t} : pc[u] # "step"
    BY <1>3, <2>1, Alone DEF ChooseTarget, BestCandidates, Goto, index, chain,
       IInv, CandidatesSound
  <2> QED
    BY <1>1, <2>1, <2>2 DEF TargetBest, Worse
<1>4. ASSUME NEW t \in Thread, InvalidateEnd(t) PROVE TargetBest'
  <2>1. /\ pc[t] = "invalidate" /\ pc' = [pc EXCEPT ![t] = "activate"]
        /\ UNCHANGED <<linked, target>>
    BY <1>4 DEF InvalidateEnd, Goto, index, local
  <2>2. \A u \in Thread \ {t} : pc[u] # "step"
    BY <2>1 DEF IInv, LockDiscipline
  <2> QED
    BY <1>1, <2>1, <2>2, TargetsStay
<1>5. ASSUME NEW t \in Thread,
             \/ DiscardCandidate(t) \/ NothingToDo(t) \/ DisconnectTip(t) \/ ConnectTip(t)
             \/ ConnectTipInvalid(t) \/ ConnectTipCorrupt(t) \/ StepError(t)
             \/ LoopTest(t) \/ InvalidateTip(t)
      PROVE  TargetBest'
  <2>1. UNCHANGED <<linked, seqId, target>> /\ candidates' \subseteq candidates
    BY <1>5 DEF DiscardCandidate, NothingToDo, DisconnectTip, ConnectTip, ConnectTipInvalid,
       ConnectTipCorrupt, StepError, LoopTest, InvalidateTip, Pruned, index, chain, local
  <2>2. /\ \A u \in Thread \ {t} : pc'[u] = pc[u]
        /\ pc'[t] = "step" => pc[t] = "step"
        /\ pc'[t] = "looptest" => pc[t] \in {"step", "looptest"}
    BY <1>1, <1>5 DEF DiscardCandidate, NothingToDo, DisconnectTip, ConnectTip,
       ConnectTipInvalid, ConnectTipCorrupt, StepError, LoopTest, InvalidateTip, Goto, Return
  <2> QED
    BY <2>1, <2>2, TargetsStay
<1> QED
  BY <1>2, <1>3, <1>4, <1>5 DEF Next, Step

(* Without system errors no thread turns away from a better candidate.      *)
LEMMA PursuedKept ==
  ASSUME IInv, TargetBest, BestPursued, Next, ~ SystemErrors
  PROVE  BestPursued'
<1>1. pc \in [Thread -> Labels]
  BY DEF IInv, TypeOK
<1>2. ASSUME NEW t \in Thread, NEW b \in Block,
             \/ AcceptBlock(t, b) \/ AcceptDuplicate(t, b)
             \/ ReconsiderCheckpoint(t, b) \/ ReconsiderBlock(t, b) \/ InvalidateBlock(t, b)
      PROVE  BestPursued'
  <2>1. pc'[t] \in {"activate", "invalidate"}
    BY <1>1, <1>2 DEF AcceptBlock, AcceptDuplicate, ReconsiderCheckpoint, ReconsiderBlock,
       InvalidateBlock, Goto
  <2> QED
    BY <2>1 DEF BestPursued, Pursues
<1>3. ASSUME NEW t \in Thread, NEW b \in Block, AcceptHeaderOnly(t, b) PROVE BestPursued'
  BY <1>3 DEF AcceptHeaderOnly, chain, local, BestPursued, Pursues, Worse
<1>4. ASSUME NEW t \in Thread, NothingToDo(t) PROVE BestPursued'
  <2>1. \A c \in candidates : ~ Worse(tip, c)
    BY <1>4 DEF NothingToDo, BestCandidates
  <2> QED
    BY <1>4, <2>1 DEF NothingToDo, chain, index, BestPursued, Worse
<1>5. ASSUME NEW t \in Thread,
             \/ DiscardCandidate(t) \/ ChooseTarget(t) \/ DisconnectTip(t)
             \/ InvalidateTip(t) \/ InvalidateEnd(t)
      PROVE  BestPursued'
  <2>1. pc'[t] \in {"activate", "step", "invalidate"}
    BY <1>1, <1>5 DEF DiscardCandidate, ChooseTarget, DisconnectTip, InvalidateTip,
       InvalidateEnd, Goto
  <2> QED
    BY <2>1 DEF BestPursued, Pursues
<1>6. ASSUME NEW t \in Thread,
             ConnectTip(t) \/ ConnectTipInvalid(t) \/ ConnectTipCorrupt(t)
      PROVE  BestPursued'
  <2>1. /\ pc[t] = "step" /\ pc'[t] \in {"step", "looptest"}
        /\ UNCHANGED <<seqId, target>> /\ candidates' \subseteq candidates
    BY <1>1, <1>6 DEF ConnectTip, ConnectTipInvalid, ConnectTipCorrupt, Goto, Pruned,
       index, chain, local
  <2>2. \A c \in candidates' : ~ Worse(target[t], c)'
    BY <2>1 DEF TargetBest, Worse
  <2> QED
    BY <2>1, <2>2 DEF BestPursued, Pursues
<1>7. ASSUME NEW t \in Thread, LoopTest(t) PROVE BestPursued'
  <2>1. /\ pc[t] = "looptest" /\ UNCHANGED <<seqId, target, candidates, tip>>
        /\ \A u \in Thread \ {t} : pc'[u] = pc[u]
        /\ target[t] = tip \/ pc'[t] = "activate"
    BY <1>1, <1>7 DEF LoopTest, Goto, Return, index, chain
  <2>2. CASE pc'[t] = "activate"
    BY <2>2 DEF BestPursued, Pursues
  <2>3. CASE target[t] = tip
    <3>1. SUFFICES ASSUME \E c \in candidates : Worse(tip, c)
                   PROVE  \E u \in Thread : Pursues(u)'
      BY <2>1 DEF BestPursued, Worse
    <3>2. PICK u \in Thread : Pursues(u)
      BY <3>1 DEF BestPursued
    <3>3. u # t
      BY <2>1, <2>3, <3>1, <3>2 DEF Pursues
    <3>4. Pursues(u)'
      BY <2>1, <3>2, <3>3 DEF Pursues, Worse
    <3> QED
      BY <3>4
  <2> QED
    BY <2>1, <2>2, <2>3
<1>8. ASSUME NEW t \in Thread, StepError(t) PROVE FALSE
  BY <1>8 DEF StepError
<1> QED
  BY <1>2, <1>3, <1>4, <1>5, <1>6, <1>7, <1>8 DEF Next, Step

LEMMA PursuitKept == IInv /\ PursuitInv /\ [Next]_vars => PursuitInv'
<1> SUFFICES ASSUME IInv, PursuitInv, [Next]_vars PROVE PursuitInv'
  OBVIOUS
<1>1. CASE Next
  <2>1. TargetBest'
    BY <1>1, TargetBestKept DEF PursuitInv
  <2>2. BestPursued'
    <3>1. CASE SystemErrors
      BY <3>1 DEF BestPursued
    <3>2. CASE ~ SystemErrors
      BY <1>1, <3>2, PursuedKept DEF PursuitInv
    <3> QED
      BY <3>1, <3>2
  <2> QED
    BY <2>1, <2>2 DEF PursuitInv
<1>2. CASE UNCHANGED vars
  BY <1>2 DEF PursuitInv, TargetBest, BestPursued, Pursues, Worse,
     vars, index, chain, local
<1> QED
  BY <1>1, <1>2

THEOREM PursuitInvariance == Spec => [](IInv /\ PursuitInv)
<1>1. Init => PursuitInv
  BY DEF Init, PursuitInv, TargetBest, BestPursued, Worse
<1> QED
  BY <1>1, InitInv, NextInv, PursuitKept, PTL DEF Spec

(* When every thread is done no block that could be the tip is better than  *)
(* the tip: whoever returns from ActivateBestChain, on whatever chain other *)
(* threads left it, either found nothing better or leaves it to a thread    *)
(* that will.  A system error may end ActivateBestChain early, so there are *)
(* none here.                                                               *)
THEOREM QuiescentIsBest ==
  ASSUME VerdictsFixed, SystemErrors = FALSE
  PROVE  Spec /\ [][TopReconsidered]_vars => []QuiescentBest
<1>1. IInv /\ PursuitInv /\ BestCovered => QuiescentBest
  <2> SUFFICES ASSUME IInv, PursuitInv, BestCovered, \A t \in Thread : pc[t] = "idle",
                      NEW b \in Block, Eligible(b)
               PROVE  ~ Worse(tip, b)
    BY DEF QuiescentBest
  <2>1. \A c \in candidates : ~ Worse(tip, c)
    BY DEF PursuitInv, BestPursued, Pursues
  <2>2. PICK r \in candidates : Covers(r)
    BY DEF BestCovered
  <2>3. b \notin candidates => ~ Worse(r, b)
    BY <2>2, AncSelf DEF Covers, Eligible
  <2> QED
    BY <2>1, <2>3, NotWorseTransitive DEF IInv, TypeOK
<1> QED
  BY <1>1, BestStaysCovered, PursuitInvariance, PTL

-----------------------------------------------------------------------------
(* What may be reconsidered                                                 *)

(* It is enough that only children of the genesis block are reconsidered:   *)
(* what a block is reconsidered above is then the genesis block, which is   *)
(* never marked.                                                            *)
FirstReconsidered ==
    \A b \in Reconsiderable \union Checkpoint : Anc[b] \subseteq {b, Genesis}

LEMMA TopIsFirst ==
  ASSUME FirstReconsidered
  PROVE  Spec => [][TopReconsidered]_vars
<1>1. MarksInv /\ [Next]_vars => [TopReconsidered]_vars
  <2> SUFFICES ASSUME MarksInv, Next, ~ UNCHANGED vars PROVE TopReconsidered
    OBVIOUS
  <2>1. Genesis \notin Failed
    BY DEF MarksInv, StatusSound
  <2>2. ASSUME NEW b \in Reconsiderable \union Checkpoint
        PROVE  Anc[b] \cap Failed \subseteq {b}
    BY <2>1 DEF FirstReconsidered
  <2> QED
    BY <2>2 DEF TopReconsidered, ReconsiderCheckpoint
<1> QED
  BY <1>1, MarksInvariance, PTL DEF Spec

(* The three properties, then, hold of every behaviour.  Marks first: a     *)
(* failed block has a cause, and scripts were checked from the bottom up.   *)
COROLLARY FirstReconsideredSound ==
  ASSUME FirstReconsidered
  PROVE  Spec => []MarksSound
  BY TopIsFirst, MarksAreSound, PTL

(* While cs_main is free the best chain can be reached, system errors or    *)
(* not.                                                                     *)
COROLLARY FirstReconsideredReachable ==
  ASSUME FirstReconsidered, VerdictsFixed
  PROVE  Spec => []BestReachable
  BY TopIsFirst, BestStaysReachable, PTL

(* Without system errors it has been reached when all threads are done.     *)
COROLLARY FirstReconsideredBest ==
  ASSUME FirstReconsidered, VerdictsFixed, SystemErrors = FALSE
  PROVE  Spec => []QuiescentBest
  BY TopIsFirst, QuiescentIsBest, PTL
=============================================================================
