------------------------------ MODULE ChainState ------------------------------
(***************************************************************************)
(* The block index and the active chain of src/src/main.cpp: which blocks  *)
(* the node knows, which of them can become the tip, and how several       *)
(* threads (message handler, RPC, staker) drive ActivateBestChain, which   *)
(* releases cs_main between its steps.                                     *)
(***************************************************************************)
EXTENDS BlockTree

CONSTANTS
    Thread,          \* threads that call ProcessNewBlock or the chain RPCs
    Nobody,          \* nobody holds cs_main
    NoBlock,         \* the NULL CBlockIndex pointer
    Verdicts,        \* functions Block -> SUBSET {"ok", "invalid", "corrupt"}
    Acceptances,     \* Block -> SUBSET {"stored", "invalid", "rejected"}
    ProofOfStake,    \* blocks with a coinstake
    Checkpoint,      \* blocks for which Checkpoints::CheckBlock(.., true)
                     \* holds: the hard-coded ones, all under -checkpoints=0
    Invalidatable,   \* blocks an operator passes to invalidateblock
    Reconsiderable,  \* blocks an operator passes to reconsiderblock
    SystemErrors,    \* whether disk and database errors happen
    MaxRpc           \* bound on the operator's calls

ASSUME ChainStateAssumption ==
    /\ Nobody \notin Thread
    /\ NoBlock \notin Block
    /\ Verdicts \subseteq [Block -> SUBSET {"ok", "invalid", "corrupt"}]
    /\ Acceptances \in [Block -> SUBSET {"stored", "invalid", "rejected"}]
    /\ ProofOfStake \subseteq Block \ {Genesis}
    /\ Checkpoint \subseteq Block
    /\ Invalidatable \subseteq Block \ {Genesis}
    /\ Reconsiderable \subseteq Block
    /\ SystemErrors \in BOOLEAN
    /\ MaxRpc \in Nat

VARIABLES
    \* the block index: mapBlockIndex and the fields of its entries
    known,           \* blocks with an entry in mapBlockIndex
    level,           \* nStatus & BLOCK_VALID_MASK
    haveData,        \* BLOCK_HAVE_DATA
    failedValid,     \* BLOCK_FAILED_VALID
    failedChild,     \* BLOCK_FAILED_CHILD
    linked,          \* nChainTx # 0
    seqId,           \* nSequenceId
    nextSeq,         \* nBlockSequenceId
    unlinked,        \* the values of mapBlocksUnlinked; each key is the parent
    \* chain selection
    candidates,      \* setBlockIndexCandidates
    tip,             \* chainActive.Tip(); the active chain is Anc[tip]
    bestInvalid,     \* pindexBestInvalid
    \* the threads
    lock,            \* holder of cs_main
    pc,              \* where each thread is
    target,          \* pindexMostWork, or the block being invalidated
    oldTip,          \* pindexOldTip
    given,           \* pblock, when the block is at hand and checked
    nested,          \* ActivateBestChain runs inside AcceptBlock
    \* the environment
    verdict,         \* what ConnectBlock may answer for each block
    rpcs             \* operator calls so far

index  == <<known, level, haveData, linked, seqId, nextSeq, unlinked>>
failed == <<failedValid, failedChild, bestInvalid>>
chain  == <<candidates, tip>>
local  == <<target, oldTip, given>>
env    == <<verdict, rpcs>>
vars   == <<index, failed, chain, lock, pc, local, nested, env>>

-----------------------------------------------------------------------------
(* Validity levels of enum BlockStatus that the code ever raises to.       *)
UNKNOWN      == 0
TREE         == 2
TRANSACTIONS == 3
SCRIPTS      == 5

Failed == failedValid \union failedChild

Active == Anc[tip]

(* CBlockIndexWorkComparator: a sorts before b.                            *)
Worse(a, b) ==
    \/ ChainWork[a] < ChainWork[b]
    \/ ChainWork[a] = ChainWork[b] /\ seqId[a] > seqId[b]

(* Bug: RaiseValidity or-s the new level in without clearing the mask, so   *)
(* 3 | 5 = 7.                                                              *)
RaisedByOr(b, lvl) ==
    IF b \notin Failed /\ level[b] < lvl
    THEN [level EXCEPT ![b] = IF @ = TRANSACTIONS THEN 7 ELSE lvl] ELSE level

(* CBlockIndex::RaiseValidity refuses a failed entry.                      *)
Raised(b, lvl) ==
    IF b \notin Failed /\ level[b] < lvl THEN [level EXCEPT ![b] = lvl] ELSE level

(* InvalidChainFound, and the same update in FindMostWorkChain.            *)
MoreInvalid(b) ==
    IF bestInvalid = NoBlock \/ ChainWork[b] > ChainWork[bestInvalid]
    THEN b ELSE bestInvalid

(* cs_main is recursive: its holder may take it again.                     *)
MayLock(t) == lock \in {Nobody, t}

(* Bug: cs_main is given up inside AcceptBlock too.                        *)
ReleasedAlways(t) == Nobody

(* The lock after a section of t: AcceptBlock keeps it around the          *)
(* ActivateBestChain it calls.                                             *)
Released(t) == IF nested[t] THEN t ELSE Nobody

Goto(t, label) == pc' = [pc EXCEPT ![t] = label]

(* ActivateBestChain returns to its caller: AcceptBlock, which ignores the *)
(* result and hands over to ProcessNewBlock's own ActivateBestChain, or a  *)
(* caller that is done.                                                    *)
Return(t) ==
    /\ nested' = [nested EXCEPT ![t] = FALSE]
    /\ given' = [given EXCEPT ![t] = NoBlock]
    /\ Goto(t, IF nested[t] THEN "activate" ELSE "idle")

Init ==
    /\ known = {Genesis}
    /\ level = [b \in Block |-> IF b = Genesis THEN TRANSACTIONS ELSE UNKNOWN]
    /\ haveData = {Genesis}
    /\ failedValid = {}
    /\ failedChild = {}
    /\ linked = {Genesis}
    /\ seqId = [b \in Block |-> IF b = Genesis THEN 1 ELSE 0]
    /\ nextSeq = 2
    /\ unlinked = {}
    /\ candidates = {Genesis}
    /\ tip = Genesis
    /\ bestInvalid = NoBlock
    /\ lock = Nobody
    /\ pc = [t \in Thread |-> "idle"]
    /\ target = [t \in Thread |-> Genesis]
    /\ oldTip = [t \in Thread |-> Genesis]
    /\ given = [t \in Thread |-> NoBlock]
    /\ nested = [t \in Thread |-> FALSE]
    /\ verdict \in Verdicts
    /\ rpcs = 0

-----------------------------------------------------------------------------
(* Receiving blocks *)

(* Bug: ReceivedBlockTransactions does not go on to the blocks that waited *)
(* for b.                                                                  *)
LinkedAlone(b) ==
    IF b = Genesis \/ Parent[b] \in linked THEN {b} ELSE {}

(* What ReceivedBlockTransactions links when b arrives: b, and every       *)
(* stored descendant that waited in mapBlocksUnlinked for b.               *)
NewlyLinked(b) ==
    IF b = Genesis \/ Parent[b] \in linked
    THEN {d \in Block : b \in Anc[d] /\ (Anc[d] \ Anc[b]) \subseteq unlinked}
    ELSE {}

(* The breadth-first walk numbers parents before children; siblings come   *)
(* in the order they entered the multimap, which is not recorded here.     *)
Numberings(S) ==
    {f \in [S -> nextSeq .. (nextSeq + Cardinality(S) - 1)] :
        \A x, y \in S : x # y => /\ f[x] # f[y]
                                 /\ Height[x] < Height[y] => f[x] < f[y]}

ReceivedBlockTransactions(b) ==
    LET new == NewlyLinked(b) IN
    /\ known' = known \union {b}
    /\ haveData' = haveData \union {b}
    /\ level' = [level EXCEPT ![b] = TRANSACTIONS]
    /\ linked' = linked \union new
    /\ nextSeq' = nextSeq + Cardinality(new)
    /\ unlinked' = IF new = {} THEN unlinked \union {b} ELSE unlinked \ new
    /\ \E f \in Numberings(new) :
          seqId' = [x \in Block |-> IF x \in new THEN f[x] ELSE seqId[x]]
    /\ candidates' = candidates \union
          {x \in new : ~ \/ ChainWork[x] < ChainWork[tip]
                         \/ ChainWork[x] = ChainWork[tip] /\ seqId'[x] > seqId[tip]}

(* ProcessNewBlock turns away a stake it has seen, and AcceptBlock a block *)
(* whose parent is unknown.  (A peer's block is turned away too while the  *)
(* parent has no data; one from submitblock, the miner or a block file is  *)
(* not, and any thread may deliver those.)                                 *)
Deliverable(b) ==
    /\ b # Genesis
    /\ b \in ProofOfStake => b \notin known
    /\ Parent[b] \in known

(* The block passes every check: it is stored, then the best chain is      *)
(* activated.                                                              *)
AcceptBlock(t, b) ==
    /\ pc[t] = "idle" /\ lock = Nobody
    /\ Deliverable(b)
    /\ {b, Parent[b]} \cap Failed = {}
    /\ b \notin haveData
    /\ "stored" \in Acceptances[b]
    /\ ReceivedBlockTransactions(b)
    /\ given' = [given EXCEPT ![t] = b]
    /\ Goto(t, "activate")
    /\ UNCHANGED <<failed, tip, lock, target, oldTip, nested, env>>

(* The header is accepted and the block is not: ContextualCheckBlock fails *)
(* and marks it, or a possible corruption or a write error leaves the      *)
(* header without data.                                                    *)
AcceptHeaderOnly(t, b) ==
    /\ pc[t] = "idle" /\ lock = Nobody
    /\ Deliverable(b)
    /\ {b, Parent[b]} \cap Failed = {}
    /\ b \notin haveData
    /\ known' = known \union {b}
    /\ level' = Raised(b, TREE)
    /\ \/ "invalid" \in Acceptances[b] /\ failedValid' = failedValid \union {b}
       \/ "rejected" \in Acceptances[b] /\ UNCHANGED failedValid
    /\ UNCHANGED <<haveData, linked, seqId, nextSeq, unlinked, failedChild,
                   bestInvalid, chain, lock, pc, local, nested, env>>

(* Bug: a duplicate goes through ReceivedBlockTransactions once more.      *)
AcceptDuplicateAgain(t, b) ==
    /\ pc[t] = "idle" /\ lock = Nobody
    /\ Deliverable(b)
    /\ {b, Parent[b]} \cap Failed = {}
    /\ b \in haveData
    /\ ReceivedBlockTransactions(b)
    /\ given' = [given EXCEPT ![t] = b]
    /\ Goto(t, "activate")
    /\ UNCHANGED <<failed, tip, lock, target, oldTip, nested, env>>

(* A block the node already has: AcceptBlock returns true and the best     *)
(* chain is activated once more.                                           *)
AcceptDuplicate(t, b) ==
    /\ pc[t] = "idle" /\ lock = Nobody
    /\ Deliverable(b)
    /\ {b, Parent[b]} \cap Failed = {}
    /\ b \in haveData
    /\ given' = [given EXCEPT ![t] = b]
    /\ Goto(t, "activate")
    /\ UNCHANGED <<index, failed, chain, lock, target, oldTip, nested, env>>

-----------------------------------------------------------------------------
(* Reconsidering blocks *)

(* Bug: only b itself is cleared.                                          *)
ReconsideredAlone(b) ==
    /\ failedValid' = failedValid \ {b}
    /\ failedChild' = failedChild \ {b}
    /\ candidates' = candidates \union
          {x \in {b} \cap linked : level[x] >= TRANSACTIONS /\ Worse(tip, x)}
    /\ bestInvalid' = IF bestInvalid = b THEN NoBlock ELSE bestInvalid

(* ReconsiderBlock clears every descendant of b that is failed or never    *)
(* got its data, then b's ancestors; only the former become candidates.    *)
Reconsidered(b) ==
    LET invalid == {x \in known : b \in Anc[x] /\ (x \in Failed \/ level[x] < TRANSACTIONS)}
        cleared == invalid \union Anc[b]
    IN  /\ failedValid' = failedValid \ cleared
        /\ failedChild' = failedChild \ cleared
        /\ candidates' = candidates \union
              {x \in invalid : level[x] >= TRANSACTIONS /\ x \in linked /\ Worse(tip, x)}
        /\ bestInvalid' = IF bestInvalid \in invalid THEN NoBlock ELSE bestInvalid

ReconsiderBlock(t, b) ==
    /\ pc[t] = "idle" /\ lock = Nobody
    /\ rpcs < MaxRpc
    /\ b \in known
    /\ Reconsidered(b)
    /\ rpcs' = rpcs + 1
    /\ Goto(t, "activate")
    /\ UNCHANGED <<index, tip, lock, local, nested, verdict>>

(* A child of a failed checkpoint block arrives: AcceptBlock reconsiders   *)
(* the parent and activates the best chain without releasing cs_main, and  *)
(* drops the child.                                                        *)
ReconsiderCheckpoint(t, b) ==
    /\ pc[t] = "idle" /\ lock = Nobody
    /\ Deliverable(b)
    /\ Parent[b] \in Failed \cap Checkpoint
    /\ Reconsidered(Parent[b])
    /\ lock' = t
    /\ nested' = [nested EXCEPT ![t] = TRUE]
    /\ Goto(t, "activate")
    /\ UNCHANGED <<index, tip, local, env>>

-----------------------------------------------------------------------------
(* ActivateBestChain *)

BestCandidates == {c \in candidates : \A d \in candidates : ~ Worse(c, d)}

(* Blocks FindMostWorkChain tests: from c down to the active chain.        *)
OffChain(c) == Anc[c] \ Active

(* One round of FindMostWorkChain that meets a failed block: the           *)
(* candidate, the failed block and all between leave the candidates, and   *)
(* those above the failed block are marked.                                *)
DiscardCandidate(t) ==
    /\ pc[t] = "activate" /\ MayLock(t)
    /\ \E c \in BestCandidates : \E test \in OffChain(c) \cap Failed :
         /\ OffChain(c) \cap Failed \subseteq Anc[test]
         /\ failedChild' = failedChild \union (Anc[c] \ Anc[test])
         /\ candidates' = candidates \ (Anc[c] \ (Anc[test] \ {test}))
         /\ bestInvalid' = MoreInvalid(c)
    /\ lock' = t
    /\ UNCHANGED <<index, failedValid, tip, pc, local, nested, env>>

(* FindMostWorkChain answers NULL or the tip: there is nothing to do.      *)
NothingToDo(t) ==
    /\ pc[t] = "activate" /\ MayLock(t)
    /\ candidates = {} \/ tip \in BestCandidates
    /\ lock' = Nobody
    /\ Return(t)
    /\ UNCHANGED <<index, failed, chain, target, oldTip, env>>

(* Bug: FindMostWorkChain looks at the candidate alone, not at the blocks  *)
(* between it and the active chain.                                        *)
ChooseTargetUnchecked(t) ==
    /\ pc[t] = "activate" /\ MayLock(t)
    /\ \E c \in BestCandidates \ {tip} :
         /\ c \notin Failed
         /\ target' = [target EXCEPT ![t] = c]
    /\ oldTip' = [oldTip EXCEPT ![t] = tip]
    /\ lock' = t
    /\ Goto(t, "step")
    /\ UNCHANGED <<index, failed, chain, given, nested, env>>

(* FindMostWorkChain answers a block to work towards.                      *)
ChooseTarget(t) ==
    /\ pc[t] = "activate" /\ MayLock(t)
    /\ \E c \in BestCandidates \ {tip} :
         /\ OffChain(c) \cap Failed = {}
         /\ target' = [target EXCEPT ![t] = c]
    /\ oldTip' = [oldTip EXCEPT ![t] = tip]
    /\ lock' = t
    /\ Goto(t, "step")
    /\ UNCHANGED <<index, failed, chain, given, nested, env>>

(* ActivateBestChainStep: back to the fork, one block at a time.           *)
DisconnectTip(t) ==
    /\ pc[t] = "step"
    /\ tip \notin Anc[target[t]]
    /\ tip' = Parent[tip]
    /\ UNCHANGED <<index, failed, candidates, lock, pc, local, nested, env>>

(* Bug: the blocks to connect are taken in any order.                      *)
AnyToConnect(t) == OffChain(target[t])

(* The block of the target's branch that comes after the tip.              *)
NextToConnect(t) == {n \in Anc[target[t]] \ {Genesis} : Parent[n] = tip}

(* Bugs: nothing is pruned; the tip itself is pruned too.                  *)
NotPruned(n) == candidates
PrunedWithTip(n) == {c \in candidates : Worse(n, c)}

(* PruneBlockIndexCandidates once n is the tip.                            *)
Pruned(n) == {c \in candidates : ~ Worse(c, n)}

(* ActivateBestChain passes pblock on if it is the target, and             *)
(* ActivateBestChainStep if it is the block to connect; it has passed      *)
(* CheckBlock.  Any other block is read from disk and checked again.       *)
FromDisk(t, n) == ~ (n = given[t] /\ n = target[t])

(* ConnectTip succeeds.  The step ends when the tip has more work than the *)
(* old one or the target is reached.                                       *)
ConnectTip(t) ==
    /\ pc[t] = "step"
    /\ \E n \in NextToConnect(t) :
         /\ "ok" \in verdict[n]
         /\ level' = Raised(n, SCRIPTS)
         /\ tip' = n
         /\ candidates' = Pruned(n)
         /\ IF ChainWork[n] > ChainWork[oldTip[t]] \/ n = target[t]
            THEN lock' = Released(t) /\ Goto(t, "looptest")
            ELSE UNCHANGED <<lock, pc>>
    /\ UNCHANGED <<known, haveData, linked, seqId, nextSeq, unlinked, failed,
                   local, nested, env>>

(* Bug: the invalid block leaves the candidates without being marked, so   *)
(* its descendants are tried again and again.                              *)
ConnectTipInvalidUnmarked(t) ==
    /\ pc[t] = "step"
    /\ \E n \in NextToConnect(t) : "invalid" \in verdict[n] /\ candidates' = candidates \ {n}
    /\ lock' = Released(t)
    /\ Goto(t, "looptest")
    /\ UNCHANGED <<index, failed, tip, local, nested, env>>

(* ConnectTip finds the block invalid: InvalidBlockFound marks it.  The    *)
(* later InvalidChainFound(vpindexToConnect.back()) names a block with no  *)
(* more work, so it changes nothing.                                       *)
ConnectTipInvalid(t) ==
    /\ pc[t] = "step"
    /\ \E n \in NextToConnect(t) :
         /\ "invalid" \in verdict[n]
         /\ failedValid' = failedValid \union {n}
         /\ candidates' = candidates \ {n}
         /\ bestInvalid' = MoreInvalid(n)
    /\ lock' = Released(t)
    /\ Goto(t, "looptest")
    /\ UNCHANGED <<index, failedChild, tip, local, nested, env>>

(* ConnectTip fails with CorruptionPossible, which only the CheckBlock of  *)
(* a block read back from disk reports: nothing is marked, and the step    *)
(* still counts as done.                                                   *)
ConnectTipCorrupt(t) ==
    /\ pc[t] = "step"
    /\ \E n \in NextToConnect(t) : "corrupt" \in verdict[n] /\ FromDisk(t, n)
    /\ lock' = Released(t)
    /\ Goto(t, "looptest")
    /\ UNCHANGED <<index, failed, chain, local, nested, env>>

(* DisconnectTip or ConnectTip meets a system error: ActivateBestChain     *)
(* gives up where it is.                                                   *)
StepError(t) ==
    /\ pc[t] = "step"
    /\ SystemErrors
    /\ lock' = Nobody
    /\ Return(t)
    /\ UNCHANGED <<index, failed, chain, target, oldTip, env>>

(* Bug: one step is taken for the whole way.                               *)
LoopTestOnce(t) ==
    /\ pc[t] = "looptest"
    /\ Return(t)
    /\ lock' = (IF nested[t] THEN Nobody ELSE lock)
    /\ UNCHANGED <<index, failed, chain, target, oldTip, env>>

(* while (pindexMostWork != chainActive.Tip()), read without cs_main.      *)
LoopTest(t) ==
    /\ pc[t] = "looptest"
    /\ IF target[t] = tip
       THEN Return(t) /\ lock' = (IF nested[t] THEN Nobody ELSE lock)
       ELSE Goto(t, "activate") /\ UNCHANGED <<lock, nested, given>>
    /\ UNCHANGED <<index, failed, chain, target, oldTip, env>>

-----------------------------------------------------------------------------
(* InvalidateBlock *)

InvalidateBlock(t, b) ==
    /\ pc[t] = "idle" /\ lock = Nobody
    /\ rpcs < MaxRpc
    /\ b \in known
    /\ failedValid' = failedValid \union {b}
    /\ candidates' = candidates \ {b}
    /\ target' = [target EXCEPT ![t] = b]
    /\ lock' = t
    /\ rpcs' = rpcs + 1
    /\ Goto(t, "invalidate")
    /\ UNCHANGED <<index, failedChild, bestInvalid, tip, oldTip, given, nested, verdict>>

(* One turn of its loop; a failing DisconnectTip ends the call, and the    *)
(* RPC goes on to ActivateBestChain unless the node is being shut down.    *)
InvalidateTip(t) ==
    /\ pc[t] = "invalidate"
    /\ target[t] \in Active
    /\ failedChild' = failedChild \union {tip}
    /\ candidates' = candidates \ {tip}
    /\ \/ tip' = Parent[tip] /\ UNCHANGED <<lock, pc>>
       \/ /\ SystemErrors
          /\ lock' = Nobody
          /\ \E label \in {"activate", "idle"} : Goto(t, label)
          /\ UNCHANGED tip
    /\ UNCHANGED <<index, failedValid, bestInvalid, local, nested, env>>

(* When b has left the chain, every valid block no worse than the new tip  *)
(* becomes a candidate.                                                    *)
InvalidateEnd(t) ==
    /\ pc[t] = "invalidate"
    /\ target[t] \notin Active
    /\ candidates' = candidates \union
          {x \in (known \cap linked) \ Failed : level[x] >= TRANSACTIONS /\ ~ Worse(x, tip)}
    /\ bestInvalid' = MoreInvalid(target[t])
    /\ lock' = Nobody
    /\ Goto(t, "activate")
    /\ UNCHANGED <<index, failedValid, failedChild, tip, local, nested, env>>

-----------------------------------------------------------------------------

Step(t) ==
    \/ DiscardCandidate(t)
    \/ NothingToDo(t)
    \/ ChooseTarget(t)
    \/ DisconnectTip(t)
    \/ ConnectTip(t)
    \/ ConnectTipInvalid(t)
    \/ ConnectTipCorrupt(t)
    \/ StepError(t)
    \/ LoopTest(t)
    \/ InvalidateTip(t)
    \/ InvalidateEnd(t)

Next ==
    \E t \in Thread :
        \/ Step(t)
        \/ \E b \in Block : \/ AcceptBlock(t, b)
                            \/ AcceptHeaderOnly(t, b)
                            \/ AcceptDuplicate(t, b)
                            \/ ReconsiderCheckpoint(t, b)
        \/ \E b \in Reconsiderable : ReconsiderBlock(t, b)
        \/ \E b \in Invalidatable : InvalidateBlock(t, b)

Spec == Init /\ [][Next]_vars

(* A thread in ActivateBestChain polls TRY_LOCK(cs_main) every 50 ms until *)
(* it gets the lock, and a thread that holds it runs to the end of its     *)
(* section: no thread is delayed for ever.  Nothing is assumed about the   *)
(* network or the operator.                                                *)
FairSpec == Spec /\ \A t \in Thread : SF_vars(Step(t))
-----------------------------------------------------------------------------
(* Properties *)

Labels == {"idle", "activate", "step", "looptest", "invalidate"}

(* Types of the variables.                                                 *)
TypeOK ==
    /\ known \in SUBSET Block /\ haveData \in SUBSET Block
    /\ linked \in SUBSET Block /\ unlinked \in SUBSET Block
    /\ failedValid \in SUBSET Block /\ failedChild \in SUBSET Block
    /\ candidates \in SUBSET Block
    /\ level \in [Block -> {UNKNOWN, TREE, TRANSACTIONS, SCRIPTS}]
    /\ seqId \in [Block -> Nat] /\ nextSeq \in Nat
    /\ tip \in Block /\ bestInvalid \in Block \union {NoBlock}
    /\ lock \in Thread \union {Nobody}
    /\ pc \in [Thread -> Labels]
    /\ target \in [Thread -> Block] /\ oldTip \in [Thread -> Block]
    /\ given \in [Thread -> Block \union {NoBlock}]
    /\ nested \in [Thread -> BOOLEAN]
    /\ verdict \in Verdicts /\ rpcs \in 0 .. MaxRpc

(* nChainTx is set exactly for the blocks whose whole ancestry has data,   *)
(* in whatever order the data came, and mapBlocksUnlinked holds the other  *)
(* stored blocks (CheckBlockIndex, main.cpp:5407-5411 and 5451-5458).      *)
LinkedIffAllData ==
    /\ linked = {b \in Block : Anc[b] \subseteq haveData}
    /\ unlinked = haveData \ linked
    /\ \A b \in Block \ linked : seqId[b] = 0

(* A block is SCRIPTS valid only if all its ancestors are                  *)
(* (CheckBlockIndex, main.cpp:5424-5425).                                  *)
ScriptsClosed ==
    \A b \in Block : level[b] = SCRIPTS => \A a \in Anc[b] \ {Genesis} : level[a] = SCRIPTS

(* Every candidate can be connected as far as data goes, sorts no worse    *)
(* than the tip, and has a sequence id of its own, so that the comparator  *)
(* of the std::set never takes two candidates for one (main.cpp:3649 and   *)
(* 5436-5437).                                                             *)
CandidatesSound ==
    /\ candidates \subseteq linked
    /\ \A c \in candidates : ~ Worse(c, tip)
    /\ \A b, c \in linked : b # c => seqId[b] # seqId[c]

(* "The failed mask cannot be set for blocks without invalid parents"      *)
(* (CheckBlockIndex, main.cpp:5426-5430).                                  *)
FailedHasCause == \A b \in Failed : Anc[b] \cap failedValid # {}

MarksSound == ScriptsClosed /\ FailedHasCause

(* A block that could be the tip: linked and with no failed ancestor.      *)
Eligible(b) == b \in linked /\ Anc[b] \cap Failed = {}

(* Whenever cs_main is free, an activation would end at a tip as good as   *)
(* any block that could be the tip: pruning, failed reorganisations, disk  *)
(* errors and operator calls never lose the best chain.  Only a disk error *)
(* that cuts an InvalidateBlock short may.                                 *)
BestReachable ==
    lock = Nobody /\ (rpcs = 0 \/ ~ SystemErrors) =>
        \A b \in Block : Eligible(b) =>
            \E c \in candidates : Eligible(c) /\ ~ Worse(c, b)

(* While a step runs, its target is a candidate better than the tip it     *)
(* started from, and every block it has still to connect is clean: the     *)
(* assert of PruneBlockIndexCandidates cannot fail.                        *)
TargetSound ==
    \A t \in Thread : pc[t] = "step" =>
        /\ lock = t
        /\ target[t] \in candidates
        /\ Worse(oldTip[t], target[t])
        /\ OffChain(target[t]) \cap Failed = {}

(* No thread finds a block marked failed in the active chain: only the     *)
(* thread that is invalidating it may see one.                             *)
ActiveChainClean == lock = Nobody => Active \cap Failed = {}

(* The ActivateBestChain inside AcceptBlock runs from end to end under one *)
(* hold of cs_main: AcceptBlock never resumes on a chain another thread    *)
(* changed (main.cpp:4489-4510).                                           *)
NestedHoldsLock ==
    \A t \in Thread : nested[t] => lock = t /\ pc[t] # "idle"

(* When every thread is done, the tip is the best block there is.          *)
QuiescentBest ==
    (\A t \in Thread : pc[t] = "idle") =>
        \A b \in Block : Eligible(b) => ~ Worse(tip, b)

(* The key setBlockIndexCandidates sorts by never changes under an entry.  *)
OrderStable == [][\A c \in candidates : seqId'[c] = seqId[c]]_vars

(* "The result is either failure or an activated best chain"               *)
(* (main.cpp:3773-3774): a thread in ActivateBestChain gets out of it.     *)
ActivationTerminates ==
    \A t \in Thread : pc[t] # "idle" ~> pc[t] = "idle"

-----------------------------------------------------------------------------
(* The inductive invariant behind CandidatesSound, TargetSound and          *)
(* ActiveChainClean.                                                       *)

(* Who holds cs_main: the thread inside a step or an invalidation, and the *)
(* one whose AcceptBlock runs ActivateBestChain.                           *)
LockDiscipline ==
    \A t \in Thread :
        /\ pc[t] \in {"step", "invalidate"} => lock = t
        /\ nested[t] => lock = t /\ pc[t] \in {"activate", "step", "looptest"}
        /\ pc[t] = "invalidate" => target[t] # Genesis

SeqIdsIssued == \A b \in linked : seqId[b] < nextSeq

ActiveLinked == tip \in linked

(* A failed block of the active chain is on its way out.                   *)
FailuresLeave ==
    ~ SystemErrors =>
        \A x \in Active \cap Failed :
            \E t \in Thread : pc[t] = "invalidate" /\ target[t] \in Anc[x]

IInv ==
    /\ TypeOK
    /\ LockDiscipline
    /\ LinkedIffAllData
    /\ SeqIdsIssued
    /\ ActiveLinked
    /\ CandidatesSound
    /\ TargetSound
    /\ FailuresLeave

-----------------------------------------------------------------------------
(* What is inductive beside IInv, for MarksSound, BestReachable and         *)
(* QuiescentBest.                                                          *)

(* Blocks that were connected once.                                        *)
Connected == {b \in Block : level[b] = SCRIPTS} \union {Genesis}

(* nStatus says of a block what the rest of the index knows of it.         *)
StatusSound ==
    /\ \A b \in haveData : level[b] \in {TRANSACTIONS, SCRIPTS}
    /\ haveData \subseteq known
    /\ Failed \subseteq known /\ Genesis \notin Failed

ConnectedSound ==
    /\ Active \subseteq Connected
    /\ Connected \subseteq linked
    /\ \A b \in Connected : Anc[b] \subseteq Connected
    /\ \A b \in Connected \ {Genesis} : "ok" \in verdict[b]

(* What an operator invalidates is marked until it has left the chain.     *)
InvalidatingMarked ==
    \A t \in Thread : pc[t] = "invalidate" => target[t] \in failedValid /\ rpcs > 0

(* Only an operator's call puts a mark on a block of the active chain.     *)
UntouchedClean == rpcs = 0 => Active \cap Failed = {}

(* r sorts no lower than anything that is linked, not marked, and yet no   *)
(* candidate.                                                              *)
Covers(r) ==
    /\ r \in candidates /\ Eligible(r) /\ r \in Connected
    /\ \A x \in linked \ (Failed \union candidates) : ~ Worse(r, x)

(* Some block that was connected before covers what the candidates miss.   *)
BestCovered ==
    (rpcs = 0 \/ ~ SystemErrors) /\ (\A t \in Thread : pc[t] # "invalidate") =>
        \E r \in candidates : Covers(r)

(* A step works towards the best candidate there is.                       *)
TargetBest ==
    \A t \in Thread :
        /\ pc[t] \in {"step", "looptest"} => target[t] \in linked
        /\ pc[t] = "step" => \A c \in candidates : ~ Worse(target[t], c)

(* A thread that will not stop below the candidates of this moment.        *)
Pursues(t) ==
    \/ pc[t] \in {"activate", "step", "invalidate"}
    \/ pc[t] = "looptest" /\ \A c \in candidates : ~ Worse(target[t], c)

(* A candidate better than the tip has a thread that is on its way.        *)
BestPursued ==
    ~ SystemErrors /\ (\E c \in candidates : Worse(tip, c)) =>
        \E t \in Thread : Pursues(t)

MarksInv == StatusSound /\ ConnectedSound /\ InvalidatingMarked /\ UntouchedClean

PursuitInv == TargetBest /\ BestPursued

=============================================================================
