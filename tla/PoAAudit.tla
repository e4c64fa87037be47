------------------------------ MODULE PoAAudit ------------------------------
(***************************************************************************)
(* Proof-of-audit blocks (src/src/pow.cpp): each lists the proof-of-stake  *)
(* blocks that follow the last one its predecessor lists.  ConnectBlock    *)
(* finds them by CBlockIndex::pnext, which AddToBlockIndex sets to the     *)
(* child that was indexed last, on whatever branch; which a new entry does *)
(* not initialise (CBlockIndex::SetNull leaves it out); and which is not   *)
(* kept on disk (hashNext of CDiskBlockIndex is read and written, but      *)
(* never set).  So the verdict depends on what the node has heard of and   *)
(* in which order, and a refused block is refused for ever.                *)
(***************************************************************************)
EXTENDS BlockTree, Sequences

CONSTANTS
    PoA,          \* blocks with IsPoABlockByVersion
    Audits,       \* posBlocksAudited: a block with its true height and time
    LastPoW,      \* Params().LAST_POW_BLOCK()
    StartPoA,     \* Params().START_POA_BLOCK()
    MinAudited,   \* Params().MIN_NUM_POS_BLOCKS_AUDITED()
    NoBlock,
    Unset         \* a pointer that has never been assigned

(* CheckBlock refuses proof-of-audit blocks before StartPoA.               *)
ASSUME PoAAuditAssumption ==
    /\ PoA \subseteq Block
    /\ Audits \in [PoA -> Seq(Block)]
    /\ LastPoW \in Nat /\ StartPoA \in Nat /\ LastPoW <= StartPoA
    /\ MinAudited \in Nat \ {0}
    /\ \A b \in PoA : Height[b] > StartPoA
    /\ NoBlock \notin Block /\ Unset \notin Block \union {NoBlock}

VARIABLES
    known,     \* mapBlockIndex
    blank,     \* hashes that mapBlockIndex[...] has given a NULL entry
    pnext,     \* CBlockIndex::pnext
    tip,       \* chainActive.Tip()
    failed,    \* blocks marked BLOCK_FAILED_VALID
    indexed    \* history: blocks that were indexed before the node last started

auditVars == <<known, blank, pnext, tip, failed, indexed>>

Listed(b) == {Audits[b][i] : i \in DOMAIN Audits[b]}
LastAudited(b) == Audits[b][Len(Audits[b])]
Auditable(c) == c \notin PoA /\ Height[c] > LastPoW

AuditInit ==
    /\ known = {Genesis}
    /\ blank = {}
    /\ pnext = [b \in Block |-> Unset]
    /\ tip = Genesis
    /\ failed = {}
    /\ indexed = {Genesis}

-----------------------------------------------------------------------------
(* What ConnectBlock asks of a proof-of-audit block on top of the tip.     *)

(* Bug: the search for the previous one does not stop at the first found.  *)
PrevPoAOldest(b) ==
    LET earlier == PoA \cap Anc[Parent[b]]
    IN  IF earlier = {} THEN NoBlock
        ELSE CHOOSE p \in earlier : \A q \in earlier : Height[p] <= Height[q]

(* The proof-of-audit block before b: found by pprev, and the one          *)
(* hashPrevPoABlock names, or else the header is not accepted.             *)
PrevPoA(b) ==
    LET earlier == PoA \cap Anc[Parent[b]]
    IN  IF earlier = {} THEN NoBlock
        ELSE CHOOSE p \in earlier : \A q \in earlier : Height[q] <= Height[p]

(* Bug: pnext is all there is.                                             *)
SuccessorIndexed(a, u) == IF pnext[a] = Unset THEN u ELSE pnext[a]

(* The block after a, for the walk: pnext, and where that is NULL the      *)
(* active chain's.  u is what an unassigned pointer happens to be.         *)
Successor(a, u) ==
    LET next == IF pnext[a] = Unset THEN u ELSE pnext[a]
        above == {c \in Anc[tip] \ {Genesis} : Parent[c] = a}
    IN  IF next # NoBlock THEN next
        ELSE IF above # {} THEN CHOOSE c \in above : TRUE
        ELSE NoBlock

(* The blocks above a, up to c.                                            *)
Above(a, c) == Anc[c] \ Anc[a]

(* The walk from a comes to c: it goes from child to child, so it comes by *)
(* every block of c's chain in between, and by no other.                   *)
WalkReaches(a, c, u) ==
    a \in Anc[c] /\ \A x \in Above(a, c) : Successor(Parent[x], u) = x

(* The list names those of the blocks S that are to be audited, from the   *)
(* lowest up.                                                              *)
Lists(b, S) ==
    /\ Listed(b) = {c \in S : Auditable(c)}
    /\ \A i, j \in DOMAIN Audits[b] :
          i < j => Height[Audits[b][i]] < Height[Audits[b][j]]

(* CheckPoAContainRecentHash.  The first proof-of-audit block may list     *)
(* what it likes, as long as it is known.  The others list every           *)
(* proof-of-stake block of the walk up to the last they list, which must   *)
(* not be higher than the tip; the walk goes one block beyond that one.    *)
(* (Blocks that have been connected pass ReVerifyPoSBlock.  An empty list, *)
(* which passes, is refused by the next check.)                            *)
ContainsRecent(b, u) ==
    IF PrevPoA(b) = NoBlock THEN Listed(b) \subseteq known
    ELSE Audits[b] # << >> =>
            LET start == LastAudited(PrevPoA(b))
                last == LastAudited(b)
            IN  /\ WalkReaches(start, last, u)
                /\ Lists(b, Above(start, last))
                /\ Height[last] <= Height[Parent[b]]
                /\ Successor(last, u) # NoBlock

(* CheckPoABlockNotAuditingOverlap.                                        *)
NotAuditingOverlap(b) ==
    PrevPoA(b) # NoBlock => Listed(b) \cap Listed(PrevPoA(b)) = {}

(* An unassigned pointer may be NULL, or not; then it leads to no block    *)
(* that is listed.  (If it cannot be read at all, the node stops.)         *)
Garbage == {NoBlock, Unset}

(* CheckNumberOfAuditedPoSBlocks, CheckPoABlockNotContainingPoABlockInfo.  *)
AuditPasses(b, u) ==
    /\ NotAuditingOverlap(b)
    /\ ContainsRecent(b, u)
    /\ Len(Audits[b]) >= MinAudited
    /\ Listed(b) \subseteq known \ PoA

-----------------------------------------------------------------------------

(* A header or a block comes in: AcceptBlockHeader and AddToBlockIndex.    *)
AddToBlockIndex(b) ==
    /\ b \notin known \union blank
    /\ Parent[b] \in known \ failed
    /\ known' = known \union {b}
    /\ pnext' = [pnext EXCEPT ![Parent[b]] = b, ![b] = Unset]
    /\ UNCHANGED <<blank, tip, failed, indexed>>

(* A block with a NULL entry is refused once, and the entry erased.        *)
EraseBlank(b) ==
    /\ b \in blank
    /\ blank' = blank \ {b}
    /\ UNCHANGED <<known, pnext, tip, failed, indexed>>

ConnectTip(b) ==
    /\ b \in known \ (failed \union {Genesis})
    /\ Parent[b] = tip
    /\ b \in PoA => \E u \in Garbage : AuditPasses(b, u)
    /\ tip' = b
    /\ UNCHANGED <<known, blank, pnext, failed, indexed>>

(* InvalidBlockFound.  The search of a first proof-of-audit block stops at *)
(* the first hash it does not know, which has an entry from then on.       *)
RefuseBlock(b) ==
    /\ b \in (known \cap PoA) \ failed
    /\ Parent[b] = tip
    /\ \E u \in Garbage : ~ AuditPasses(b, u)
    /\ failed' = failed \union {b}
    /\ LET unknown == {i \in DOMAIN Audits[b] : Audits[b][i] \notin known}
           first == {i \in unknown : \A j \in unknown : i <= j}
       IN  blank' = IF PrevPoA(b) = NoBlock
                    THEN blank \union {Audits[b][i] : i \in first}
                    ELSE blank
    /\ UNCHANGED <<known, pnext, tip, indexed>>

(* A reorganisation, or a block another rule refuses.                      *)
DisconnectTip ==
    /\ tip # Genesis
    /\ tip' = Parent[tip]
    /\ UNCHANGED <<known, blank, pnext, failed, indexed>>

(* The node stops and starts: LoadBlockIndexGuts finds no hashNext.        *)
Restart ==
    /\ pnext' = [b \in Block |-> IF b \in known THEN NoBlock ELSE Unset]
    /\ blank' = {}
    /\ indexed' = known
    /\ UNCHANGED <<known, tip, failed>>

AuditNext ==
    \/ \E b \in Block \ {Genesis} :
          AddToBlockIndex(b) \/ EraseBlank(b) \/ ConnectTip(b) \/ RefuseBlock(b)
    \/ DisconnectTip
    \/ Restart

AuditSpec == AuditInit /\ [][AuditNext]_auditVars

-----------------------------------------------------------------------------
(* Properties.                                                             *)

(* GetListOfPoSInfo: the miner lists the blocks of b's own chain above the *)
(* last one audited, in order, up to as many as it wants.                  *)
AsMined(b) ==
    /\ Len(Audits[b]) >= MinAudited
    /\ Lists(b, {a \in Anc[Parent[b]] :
                    /\ Height[a] > Height[LastAudited(PrevPoA(b))]
                    /\ Height[a] <= Height[LastAudited(b)]})

(* No other branch is known to leave b's chain where b has to audit it.    *)
Undisputed(b) ==
    LET start == LastAudited(PrevPoA(b))
    IN  /\ start \in Anc[Parent[b]]
        /\ \A a \in Anc[Parent[b]] \ {Parent[b]} : Height[a] >= Height[start] =>
              \A c \in known \ {Genesis} : Parent[c] = a => c \in Anc[b]

(* The list of the first proof-of-audit block of the chain, which nobody   *)
(* checks, ends with its highest block.                                    *)
FirstEndsHighest ==
    \A b \in PoA \cap Anc[tip] : PrevPoA(b) = NoBlock =>
        \A a \in Listed(b) : Height[a] <= Height[LastAudited(b)]

(* "PoA block should contain only non-audited recent PoS blocks"           *)
(* (main.cpp:3009): as long as no fork is known among the blocks to be     *)
(* audited, a node accepts exactly the lists the miner makes, whatever     *)
(* reorganisations and restarts came before and whatever the pointers it   *)
(* never assigned hold; but for one that ends with the block right below,  *)
(* which is refused by a node that has indexed nothing above that block    *)
(* since it started.  (If the first list does not end with its highest,    *)
(* the miner goes on to list once more what the overlap check refuses.)    *)
DecisionExact ==
    FirstEndsHighest =>
    \A b \in known \cap PoA, u \in Garbage :
        Parent[b] = tip /\ PrevPoA(b) # NoBlock /\ Undisputed(b) =>
            (AuditPasses(b, u) <=>
                /\ AsMined(b)
                /\ LastAudited(b) = Parent[b] =>
                      \E c \in known \ indexed : Parent[c] = Parent[b])

(* No proof-of-stake block is audited, and paid for, twice in a chain,     *)
(* forks or not, although a block is only compared with its predecessor;   *)
(* if the list of the first ends with its highest.                         *)
AuditedOnce ==
    FirstEndsHighest =>
    \A b, c \in PoA \cap Anc[tip] : b # c => Listed(b) \cap Listed(c) = {}

(* What the proofs rest on: the index is closed under pprev; pnext is NULL *)
(* above what the node has loaded, unassigned above what it has no child   *)
(* of, and else a child indexed since the node started; and each           *)
(* proof-of-audit block of the chain but the first lists just what lies    *)
(* between the end of its predecessor's list and the end of its own.       *)
AuditTypeOK ==
    /\ known \subseteq Block /\ tip \in known
    /\ blank \subseteq Block /\ failed \subseteq known /\ indexed \subseteq known
    /\ pnext \in [Block -> Block \union {NoBlock, Unset}]

Children(a) == {c \in known \ {Genesis} : Parent[c] = a}

PnextSound ==
    \A a \in known :
        /\ pnext[a] \in Block => pnext[a] \in Children(a) \ indexed
        /\ pnext[a] = NoBlock => Children(a) \subseteq indexed
        /\ pnext[a] = Unset => Children(a) = {}

Resumes(b) ==
    /\ Len(Audits[b]) >= MinAudited
    /\ PrevPoA(b) # NoBlock =>
          LET start == LastAudited(PrevPoA(b))
              last == LastAudited(b)
          IN  start \in Anc[last] /\ Lists(b, Above(start, last))

AuditInv ==
    /\ AuditTypeOK
    /\ Genesis \in indexed /\ ClosedUnderParent(known)
    /\ PnextSound
    /\ \A b \in PoA \cap Anc[tip] : Resumes(b)
=============================================================================
