---------------------------- MODULE BlockDownload ----------------------------
(***************************************************************************)
(* Fetching blocks from peers (src/src/main.cpp): which block is asked of  *)
(* which peer, how a block that is in flight is given up or comes in, and  *)
(* when a peer that holds up the others is disconnected.  The message      *)
(* handler runs one handler at a time under cs_main; a peer is forgotten   *)
(* by the socket thread and blocks also come from this node's own threads. *)
(*                                                                         *)
(* ChainState has what a new block does to the index and to the chain;     *)
(* here it is one step, and time is left out: a timer may go off as soon   *)
(* as it runs.                                                             *)
(***************************************************************************)
EXTENDS BlockTree

CONSTANTS
    Peer,
    NoPeer,           \* a hash that mapBlocksInFlight does not hold
    NoBlock,          \* a NULL CBlockIndex pointer, or the null hash
    Preferred,        \* outbound or whitelisted peers
    Window,           \* BLOCK_DOWNLOAD_WINDOW
    MaxInTransit,     \* MAX_BLOCKS_IN_TRANSIT_PER_PEER
    Indexed,          \* blocks in mapBlockIndex when the first peer connects
    StoredAtStart,    \* what an import or a failed write left stored of them
    Acceptances,      \* Block -> SUBSET {"stored", "invalid", "rejected"}
    Announced,        \* Peer -> SUBSET Block: what each peer tells of
    MaxConnections    \* bound on the connections made

ASSUME BlockDownloadAssumption ==
    /\ IsFiniteSet(Peer) /\ NoPeer \notin Peer
    /\ NoBlock \notin Block
    /\ Preferred \subseteq Peer
    /\ Window \in Nat \ {0} /\ MaxInTransit \in Nat \ {0}
    /\ Indexed \subseteq Block /\ Genesis \in Indexed
    /\ ClosedUnderParent(Indexed)
    /\ \A S \in StoredAtStart : S \subseteq Indexed /\ Genesis \in S
    /\ Acceptances \in [Block -> SUBSET {"stored", "invalid", "rejected"}]
    /\ Announced \in [Peer -> SUBSET Block]
    /\ MaxConnections \in Nat

VARIABLES
    \* the block index and the active chain
    known,          \* blocks in mapBlockIndex
    haveData,       \* BLOCK_HAVE_DATA
    failed,         \* BLOCK_FAILED_VALID
    tip,            \* chainActive.Tip()
    \* mapNodeState and the CNodes
    connected,      \* peers with a CNodeState
    disconnect,     \* fDisconnect
    bestKnown,      \* pindexBestKnownBlock
    lastUnknown,    \* hashLastUnknownBlock
    lastCommon,     \* pindexLastCommonBlock
    blocksInFlight, \* vBlocksInFlight; its order matters to the timer only
    nInFlight,      \* nBlocksInFlight
    stalling,       \* nStallingSince # 0
    \* for all peers
    inFlight,       \* the peer that mapBlocksInFlight names for a hash
    nQueued,        \* nQueuedValidatedHeaders
    \* the network
    requests,       \* downloads asked of a peer that it has not answered
    connections     \* connections made so far

index     == <<known, haveData, failed, tip>>
announced == <<bestKnown, lastUnknown>>
download  == <<blocksInFlight, nInFlight, stalling, inFlight, nQueued>>
vars == <<index, connected, disconnect, announced, lastCommon, download,
          requests, connections>>

-----------------------------------------------------------------------------

(* nChainTx # 0: every block down to Genesis is stored.                    *)
Linked(b, stored) == Anc[b] \subseteq stored

(* The active chain after a block came in: ActivateBestChain leaves a tip  *)
(* that nothing stored and valid exceeds.                                  *)
BestTip(current, stored, bad) ==
    LET good == {b \in Block : Linked(b, stored) /\ Anc[b] \cap bad = {}}
    IN  CHOOSE b \in good :
           /\ \A x \in good : ChainWork[x] <= ChainWork[b]
           /\ (\A x \in good : ChainWork[x] <= ChainWork[current]) => b = current

Init ==
    /\ known = Indexed
    /\ haveData \in StoredAtStart
    /\ failed = {}
    /\ tip = BestTip(Genesis, haveData, {})
    /\ connected = {}
    /\ disconnect = [p \in Peer |-> FALSE]
    /\ bestKnown = [p \in Peer |-> NoBlock]
    /\ lastUnknown = [p \in Peer |-> NoBlock]
    /\ lastCommon = [p \in Peer |-> NoBlock]
    /\ blocksInFlight = [p \in Peer |-> {}]
    /\ nInFlight = [p \in Peer |-> 0]
    /\ stalling = [p \in Peer |-> FALSE]
    /\ inFlight = [b \in Block |-> NoPeer]
    /\ nQueued = 0
    /\ requests = {}
    /\ connections = 0

-----------------------------------------------------------------------------
(* Connections *)

(* The CNode of a new connection: InitializeNode.                          *)
Connect(p) ==
    /\ p \notin connected
    /\ connections < MaxConnections
    /\ connected' = connected \union {p}
    /\ connections' = connections + 1
    /\ UNCHANGED <<index, disconnect, announced, lastCommon, download, requests>>

(* The connection is lost, idle for too long, misbehaving or not wanted.   *)
Disconnect(p) ==
    /\ p \in connected /\ ~ disconnect[p]
    /\ disconnect' = [disconnect EXCEPT ![p] = TRUE]
    /\ UNCHANGED <<index, connected, announced, lastCommon, download, requests,
                   connections>>

(* Bug: the peer's blocks stay in mapBlocksInFlight.                       *)
FinalizeNodeKeeping(p) ==
    /\ p \in connected /\ disconnect[p]
    /\ connected' = connected \ {p}
    /\ disconnect' = [disconnect EXCEPT ![p] = FALSE]
    /\ bestKnown' = [bestKnown EXCEPT ![p] = NoBlock]
    /\ lastUnknown' = [lastUnknown EXCEPT ![p] = NoBlock]
    /\ lastCommon' = [lastCommon EXCEPT ![p] = NoBlock]
    /\ blocksInFlight' = [blocksInFlight EXCEPT ![p] = {}]
    /\ nInFlight' = [nInFlight EXCEPT ![p] = 0]
    /\ stalling' = [stalling EXCEPT ![p] = FALSE]
    /\ requests' = {r \in requests : r[1] # p}
    /\ UNCHANGED <<index, inFlight, nQueued, connections>>

(* The socket thread deletes the CNode: FinalizeNode forgets the peer and  *)
(* gives up its blocks, and leaves nQueuedValidatedHeaders as it is.       *)
FinalizeNode(p) ==
    /\ p \in connected /\ disconnect[p]
    /\ connected' = connected \ {p}
    /\ disconnect' = [disconnect EXCEPT ![p] = FALSE]
    /\ bestKnown' = [bestKnown EXCEPT ![p] = NoBlock]
    /\ lastUnknown' = [lastUnknown EXCEPT ![p] = NoBlock]
    /\ lastCommon' = [lastCommon EXCEPT ![p] = NoBlock]
    /\ blocksInFlight' = [blocksInFlight EXCEPT ![p] = {}]
    /\ nInFlight' = [nInFlight EXCEPT ![p] = 0]
    /\ stalling' = [stalling EXCEPT ![p] = FALSE]
    /\ inFlight' = [b \in Block |-> IF b \in blocksInFlight[p] THEN NoPeer ELSE inFlight[b]]
    /\ requests' = {r \in requests : r[1] # p}
    /\ UNCHANGED <<index, nQueued, connections>>

-----------------------------------------------------------------------------
(* Announcements *)

(* The later announcement wins a tie.                                      *)
Better(b, new) ==
    IF b = NoBlock \/ ChainWork[new] >= ChainWork[b] THEN new ELSE b

(* ProcessBlockAvailability: the unknown block that the peer announced may *)
(* have come in since.                                                     *)
Resolved(p) == lastUnknown[p] \in known
BestResolved(p) ==
    IF Resolved(p) THEN Better(bestKnown[p], lastUnknown[p]) ELSE bestKnown[p]
UnknownResolved(p) == IF Resolved(p) THEN NoBlock ELSE lastUnknown[p]

(* An inv message with block b: UpdateBlockAvailability.  The getdata it   *)
(* sends for a block that is not in the index is not recorded as a         *)
(* download: any peer may send any block at any time.                      *)
Announce(p, b) ==
    /\ p \in connected /\ ~ disconnect[p]
    /\ b \in Announced[p]
    /\ bestKnown' = [bestKnown EXCEPT ![p] =
          IF b \in known THEN Better(BestResolved(p), b) ELSE BestResolved(p)]
    /\ lastUnknown' = [lastUnknown EXCEPT ![p] =
          IF b \in known THEN UnknownResolved(p) ELSE b]
    /\ UNCHANGED <<index, connected, disconnect, lastCommon, download, requests,
                   connections>>

-----------------------------------------------------------------------------
(* Blocks that come in *)

(* Bug: the counter goes down for every block that comes in.               *)
MarkBlockAsReceivedCounting(b) ==
    LET p == inFlight[b]
    IN  IF p = NoPeer
        THEN nQueued' = nQueued - 1 /\ UNCHANGED <<blocksInFlight, nInFlight, stalling, inFlight>>
        ELSE /\ blocksInFlight' = [blocksInFlight EXCEPT ![p] = @ \ {b}]
             /\ nInFlight' = [nInFlight EXCEPT ![p] = @ - 1]
             /\ stalling' = [stalling EXCEPT ![p] = FALSE]
             /\ inFlight' = [inFlight EXCEPT ![b] = NoPeer]
             /\ nQueued' = nQueued - 1

(* Bug: the peer is still held for stalling.                               *)
MarkBlockAsReceivedStalling(b) ==
    LET p == inFlight[b]
    IN  IF p = NoPeer THEN UNCHANGED download
        ELSE /\ blocksInFlight' = [blocksInFlight EXCEPT ![p] = @ \ {b}]
             /\ nInFlight' = [nInFlight EXCEPT ![p] = @ - 1]
             /\ inFlight' = [inFlight EXCEPT ![b] = NoPeer]
             /\ nQueued' = nQueued - 1
             /\ UNCHANGED stalling

MarkBlockAsReceived(b) ==
    LET p == inFlight[b]
    IN  IF p = NoPeer THEN UNCHANGED download
        ELSE /\ blocksInFlight' = [blocksInFlight EXCEPT ![p] = @ \ {b}]
             /\ nInFlight' = [nInFlight EXCEPT ![p] = @ - 1]
             /\ stalling' = [stalling EXCEPT ![p] = FALSE]
             /\ inFlight' = [inFlight EXCEPT ![b] = NoPeer]
             /\ nQueued' = nQueued - 1

(* Under cs_main in ProcessNewBlock: b fails CheckBlock or CheckWork; or   *)
(* only its header is kept, because ContextualCheckBlock fails or the disk *)
(* does; or it is stored and the best chain activated.                     *)
AcceptBlock(b) ==
    \/ UNCHANGED index
    \/ /\ b \notin haveData
       /\ {b, Parent[b]} \cap failed = {}
       /\ known' = known \union {b}
       /\ \/ /\ "stored" \in Acceptances[b]
             /\ haveData' = haveData \union {b}
             /\ tip' = BestTip(tip, haveData', failed)
             /\ UNCHANGED failed
          \/ /\ "invalid" \in Acceptances[b]
             /\ failed' = failed \union {b}
             /\ UNCHANGED <<haveData, tip>>
          \/ /\ "rejected" \in Acceptances[b]
             /\ UNCHANGED <<haveData, failed, tip>>

(* A block message.  A block with an entry in the index is not looked at,  *)
(* and one whose parent is unknown or cannot be read is turned away.       *)
DeliverBlock(p, b) ==
    /\ p \in connected /\ ~ disconnect[p]
    /\ b # Genesis
    /\ requests' = requests \ {<<p, b>>}
    /\ IF b \notin known /\ Parent[b] \in known \cap haveData
       THEN MarkBlockAsReceived(b) /\ AcceptBlock(b)
       ELSE UNCHANGED <<index, download>>
    /\ UNCHANGED <<connected, disconnect, announced, lastCommon, connections>>

(* Bug: MarkBlockAsReceived is called for peers' blocks only.              *)
ProcessOwnBlockUnmarked(b) ==
    /\ b # Genesis
    /\ Parent[b] \in known
    /\ AcceptBlock(b)
    /\ UNCHANGED <<download, connected, disconnect, announced, lastCommon, requests,
                   connections>>

(* ProcessNewBlock without a peer: the miner, the staker, submitblock, and *)
(* ThreadImport, during which SendMessages asks for blocks all the same.   *)
ProcessOwnBlock(b) ==
    /\ b # Genesis
    /\ Parent[b] \in known
    /\ MarkBlockAsReceived(b)
    /\ AcceptBlock(b)
    /\ UNCHANGED <<connected, disconnect, announced, lastCommon, requests, connections>>

-----------------------------------------------------------------------------
(* Requests: FindNextBlocksToDownload *)

Highest(S) == CHOOSE b \in S : \A x \in S : Height[x] <= Height[b]

LastCommonAncestor(a, b) == Highest(Anc[a] \cap Anc[b])

Interesting(p) ==
    BestResolved(p) # NoBlock /\ ChainWork[BestResolved(p)] >= ChainWork[tip]

(* The block from which p's chain is searched: at first the active chain's *)
(* block at the height of p's best.                                        *)
Common(p) ==
    LET best == BestResolved(p)
        from == IF lastCommon[p] # NoBlock THEN lastCommon[p]
                ELSE Highest({x \in Anc[tip] : Height[x] <= Height[best]})
    IN  LastCommonAncestor(from, best)

WindowEnd(p) == Height[Common(p)] + Window

(* The blocks the search looks at: one further than the window, so that a  *)
(* stall is noticed, and none from a failed block on.                      *)
Searched(p) ==
    {x \in Anc[BestResolved(p)] :
        /\ Height[Common(p)] < Height[x] /\ Height[x] <= WindowEnd(p) + 1
        /\ \A y \in Anc[x] : Height[Common(p)] < Height[y] => y \notin failed}

Missing(p) == Searched(p) \ haveData
Wanted(p) == {x \in Missing(p) : inFlight[x] = NoPeer}
WantedInWindow(p) == {x \in Wanted(p) : Height[x] <= WindowEnd(p)}

(* Bug: one block more than there is room for.                             *)
ToDownloadOneMore(p) ==
    {x \in WantedInWindow(p) :
        nInFlight[p] + Cardinality({y \in WantedInWindow(p) : Height[y] < Height[x]})
            <= MaxInTransit}

(* The lowest ones, as many as there is room for.                          *)
ToDownload(p) ==
    {x \in WantedInWindow(p) :
        nInFlight[p] + Cardinality({y \in WantedInWindow(p) : Height[y] < Height[x]})
            < MaxInTransit}

(* Bug: blocks above a missing one count as common.                        *)
CommonAfterSkipping(p) == Highest({Common(p)} \union (Searched(p) \cap haveData))

(* pindexLastCommonBlock moves up to the last linked block.                *)
CommonAfter(p) ==
    Highest({Common(p)} \union {x \in Searched(p) : Linked(x, haveData)})

(* Nothing can be fetched because the window is full: the peer that the    *)
(* lowest missing block was asked of.                                      *)
Staller(p) ==
    LET awaited == {x \in Missing(p) : inFlight[x] # NoPeer}
    IN  IF WantedInWindow(p) # {} \/ Wanted(p) = {} \/ awaited = {} THEN NoPeer
        ELSE inFlight[CHOOSE x \in awaited : \A y \in awaited : Height[x] <= Height[y]]

(* fFetch: nice peers first, others while there are none.                  *)
MayFetch(p) == p \in Preferred \/ connected \cap Preferred = {}

(* The end of SendMessages when the peer has something interesting:        *)
(* MarkBlockAsInFlight for every block to download, and the staller's      *)
(* clock starts if this peer is left idle.                                 *)
RequestBlocks(p) ==
    LET blocks == ToDownload(p)
        staller == Staller(p)
    IN  /\ p \in connected /\ ~ disconnect[p]
        /\ MayFetch(p) /\ nInFlight[p] < MaxInTransit
        /\ Interesting(p)
        /\ bestKnown' = [bestKnown EXCEPT ![p] = BestResolved(p)]
        /\ lastUnknown' = [lastUnknown EXCEPT ![p] = UnknownResolved(p)]
        /\ lastCommon' = [lastCommon EXCEPT ![p] = CommonAfter(p)]
        /\ blocksInFlight' = [blocksInFlight EXCEPT ![p] = @ \union blocks]
        /\ nInFlight' = [nInFlight EXCEPT ![p] = @ + Cardinality(blocks)]
        /\ inFlight' = [b \in Block |-> IF b \in blocks THEN p ELSE inFlight[b]]
        /\ nQueued' = nQueued + Cardinality(blocks)
        /\ requests' = requests \union ({p} \X blocks)
        /\ stalling' = IF staller \notin {NoPeer, p} /\ nInFlight'[p] = 0
                       THEN [stalling EXCEPT ![staller] = TRUE] ELSE stalling
        /\ UNCHANGED <<index, connected, disconnect, connections>>

(* The end of SendMessages when it has not: only ProcessBlockAvailability. *)
NothingInteresting(p) ==
    /\ p \in connected /\ ~ disconnect[p]
    /\ MayFetch(p) /\ nInFlight[p] < MaxInTransit
    /\ ~ Interesting(p)
    /\ bestKnown' = [bestKnown EXCEPT ![p] = BestResolved(p)]
    /\ lastUnknown' = [lastUnknown EXCEPT ![p] = UnknownResolved(p)]
    /\ UNCHANGED <<index, connected, disconnect, lastCommon, download, requests,
                   connections>>

(* SendMessages: the peer has stalled the others, or has not delivered the *)
(* first of its blocks, for too long.                                      *)
TimeOut(p) ==
    /\ p \in connected /\ ~ disconnect[p]
    /\ stalling[p] \/ blocksInFlight[p] # {}
    /\ disconnect' = [disconnect EXCEPT ![p] = TRUE]
    /\ UNCHANGED <<index, connected, announced, lastCommon, download, requests,
                   connections>>

Next ==
    \/ \E p \in Peer :
          \/ Connect(p) \/ Disconnect(p) \/ FinalizeNode(p)
          \/ RequestBlocks(p) \/ NothingInteresting(p) \/ TimeOut(p)
          \/ \E b \in Block : Announce(p, b) \/ DeliverBlock(p, b)
    \/ \E b \in Block : ProcessOwnBlock(b)

Spec == Init /\ [][Next]_vars

(* The message handler comes back to every peer, time passes, and the      *)
(* socket thread deletes what is disconnected; nothing is asked of the     *)
(* peers.                                                                  *)
FairSpec == Spec /\ \A p \in Peer : WF_vars(TimeOut(p)) /\ WF_vars(FinalizeNode(p))

-----------------------------------------------------------------------------
(* Properties *)

(* Types of the variables.                                                 *)
TypeOK ==
    /\ known \subseteq Block /\ haveData \subseteq known /\ failed \subseteq known
    /\ tip \in Block
    /\ connected \subseteq Peer
    /\ disconnect \in [Peer -> BOOLEAN] /\ stalling \in [Peer -> BOOLEAN]
    /\ bestKnown \in [Peer -> known \union {NoBlock}]
    /\ lastUnknown \in [Peer -> Block \union {NoBlock}]
    /\ lastCommon \in [Peer -> known \union {NoBlock}]
    /\ blocksInFlight \in [Peer -> SUBSET known]
    /\ nInFlight \in [Peer -> Nat]
    /\ inFlight \in [Block -> Peer \union {NoPeer}]
    /\ nQueued \in Nat
    /\ requests \subseteq Peer \X Block
    /\ connections \in Nat

Downloading == {b \in Block : inFlight[b] # NoPeer}

(* mapBlocksInFlight, the peers' lists and their counters agree, and name  *)
(* only peers that State() still finds: MarkBlockAsReceived and the        *)
(* marking of a staller dereference what it returns.                       *)
InFlightConsistent ==
    /\ \A p \in Peer :
          /\ blocksInFlight[p] = {b \in Block : inFlight[b] = p}
          /\ nInFlight[p] = Cardinality(blocksInFlight[p])
    /\ \A b \in Downloading : inFlight[b] \in connected

(* A block that is stored is not in flight, whichever thread brought it:   *)
(* ProcessNewBlock releases the download before it stores the block.       *)
NothingStoredInFlight == Downloading \cap haveData = {}

(* Only a peer that still owes a block can be disconnected for stalling:   *)
(* every block that comes in stops its owner's clock.                      *)
StallersOwe == \A p \in Peer : stalling[p] => blocksInFlight[p] # {}

(* "The last full block we both have" (main.cpp:799): the search never     *)
(* moves past a hole, so no block below the common one is left unasked.    *)
LastCommonFull ==
    \A p \in Peer : lastCommon[p] # NoBlock => Linked(lastCommon[p], haveData)

(* "Number of blocks that can be requested at any given time from a single *)
(* peer" (main.h:95), and none further ahead than the window.              *)
TransitBounded ==
    /\ \A p \in Peer : nInFlight[p] <= MaxInTransit
    /\ \A b \in Downloading :
          \E x \in Anc[b] : Linked(x, haveData) /\ Height[b] <= Height[x] + Window

(* nQueuedValidatedHeaders never falls below the blocks in flight, which   *)
(* the next download's timeout is computed from.  It is not their number:  *)
(* FinalizeNode does not take a peer's blocks off it.                      *)
QueuedNeverLess == nQueued >= Cardinality(Downloading)

(* The books of the download, which two message handlers, the socket       *)
(* thread and block producers keep together.                               *)
DownloadsConsistent == InFlightConsistent /\ NothingStoredInFlight /\ QueuedNeverLess

(* A peer that does not answer cannot keep a block for ever: the timeout   *)
(* and FinalizeNode give it up for others to be asked.                     *)
SlotReleased ==
    \A p \in Peer, b \in Block : inFlight[b] = p ~> inFlight[b] # p

(* "Blocks that are in flight, and that are in the queue to be downloaded" *)
(* (main.cpp:164): the peer that is waited for has not sent the block.     *)
InFlightAwaited == \A b \in Downloading : <<inFlight[b], b>> \in requests

=============================================================================
