------------------------- MODULE BlockDownloadProofs -------------------------
(* Proofs about BlockDownload: the map of blocks in flight, the peers'      *)
(* lists and their counters agree and stay within their limits, for every   *)
(* set of peers, every tree of blocks and every window.                     *)
EXTENDS BlockDownload, BlockTreeTheorems

USE BlockTreeAssumption, BlockDownloadAssumption

(* The index is closed under pprev, and the active chain is stored and good. *)
IndexClosed ==
    /\ Genesis \in haveData
    /\ ClosedUnderParent(known)
    /\ haveData \cap failed = {}
    /\ Linked(tip, haveData)

IInv ==
    /\ TypeOK
    /\ IndexClosed
    /\ InFlightConsistent
    /\ NothingStoredInFlight
    /\ StallersOwe
    /\ LastCommonFull
    /\ TransitBounded
    /\ QueuedNeverLess

-----------------------------------------------------------------------------
(* Choosing a block                                                         *)

(* What CHOOSE finds in Highest.                                            *)
LEMMA HighestExists ==
  ASSUME NEW S \in SUBSET Block, S # {}
  PROVE  Highest(S) \in S
<1>1. \E b \in S : \A x \in S : Height[x] <= Height[b]
  BY MaxExists
<1>2. QED
  BY <1>1 DEF Highest

(* ActivateBestChain leaves a tip all of whose ancestors are stored.        *)
LEMMA BestTipLinked ==
  ASSUME NEW current \in Block, NEW stored \in SUBSET Block, NEW bad \in SUBSET Block,
         Linked(current, stored), stored \cap bad = {}
  PROVE  /\ BestTip(current, stored, bad) \in Block
         /\ Linked(BestTip(current, stored, bad), stored)
<1> DEFINE good == {b \in Block : Linked(b, stored) /\ Anc[b] \cap bad = {}}
           Fits(b) == /\ \A x \in good : ChainWork[x] <= ChainWork[b]
                      /\ (\A x \in good : ChainWork[x] <= ChainWork[current]) => b = current
<1>1. current \in good
  BY DEF Linked
<1>2. \E b \in good : \A x \in good : ChainWork[x] <= ChainWork[b]
  <2> HIDE DEF good
  <2>1. good \in SUBSET Block
    BY DEF good
  <2>2. QED
    BY <1>1, <2>1, MaxExists
<1>3. \E b \in good : Fits(b)
  <2>1. CASE \A x \in good : ChainWork[x] <= ChainWork[current]
    BY <1>1, <2>1
  <2>2. CASE ~ \A x \in good : ChainWork[x] <= ChainWork[current]
    BY <1>2, <2>2
  <2>3. QED
    BY <2>1, <2>2
<1>4. BestTip(current, stored, bad) = CHOOSE b \in good : Fits(b)
  BY DEF BestTip
<1>5. BestTip(current, stored, bad) \in good
  <2> HIDE DEF good, Fits
  <2>1. QED
    BY <1>3, <1>4
<1>6. QED
  BY <1>5

-----------------------------------------------------------------------------
(* The search                                                               *)

(* A block that has come in resolves to an indexed one.                     *)
LEMMA BestKnownTyped ==
  ASSUME TypeOK, NEW p \in Peer
  PROVE  /\ BestResolved(p) \in known \union {NoBlock}
         /\ UnknownResolved(p) \in Block \union {NoBlock}
BY DEF TypeOK, BestResolved, UnknownResolved, Resolved, Better

(* Storing more blocks unlinks none.                                        *)
LEMMA LinkedGrows ==
  ASSUME NEW S, NEW T, S \subseteq T, NEW b \in Block, Linked(b, S)
  PROVE  Linked(b, T)
BY DEF Linked

LEMMA LinkedAncestor ==
  ASSUME NEW S, NEW b \in Block, Linked(b, S), NEW a \in Anc[b]
  PROVE  a \in Block /\ Linked(a, S) /\ a \in S
BY AncSelf, AncTransitive DEF Linked

(* The search for p starts from a stored block of p's best chain.           *)
LEMMA CommonLinked ==
  ASSUME IInv, NEW p \in Peer, Interesting(p)
  PROVE  /\ Common(p) \in Block
         /\ Common(p) \in Anc[BestResolved(p)]
         /\ Linked(Common(p), haveData)
<1> DEFINE best == BestResolved(p)
           low == {x \in Anc[tip] : Height[x] <= Height[best]}
           from == IF lastCommon[p] # NoBlock THEN lastCommon[p] ELSE Highest(low)
<1>1. best \in known /\ best \in Block /\ tip \in Block /\ TypeOK
  BY BestKnownTyped DEF IInv, TypeOK, Interesting
<1>2. from \in Block /\ Linked(from, haveData)
  <2>1. CASE lastCommon[p] # NoBlock
    BY <2>1, <1>1 DEF IInv, TypeOK, LastCommonFull
  <2>2. CASE lastCommon[p] = NoBlock
    <3>1. Genesis \in low
      <4>1. Height[best] \in Nat
        BY <1>1
      <4>2. Genesis \in Anc[tip]
        BY <1>1, AncRoot
      <4>3. QED
        BY <4>1, <4>2
    <3>2. low \in SUBSET Block
      BY <1>1, AncSelf
    <3>3. Highest(low) \in low
      <4> HIDE DEF low
      <4>1. QED
        BY <3>1, <3>2, HighestExists
    <3>4. Highest(low) \in Anc[tip] /\ Linked(tip, haveData)
      BY <3>3 DEF IInv, IndexClosed
    <3>5. Linked(Highest(low), haveData) /\ Highest(low) \in Block
      <4> HIDE DEF low
      <4>1. QED
        BY <1>1, <3>4, LinkedAncestor
    <3>6. QED
      BY <2>2, <3>5
  <2>3. QED
    BY <2>1, <2>2
<1>3. LastCommonAncestor(from, best) \in Anc[from] \cap Anc[best]
  <2>1. Genesis \in Anc[from] \cap Anc[best]
    BY <1>1, <1>2, AncRoot
  <2>2. Anc[from] \cap Anc[best] \in SUBSET Block
    BY <1>1, AncSelf
  <2>3. Highest(Anc[from] \cap Anc[best]) \in Anc[from] \cap Anc[best]
    <3> DEFINE common == Anc[from] \cap Anc[best]
    <3>1. common \in SUBSET Block /\ common # {}
      BY <2>1, <2>2
    <3>2. Highest(common) \in common
      <4> HIDE DEF common
      <4>1. QED
        BY <3>1, HighestExists
    <3>3. QED
      BY <3>2
  <2>4. QED
    BY <2>3 DEF LastCommonAncestor
<1>4. Common(p) = LastCommonAncestor(from, best)
  BY DEF Common
<1>5. QED
  <2> HIDE DEF from, best
  <2>1. Common(p) \in Anc[from] /\ Common(p) \in Anc[best]
    BY <1>3, <1>4
  <2>2. Common(p) \in Block /\ Linked(Common(p), haveData)
    BY <1>2, <2>1, LinkedAncestor
  <2>3. QED
    BY <2>1, <2>2 DEF best

(* What the search looks at: indexed blocks of one branch, above the block  *)
(* it starts from and told apart by their heights.                          *)
LEMMA SearchedBranch ==
  ASSUME IInv, NEW p \in Peer, Interesting(p)
  PROVE  /\ Searched(p) \subseteq known
         /\ \A x \in Searched(p) :
               x \in Block /\ Common(p) \in Anc[x] /\ Height[x] \in Nat
         /\ \A x, y \in Searched(p) : Height[x] = Height[y] => x = y
<1> DEFINE best == BestResolved(p)
<1>1. best \in known /\ known \subseteq Block /\ ClosedUnderParent(known)
  BY BestKnownTyped DEF IInv, TypeOK, Interesting, IndexClosed
<1>2. Anc[best] \subseteq known
  BY <1>1, AncLeast
<1>3. Searched(p) \subseteq Anc[best]
  BY DEF Searched
<1>4. ASSUME NEW x \in Searched(p)
      PROVE  x \in Block /\ Common(p) \in Anc[x] /\ Height[x] \in Nat
  <2>1. x \in Block /\ x \in Anc[best] /\ Height[Common(p)] < Height[x]
    BY <1>1, <1>2, <1>3 DEF Searched
  <2>2. Common(p) \in Block /\ Common(p) \in Anc[best]
    BY CommonLinked
  <2>3. x \in Anc[Common(p)] \/ Common(p) \in Anc[x]
    BY <1>1, <2>1, <2>2, AncComparable
  <2>4. ~ (x \in Anc[Common(p)])
    <3>1. Height[Common(p)] \in Nat /\ Height[x] \in Nat
      BY <2>1, <2>2
    <3>2. QED
      BY <2>1, <2>2, <3>1, AncLower
  <2>5. QED
    BY <2>1, <2>3, <2>4
<1>5. ASSUME NEW x \in Searched(p), NEW y \in Searched(p), Height[x] = Height[y], x # y
      PROVE  FALSE
  <2>1. x \in Anc[best] /\ y \in Anc[best] /\ best \in Block
    BY <1>1, <1>3
  <2>2. x \in Anc[y] \/ y \in Anc[x]
    BY <2>1, AncComparable
  <2>3. x \in Block /\ y \in Block /\ Height[x] \in Nat /\ Height[y] \in Nat
    BY <1>4
  <2>4. QED
    BY <1>5, <2>2, <2>3, AncLower
<1>6. QED
  BY <1>2, <1>3, <1>4, <1>5

(* pindexLastCommonBlock stays a block that is stored with all below it.    *)
LEMMA CommonAfterLinked ==
  ASSUME IInv, NEW p \in Peer, Interesting(p)
  PROVE  CommonAfter(p) \in Block /\ Linked(CommonAfter(p), haveData)
<1> DEFINE S == {Common(p)} \union {x \in Searched(p) : Linked(x, haveData)}
<1>1. S \in SUBSET Block /\ \A x \in S : Linked(x, haveData)
  BY CommonLinked, SearchedBranch
<1>2. Highest(S) \in S
  <2>1. S # {}
    OBVIOUS
  <2> HIDE DEF S
  <2>2. QED
    BY <1>1, <2>1, HighestExists
<1>3. CommonAfter(p) \in S
  BY <1>2 DEF CommonAfter
<1>4. QED
  BY <1>1, <1>3

(* The search returns no more blocks than there is room for, all of them    *)
(* missing, asked of nobody and within the window.                          *)
LEMMA DownloadsFit ==
  ASSUME IInv, NEW p \in Peer, Interesting(p), nInFlight[p] < MaxInTransit
  PROVE  /\ ToDownload(p) \subseteq known \ haveData
         /\ IsFiniteSet(ToDownload(p)) /\ Cardinality(ToDownload(p)) \in Nat
         /\ nInFlight[p] + Cardinality(ToDownload(p)) <= MaxInTransit
         /\ \A x \in ToDownload(p) :
               /\ x \in Block /\ inFlight[x] = NoPeer
               /\ Common(p) \in Anc[x] /\ Height[x] <= Height[Common(p)] + Window
<1> DEFINE S == WantedInWindow(p)
           D == ToDownload(p)
           Below(x) == {y \in S : Height[y] < Height[x]}
<1>1. nInFlight[p] \in Nat /\ MaxInTransit \in Nat /\ known \subseteq Block
  BY DEF IInv, TypeOK
<1>2. S \subseteq Searched(p) \ haveData /\ S \subseteq known /\ S \in SUBSET Block
  BY <1>1, SearchedBranch DEF WantedInWindow, Wanted, Missing
<1>3. IsFiniteSet(S)
  BY <1>2, FS_Subset
<1>4. D \in SUBSET S /\ \A x \in D : nInFlight[p] + Cardinality(Below(x)) < MaxInTransit
  BY DEF ToDownload
<1>5. IsFiniteSet(D) /\ Cardinality(D) \in Nat
  BY <1>3, <1>4, FS_Subset, FS_CardinalityType
<1>6. nInFlight[p] + Cardinality(D) <= MaxInTransit
  <2>1. CASE D = {}
    BY <1>1, <2>1, FS_EmptySet
  <2>2. CASE D # {}
    <3> HIDE DEF D, S, Below
    <3>1. D \in SUBSET Block
      BY <1>2, <1>4
    <3>2. PICK x \in D : \A y \in D : Height[y] <= Height[x]
      BY <2>2, <3>1, MaxExists
    <3>3. D \subseteq Below(x) \union {x}
      <4>1. ASSUME NEW y \in D, y # x PROVE Height[y] < Height[x]
        <5>1. y \in Searched(p) /\ x \in Searched(p)
          BY <1>2, <1>4
        <5>2. Height[y] \in Nat /\ Height[x] \in Nat /\ Height[y] # Height[x]
          BY <4>1, <5>1, SearchedBranch
        <5>3. QED
          BY <3>2, <5>2
      <4>2. QED
        BY <1>4, <4>1 DEF Below
    <3>4. IsFiniteSet(Below(x)) /\ Cardinality(Below(x)) \in Nat
      BY <1>3, FS_Subset, FS_CardinalityType DEF Below
    <3>5. /\ IsFiniteSet(Below(x) \union {x})
          /\ Cardinality(Below(x) \union {x}) <= Cardinality(Below(x)) + 1
      <4>1. /\ IsFiniteSet(Below(x) \union {x})
            /\ Cardinality(Below(x) \union {x}) =
                  IF x \in Below(x) THEN Cardinality(Below(x)) ELSE Cardinality(Below(x)) + 1
        BY <3>4, FS_AddElement
      <4>2. QED
        BY <3>4, <4>1
    <3>6. Cardinality(D) <= Cardinality(Below(x) \union {x})
      BY <3>3, <3>5, FS_Subset
    <3>7. Cardinality(Below(x) \union {x}) \in Nat
      BY <3>5, FS_CardinalityType
    <3>8. QED
      BY <1>1, <1>4, <1>5, <3>4, <3>5, <3>6, <3>7
  <2>3. QED
    BY <2>1, <2>2
<1>7. ASSUME NEW x \in D
      PROVE  /\ x \in Block /\ inFlight[x] = NoPeer
             /\ Common(p) \in Anc[x] /\ Height[x] <= Height[Common(p)] + Window
  <2>1. x \in WantedInWindow(p) /\ x \in Searched(p)
    BY <1>2, <1>4
  <2>2. inFlight[x] = NoPeer /\ Height[x] <= Height[Common(p)] + Window
    BY <2>1 DEF WantedInWindow, Wanted, WindowEnd
  <2>3. QED
    BY <2>1, <2>2, SearchedBranch
<1>8. D \subseteq known \ haveData
  BY <1>2, <1>4
<1>9. QED
  BY <1>5, <1>6, <1>7, <1>8

(* The peer that is held for stalling has a block in flight.                *)
LEMMA StallerIsAwaited ==
  ASSUME IInv, NEW p \in Peer, Interesting(p), Staller(p) # NoPeer
  PROVE  Staller(p) \in Peer /\ blocksInFlight[Staller(p)] # {}
<1> DEFINE awaited == {x \in Missing(p) : inFlight[x] # NoPeer}
           Lowest(x) == \A y \in awaited : Height[x] <= Height[y]
<1>1. awaited # {}
  BY DEF Staller
<1>2. Staller(p) = inFlight[CHOOSE x \in awaited : Lowest(x)]
  BY DEF Staller
<1>3. awaited \in SUBSET Block /\ \A x \in awaited : Height[x] \in Nat
  BY SearchedBranch DEF Missing
<1>4. \E x \in awaited : Lowest(x)
  <2> HIDE DEF awaited
  <2>1. QED
    BY <1>1, <1>3, LowestExists
<1>5. PICK x \in awaited : Staller(p) = inFlight[x]
  <2> HIDE DEF awaited, Lowest
  <2>1. QED
    BY <1>2, <1>4
<1>6. x \in Block /\ inFlight[x] # NoPeer
  BY <1>3
<1>7. inFlight[x] \in Peer
  BY <1>6 DEF IInv, TypeOK
<1>8. QED
  BY <1>5, <1>6, <1>7 DEF IInv, InFlightConsistent

-----------------------------------------------------------------------------
(* The invariant holds initially and is kept by every action                *)

LEMMA InitInv == Init => IInv
<1> SUFFICES ASSUME Init PROVE IInv
  OBVIOUS
<1> USE DEF Init
<1>1. /\ haveData \subseteq Indexed /\ Genesis \in haveData
      /\ Indexed \in SUBSET Block /\ haveData \in SUBSET Block
  OBVIOUS
<1>2. tip \in Block /\ Linked(tip, haveData)
  <2>1. Linked(Genesis, haveData)
    BY <1>1, AncGenesis DEF Linked
  <2>2. QED
    BY <1>1, <2>1, BestTipLinked
<1>3. Downloading = {}
  BY DEF Downloading
<1>4. Cardinality({}) = 0
  BY FS_EmptySet
<1>5. TypeOK
  BY <1>1, <1>2 DEF TypeOK
<1>6. IndexClosed
  BY <1>1, <1>2 DEF IndexClosed
<1>7. InFlightConsistent
  BY <1>3, <1>4 DEF InFlightConsistent
<1>8. NothingStoredInFlight /\ StallersOwe /\ LastCommonFull /\ QueuedNeverLess
  BY <1>3, <1>4 DEF NothingStoredInFlight, StallersOwe, LastCommonFull, QueuedNeverLess
<1>9. TransitBounded
  BY <1>3 DEF TransitBounded
<1>10. QED
  BY <1>5, <1>6, <1>7, <1>8, <1>9 DEF IInv

(* Steps that leave index and downloads alone and forget no peer.           *)
LEMMA QuietStep ==
  ASSUME IInv, TypeOK', UNCHANGED <<index, lastCommon, download>>,
         connected \subseteq connected'
  PROVE  IInv'
<1> USE DEF IInv, index, download
<1>1. Downloading' = Downloading
  BY DEF Downloading
<1>2. IndexClosed'
  BY DEF IndexClosed, Linked
<1>3. InFlightConsistent'
  BY <1>1 DEF InFlightConsistent
<1>4. NothingStoredInFlight' /\ StallersOwe' /\ LastCommonFull' /\ QueuedNeverLess'
  BY <1>1 DEF NothingStoredInFlight, StallersOwe, LastCommonFull, QueuedNeverLess, Linked
<1>5. TransitBounded'
  BY <1>1 DEF TransitBounded, Linked
<1>6. QED
  BY <1>2, <1>3, <1>4, <1>5

LEMMA ConnectKeeps == ASSUME IInv, NEW p \in Peer, Connect(p) PROVE IInv'
<1>1. TypeOK
  BY DEF IInv
<1>2. TypeOK'
  BY <1>1 DEF Connect, TypeOK, index, announced, download
<1>3. QED
  BY <1>2, QuietStep DEF Connect

LEMMA DisconnectKeeps == ASSUME IInv, NEW p \in Peer, Disconnect(p) PROVE IInv'
<1>1. TypeOK
  BY DEF IInv
<1>2. TypeOK'
  BY <1>1 DEF Disconnect, TypeOK, index, announced, download
<1>3. QED
  BY <1>2, QuietStep DEF Disconnect

LEMMA TimeOutKeeps == ASSUME IInv, NEW p \in Peer, TimeOut(p) PROVE IInv'
<1>1. TypeOK
  BY DEF IInv
<1>2. TypeOK'
  BY <1>1 DEF TimeOut, TypeOK, index, announced, download
<1>3. QED
  BY <1>2, QuietStep DEF TimeOut

LEMMA AnnounceKeeps ==
  ASSUME IInv, NEW p \in Peer, NEW b \in Block, Announce(p, b) PROVE IInv'
<1>1. TypeOK
  BY DEF IInv
<1>2. /\ bestKnown' \in [Peer -> known \union {NoBlock}]
      /\ lastUnknown' \in [Peer -> Block \union {NoBlock}]
  BY <1>1, BestKnownTyped DEF TypeOK, Announce, Better
<1>3. TypeOK'
  BY <1>1, <1>2 DEF Announce, TypeOK, index, download
<1>4. QED
  BY <1>3, QuietStep DEF Announce

LEMMA NothingInterestingKeeps ==
  ASSUME IInv, NEW p \in Peer, NothingInteresting(p) PROVE IInv'
<1>1. TypeOK
  BY DEF IInv
<1>2. /\ bestKnown' \in [Peer -> known \union {NoBlock}]
      /\ lastUnknown' \in [Peer -> Block \union {NoBlock}]
  BY <1>1, BestKnownTyped DEF TypeOK, NothingInteresting
<1>3. TypeOK'
  BY <1>1, <1>2 DEF NothingInteresting, TypeOK, index, download
<1>4. QED
  BY <1>3, QuietStep DEF NothingInteresting

(* FinalizeNode: a forgotten peer leaves no block in flight behind.         *)
LEMMA FinalizeNodeKeeps ==
  ASSUME IInv, NEW p \in Peer, FinalizeNode(p) PROVE IInv'
<1> USE DEF IInv, FinalizeNode
<1>1. TypeOK'
  BY DEF TypeOK, index
<1>2. IndexClosed'
  BY DEF IndexClosed, Linked, index
<1>3. \A b \in Block : inFlight'[b] = IF inFlight[b] = p THEN NoPeer ELSE inFlight[b]
  BY DEF InFlightConsistent
<1>4. Downloading' = Downloading \ blocksInFlight[p] /\ Downloading \in SUBSET Block
  BY <1>3 DEF Downloading, InFlightConsistent
<1>5. InFlightConsistent'
  <2>1. ASSUME NEW q \in Peer
        PROVE  /\ blocksInFlight'[q] = {b \in Block : inFlight'[b] = q}
               /\ nInFlight'[q] = Cardinality(blocksInFlight'[q])
    <3>1. CASE q = p
      <4>1. blocksInFlight'[q] = {} /\ nInFlight'[q] = 0
        BY <3>1 DEF TypeOK
      <4>2. \A b \in Block : inFlight'[b] # q
        BY <1>3, <3>1
      <4>3. QED
        BY <4>1, <4>2, FS_EmptySet
    <3>2. CASE q # p
      <4>1. blocksInFlight'[q] = blocksInFlight[q] /\ nInFlight'[q] = nInFlight[q]
        BY <3>2 DEF TypeOK
      <4>2. \A b \in Block : inFlight'[b] = q <=> inFlight[b] = q
        BY <1>3, <3>2
      <4>3. QED
        BY <4>1, <4>2 DEF InFlightConsistent
    <3>3. QED
      BY <3>1, <3>2
  <2>2. ASSUME NEW b \in Downloading' PROVE inFlight'[b] \in connected'
    BY <1>3 DEF Downloading, InFlightConsistent
  <2>3. QED
    BY <2>1, <2>2 DEF InFlightConsistent
<1>6. NothingStoredInFlight'
  BY <1>4 DEF NothingStoredInFlight, index
<1>7. StallersOwe' /\ LastCommonFull'
  BY DEF TypeOK, StallersOwe, LastCommonFull, Linked, index
<1>8. TransitBounded'
  <2>1. \A q \in Peer : nInFlight'[q] <= MaxInTransit
    BY DEF TypeOK, TransitBounded
  <2>2. QED
    BY <1>4, <2>1 DEF TransitBounded, Linked, index
<1>9. QueuedNeverLess'
  <2>1. IsFiniteSet(Downloading) /\ Downloading' \in SUBSET Downloading
    BY <1>4, FS_Subset
  <2>2. Cardinality(Downloading) \in Nat /\ Cardinality(Downloading') \in Nat
        /\ Cardinality(Downloading') <= Cardinality(Downloading)
    BY <2>1, FS_Subset, FS_CardinalityType
  <2>3. QED
    BY <2>2 DEF QueuedNeverLess, TypeOK
<1>10. QED
  BY <1>1, <1>2, <1>5, <1>6, <1>7, <1>8, <1>9

(* MarkBlockAsReceived releases one download and counts it once.            *)
LEMMA Received ==
  ASSUME IInv, NEW b \in Block, MarkBlockAsReceived(b)
  PROVE  /\ blocksInFlight' \in [Peer -> SUBSET known] /\ nInFlight' \in [Peer -> Nat]
         /\ stalling' \in [Peer -> BOOLEAN]
         /\ inFlight' \in [Block -> Peer \union {NoPeer}] /\ nQueued' \in Nat
         /\ Downloading' = Downloading \ {b}
         /\ \A x \in Downloading' : inFlight'[x] = inFlight[x]
         /\ \A q \in Peer :
               /\ blocksInFlight'[q] = {x \in Block : inFlight'[x] = q}
               /\ nInFlight'[q] = Cardinality(blocksInFlight'[q])
               /\ nInFlight'[q] <= nInFlight[q]
         /\ StallersOwe' /\ QueuedNeverLess'
<1> USE DEF IInv
<1>1. Downloading \in SUBSET Block /\ IsFiniteSet(Downloading)
      /\ Cardinality(Downloading) \in Nat
  BY FS_Subset, FS_CardinalityType DEF Downloading
<1>2. CASE inFlight[b] = NoPeer
  <2>1. UNCHANGED download /\ b \notin Downloading
    BY <1>2 DEF MarkBlockAsReceived, Downloading
  <2>2. Downloading' = Downloading
    BY <2>1 DEF Downloading, download
  <2>3. StallersOwe' /\ QueuedNeverLess'
    BY <2>1, <2>2 DEF StallersOwe, QueuedNeverLess, download
  <2>4. QED
    BY <2>1, <2>2, <2>3 DEF TypeOK, InFlightConsistent, download
<1>3. CASE inFlight[b] # NoPeer
  <2> DEFINE p == inFlight[b]
  <2>1. p \in Peer /\ b \in Downloading /\ b \in blocksInFlight[p]
    BY <1>3 DEF TypeOK, Downloading, InFlightConsistent
  <2>2. /\ blocksInFlight' = [blocksInFlight EXCEPT ![p] = @ \ {b}]
        /\ nInFlight' = [nInFlight EXCEPT ![p] = @ - 1]
        /\ stalling' = [stalling EXCEPT ![p] = FALSE]
        /\ inFlight' = [inFlight EXCEPT ![b] = NoPeer]
        /\ nQueued' = nQueued - 1
    BY <1>3 DEF MarkBlockAsReceived
  <2>3. /\ inFlight' \in [Block -> Peer \union {NoPeer}]
        /\ \A x \in Block : inFlight'[x] = IF x = b THEN NoPeer ELSE inFlight[x]
    BY <2>2 DEF TypeOK
  <2>4. Downloading' = Downloading \ {b}
    BY <2>3 DEF Downloading
  <2>5. ASSUME NEW q \in Peer
        PROVE  /\ blocksInFlight'[q] = {x \in Block : inFlight'[x] = q}
               /\ nInFlight'[q] = Cardinality(blocksInFlight'[q])
               /\ nInFlight'[q] \in Nat
               /\ nInFlight'[q] <= nInFlight[q]
    <3>1. blocksInFlight[q] = {x \in Block : inFlight[x] = q}
          /\ nInFlight[q] = Cardinality(blocksInFlight[q])
      BY DEF InFlightConsistent
    <3>2. IsFiniteSet(blocksInFlight[q]) /\ nInFlight[q] \in Nat
      BY <3>1, FS_Subset DEF TypeOK
    <3>3. CASE q = p
      <4>1. blocksInFlight'[q] = blocksInFlight[q] \ {b} /\ nInFlight'[q] = nInFlight[q] - 1
        BY <2>1, <2>2, <3>3 DEF TypeOK
      <4>2. blocksInFlight'[q] = {x \in Block : inFlight'[x] = q}
        BY <2>3, <3>1, <4>1
      <4>3. Cardinality(blocksInFlight[q] \ {b}) = Cardinality(blocksInFlight[q]) - 1
        BY <2>1, <3>2, <3>3, FS_RemoveElement
      <4>4. Cardinality(blocksInFlight[q] \ {b}) \in Nat
        BY <3>2, FS_RemoveElement, FS_CardinalityType
      <4>5. QED
        BY <3>1, <3>2, <4>1, <4>2, <4>3, <4>4
    <3>4. CASE q # p
      <4>1. blocksInFlight'[q] = blocksInFlight[q] /\ nInFlight'[q] = nInFlight[q]
        BY <2>2, <3>4 DEF TypeOK
      <4>2. \A x \in Block : inFlight'[x] = q <=> inFlight[x] = q
        BY <2>3, <3>4
      <4>3. QED
        BY <3>1, <3>2, <4>1, <4>2
    <3>5. QED
      BY <3>3, <3>4
  <2>6. blocksInFlight' \in [Peer -> SUBSET known] /\ stalling' \in [Peer -> BOOLEAN]
        /\ nInFlight' \in [Peer -> Nat]
    <3>1. stalling' \in [Peer -> BOOLEAN]
      BY <2>2 DEF TypeOK
    <3>2. blocksInFlight' \in [Peer -> SUBSET known]
      <4>1. blocksInFlight \in [Peer -> SUBSET known] /\ p \in Peer
        BY <2>1 DEF TypeOK
      <4>2. blocksInFlight[p] \ {b} \in SUBSET known
        BY <4>1
      <4> HIDE DEF p
      <4>3. QED
        BY <2>2, <4>1, <4>2
    <3>3. DOMAIN nInFlight' = Peer /\ nInFlight' = [q \in Peer |-> nInFlight'[q]]
      BY <2>2 DEF TypeOK
    <3>4. QED
      BY <2>5, <3>1, <3>2, <3>3
  <2>7. StallersOwe'
    BY <2>2 DEF TypeOK, StallersOwe
  <2>8. nQueued' \in Nat /\ QueuedNeverLess'
    <3>1. Cardinality(Downloading') = Cardinality(Downloading) - 1
      BY <1>1, <2>1, <2>4, FS_RemoveElement
    <3>2. Cardinality(Downloading') \in Nat
      BY <1>1, <2>4, FS_RemoveElement, FS_CardinalityType
    <3>3. nQueued \in Nat /\ nQueued >= Cardinality(Downloading)
      BY DEF TypeOK, QueuedNeverLess
    <3>4. QED
      BY <1>1, <2>2, <3>1, <3>2, <3>3 DEF QueuedNeverLess
  <2>9. \A x \in Downloading' : inFlight'[x] = inFlight[x]
    BY <2>3 DEF Downloading
  <2>10. QED
    BY <2>3, <2>4, <2>5, <2>6, <2>7, <2>8, <2>9
<1>4. QED
  BY <1>2, <1>3

(* AcceptBlock keeps the index closed and the active chain stored, and      *)
(* stores no block but its own.                                             *)
LEMMA Accepted ==
  ASSUME IInv, NEW b \in Block \ {Genesis}, Parent[b] \in known, AcceptBlock(b)
  PROVE  /\ IndexClosed'
         /\ known \subseteq known' /\ known' \subseteq Block
         /\ haveData \subseteq haveData' /\ haveData' \subseteq haveData \union {b}
         /\ haveData' \subseteq known' /\ failed' \subseteq known' /\ tip' \in Block
<1> USE DEF IInv, TypeOK
<1>1. CASE UNCHANGED index
  BY <1>1 DEF IndexClosed, Linked, index
<1>2. CASE ~ UNCHANGED index
  <2>1. /\ b \notin haveData /\ b \notin failed
        /\ known' = known \union {b}
        /\ \/ /\ haveData' = haveData \union {b}
              /\ tip' = BestTip(tip, haveData', failed)
              /\ UNCHANGED failed
           \/ /\ failed' = failed \union {b}
              /\ UNCHANGED <<haveData, tip>>
           \/ UNCHANGED <<haveData, failed, tip>>
    BY <1>2 DEF AcceptBlock
  <2>2. known' \subseteq Block /\ ClosedUnderParent(known')
    BY <2>1 DEF IndexClosed, ClosedUnderParent
  <2>3. /\ haveData \subseteq haveData' /\ haveData' \subseteq haveData \union {b}
        /\ haveData' \subseteq known' /\ failed' \subseteq known'
        /\ haveData' \cap failed' = {} /\ Genesis \in haveData'
    BY <2>1 DEF IndexClosed
  <2>4. tip' \in Block /\ Linked(tip', haveData')
    <3>1. Linked(tip, haveData')
      BY <2>3, LinkedGrows DEF IndexClosed
    <3>2. haveData' \in SUBSET Block /\ failed' \in SUBSET Block
      BY <2>2, <2>3
    <3>3. CASE UNCHANGED tip
      BY <3>1, <3>3
    <3>4. CASE ~ UNCHANGED tip
      <4>1. tip' = BestTip(tip, haveData', failed) /\ failed' = failed
        BY <2>1, <3>4
      <4>2. QED
        BY <2>3, <3>1, <3>2, <4>1, BestTipLinked
    <3>5. QED
      BY <3>3, <3>4
  <2>5. IndexClosed'
    BY <2>2, <2>3, <2>4 DEF IndexClosed, Linked
  <2>6. QED
    BY <2>1, <2>2, <2>3, <2>4, <2>5
<1>3. QED
  BY <1>1, <1>2

(* ProcessNewBlock, from a peer or without one.                             *)
LEMMA NewBlockKeeps ==
  ASSUME IInv, NEW b \in Block \ {Genesis}, Parent[b] \in known,
         MarkBlockAsReceived(b), AcceptBlock(b),
         UNCHANGED <<connected, disconnect, announced, lastCommon, connections>>,
         requests' \subseteq requests
  PROVE  IInv'
<1> USE DEF IInv, announced
<1>1. /\ known \subseteq known' /\ haveData \subseteq haveData'
      /\ haveData' \subseteq haveData \union {b} /\ IndexClosed'
  BY Accepted
<1>2. Downloading' = Downloading \ {b} /\ \A x \in Downloading' : inFlight'[x] = inFlight[x]
  BY Received
<1>3. TypeOK'
  <2>1. /\ known' \subseteq Block /\ haveData' \subseteq known' /\ failed' \subseteq known'
        /\ tip' \in Block
    BY Accepted
  <2>2. /\ blocksInFlight' \in [Peer -> SUBSET known'] /\ nInFlight' \in [Peer -> Nat]
        /\ stalling' \in [Peer -> BOOLEAN]
        /\ inFlight' \in [Block -> Peer \union {NoPeer}] /\ nQueued' \in Nat
    BY <1>1, Received
  <2>3. /\ bestKnown' \in [Peer -> known' \union {NoBlock}]
        /\ lastCommon' \in [Peer -> known' \union {NoBlock}]
        /\ lastUnknown' \in [Peer -> Block \union {NoBlock}]
        /\ connected' \subseteq Peer /\ disconnect' \in [Peer -> BOOLEAN]
        /\ requests' \subseteq Peer \X Block /\ connections' \in Nat
    BY <1>1 DEF TypeOK
  <2>4. QED
    BY <2>1, <2>2, <2>3 DEF TypeOK
<1>4. InFlightConsistent'
  <2>1. \A x \in Downloading' : inFlight'[x] \in connected'
    BY <1>2 DEF InFlightConsistent
  <2>2. QED
    BY <2>1, Received DEF InFlightConsistent
<1>5. NothingStoredInFlight'
  BY <1>1, <1>2 DEF NothingStoredInFlight
<1>6. LastCommonFull'
  BY <1>1 DEF LastCommonFull, Linked
<1>7. TransitBounded'
  <2>1. ASSUME NEW q \in Peer PROVE nInFlight'[q] <= MaxInTransit
    <3>1. nInFlight'[q] <= nInFlight[q] /\ nInFlight'[q] \in Nat /\ nInFlight[q] \in Nat
      BY Received DEF TypeOK
    <3>2. nInFlight[q] <= MaxInTransit
      BY DEF TransitBounded
    <3>3. QED
      BY <3>1, <3>2
  <2>2. ASSUME NEW y \in Downloading'
        PROVE  \E x \in Anc[y] : Linked(x, haveData') /\ Height[y] <= Height[x] + Window
    BY <1>1, <1>2 DEF TransitBounded, Linked
  <2>3. QED
    BY <2>1, <2>2 DEF TransitBounded
<1>8. QED
  BY <1>1, <1>3, <1>4, <1>5, <1>6, <1>7, Received

LEMMA DeliverBlockKeeps ==
  ASSUME IInv, NEW p \in Peer, NEW b \in Block, DeliverBlock(p, b) PROVE IInv'
<1>1. requests' \subseteq requests /\ b # Genesis
  BY DEF DeliverBlock
<1>2. CASE b \notin known /\ Parent[b] \in known \cap haveData
  BY <1>1, <1>2, NewBlockKeeps DEF DeliverBlock
<1>3. CASE ~ (b \notin known /\ Parent[b] \in known \cap haveData)
  <2>1. UNCHANGED <<index, download, connected, disconnect, announced, lastCommon,
                    connections>>
    BY <1>3 DEF DeliverBlock
  <2>2. TypeOK'
    BY <1>1, <2>1 DEF IInv, TypeOK, index, download, announced
  <2>3. QED
    BY <2>1, <2>2, QuietStep
<1>4. QED
  BY <1>2, <1>3

LEMMA ProcessOwnBlockKeeps ==
  ASSUME IInv, NEW b \in Block, ProcessOwnBlock(b) PROVE IInv'
BY NewBlockKeeps DEF ProcessOwnBlock

(* The end of SendMessages: what is asked for is missing, asked of nobody,  *)
(* within the window and not more than there is room for.                   *)
LEMMA RequestBlocksKeeps ==
  ASSUME IInv, NEW p \in Peer, RequestBlocks(p) PROVE IInv'
<1> DEFINE blocks == ToDownload(p)
           best == BestResolved(p)
           unknown == UnknownResolved(p)
           after == CommonAfter(p)
           staller == Staller(p)
<1> USE DEF IInv
<1>1. Interesting(p) /\ nInFlight[p] < MaxInTransit /\ p \in connected
  BY DEF RequestBlocks
<1>2. /\ blocks \subseteq known \ haveData /\ IsFiniteSet(blocks) /\ Cardinality(blocks) \in Nat
      /\ nInFlight[p] + Cardinality(blocks) <= MaxInTransit
      /\ \A x \in blocks : /\ x \in Block /\ inFlight[x] = NoPeer
                           /\ Common(p) \in Anc[x]
                           /\ Height[x] <= Height[Common(p)] + Window
  BY <1>1, DownloadsFit
<1>3. /\ best \in known \union {NoBlock} /\ unknown \in Block \union {NoBlock}
      /\ after \in Block /\ Linked(after, haveData) /\ Linked(Common(p), haveData)
  BY <1>1, BestKnownTyped, CommonAfterLinked, CommonLinked
<1>4. /\ bestKnown' = [bestKnown EXCEPT ![p] = best]
      /\ lastUnknown' = [lastUnknown EXCEPT ![p] = unknown]
      /\ lastCommon' = [lastCommon EXCEPT ![p] = after]
      /\ blocksInFlight' = [blocksInFlight EXCEPT ![p] = @ \union blocks]
      /\ nInFlight' = [nInFlight EXCEPT ![p] = @ + Cardinality(blocks)]
      /\ inFlight' = [b \in Block |-> IF b \in blocks THEN p ELSE inFlight[b]]
      /\ nQueued' = nQueued + Cardinality(blocks)
      /\ requests' = requests \union ({p} \X blocks)
      /\ \/ stalling' = stalling
         \/ /\ staller # NoPeer
            /\ stalling' = [stalling EXCEPT ![staller] = TRUE]
      /\ UNCHANGED <<index, connected, disconnect, connections>>
  BY DEF RequestBlocks
<1> HIDE DEF blocks, best, unknown, after, staller
<1>5. staller # NoPeer => staller \in Peer /\ blocksInFlight[staller] # {}
  BY <1>1, StallerIsAwaited DEF staller
<1>6. TypeOK'
  <2>1. after \in known
    BY <1>3, AncSelf DEF Linked, TypeOK
  <2>2. nInFlight' \in [Peer -> Nat] /\ nQueued' \in Nat
    BY <1>2, <1>4 DEF TypeOK
  <2>3. blocksInFlight' \in [Peer -> SUBSET known]
    BY <1>2, <1>4 DEF TypeOK
  <2>4. stalling' \in [Peer -> BOOLEAN]
    <3>1. stalling \in [Peer -> BOOLEAN]
      BY DEF TypeOK
    <3>2. CASE stalling' = stalling
      BY <3>1, <3>2
    <3>3. CASE staller # NoPeer /\ stalling' = [stalling EXCEPT ![staller] = TRUE]
      BY <3>1, <3>3
    <3>4. QED
      BY <1>4, <3>2, <3>3
  <2>5. QED
    BY <1>2, <1>3, <1>4, <2>1, <2>2, <2>3, <2>4 DEF TypeOK, index
<1>7. IndexClosed'
  BY <1>4 DEF IndexClosed, Linked, index
<1>8. Downloading' = Downloading \union blocks /\ Downloading \cap blocks = {}
      /\ \A x \in Block : inFlight'[x] = IF x \in blocks THEN p ELSE inFlight[x]
  BY <1>2, <1>4 DEF Downloading
<1>9. InFlightConsistent'
  <2>1. ASSUME NEW q \in Peer
        PROVE  /\ blocksInFlight'[q] = {x \in Block : inFlight'[x] = q}
               /\ nInFlight'[q] = Cardinality(blocksInFlight'[q])
    <3>1. blocksInFlight[q] = {x \in Block : inFlight[x] = q}
          /\ nInFlight[q] = Cardinality(blocksInFlight[q])
      BY DEF InFlightConsistent
    <3>2. CASE q = p
      <4>1. /\ blocksInFlight'[q] = blocksInFlight[q] \union blocks
            /\ nInFlight'[q] = nInFlight[q] + Cardinality(blocks)
        BY <1>4, <3>2 DEF TypeOK
      <4>2. blocksInFlight'[q] = {x \in Block : inFlight'[x] = q}
        BY <1>2, <1>8, <3>1, <3>2, <4>1
      <4>3. blocksInFlight[q] \cap blocks = {} /\ IsFiniteSet(blocksInFlight[q])
        BY <1>2, <3>1, FS_Subset
      <4>4. Cardinality(blocksInFlight[q] \union blocks) =
              Cardinality(blocksInFlight[q]) + Cardinality(blocks)
                - Cardinality(blocksInFlight[q] \cap blocks)
        BY <1>2, <4>3, FS_Union
      <4>5. Cardinality(blocksInFlight[q] \union blocks) =
              Cardinality(blocksInFlight[q]) + Cardinality(blocks)
        <5>1. Cardinality(blocksInFlight[q] \cap blocks) = 0
          BY <4>3, FS_EmptySet
        <5>2. Cardinality(blocksInFlight[q]) \in Nat
          BY <4>3, FS_CardinalityType
        <5>3. QED
          BY <1>2, <4>4, <5>1, <5>2
      <4>6. QED
        BY <3>1, <4>1, <4>2, <4>5
    <3>3. CASE q # p
      <4>1. blocksInFlight'[q] = blocksInFlight[q] /\ nInFlight'[q] = nInFlight[q]
        BY <1>4, <3>3 DEF TypeOK
      <4>2. \A x \in Block : inFlight'[x] = q <=> inFlight[x] = q
        BY <1>2, <1>8, <3>3
      <4>3. QED
        BY <3>1, <4>1, <4>2
    <3>4. QED
      BY <3>2, <3>3
  <2>2. ASSUME NEW b \in Downloading' PROVE inFlight'[b] \in connected'
    BY <1>1, <1>2, <1>4, <1>8 DEF InFlightConsistent, Downloading
  <2>3. QED
    BY <2>1, <2>2 DEF InFlightConsistent
<1>10. NothingStoredInFlight'
  BY <1>2, <1>4, <1>8 DEF NothingStoredInFlight, index
<1>11. StallersOwe'
  <2>1. \A q \in Peer : blocksInFlight[q] \subseteq blocksInFlight'[q]
    BY <1>4 DEF TypeOK
  <2>2. ASSUME NEW q \in Peer, stalling'[q] PROVE blocksInFlight[q] # {}
    <3>1. stalling[q] \/ (staller # NoPeer /\ q = staller)
      BY <1>4, <2>2 DEF TypeOK
    <3>2. QED
      BY <1>5, <3>1 DEF StallersOwe
  <2>3. QED
    BY <2>1, <2>2 DEF StallersOwe
<1>12. LastCommonFull'
  BY <1>3, <1>4 DEF TypeOK, LastCommonFull, Linked, index
<1>13. TransitBounded'
  <2>1. \A q \in Peer : nInFlight'[q] <= MaxInTransit
    BY <1>2, <1>4 DEF TypeOK, TransitBounded
  <2>2. ASSUME NEW b \in Downloading'
        PROVE  \E x \in Anc[b] : Linked(x, haveData) /\ Height[b] <= Height[x] + Window
    BY <1>2, <1>3, <1>8 DEF TransitBounded
  <2>3. haveData' = haveData
    BY <1>4 DEF index
  <2>4. QED
    BY <2>1, <2>2, <2>3 DEF TransitBounded, Linked
<1>14. QueuedNeverLess'
  <2>1. IsFiniteSet(Downloading) /\ Cardinality(Downloading) \in Nat
    BY FS_Subset, FS_CardinalityType DEF Downloading
  <2>2. Cardinality(Downloading') = Cardinality(Downloading) + Cardinality(blocks)
                                     - Cardinality(Downloading \cap blocks)
    BY <1>2, <1>8, <2>1, FS_Union
  <2>3. Cardinality(Downloading') = Cardinality(Downloading) + Cardinality(blocks)
    <3>1. Cardinality(Downloading \cap blocks) = 0
      BY <1>8, FS_EmptySet
    <3>2. QED
      BY <1>2, <2>1, <2>2, <3>1
  <2>4. nQueued \in Nat /\ nQueued >= Cardinality(Downloading)
    BY DEF TypeOK, QueuedNeverLess
  <2>5. QED
    BY <1>2, <1>4, <2>1, <2>3, <2>4 DEF QueuedNeverLess
<1>15. QED
  BY <1>6, <1>7, <1>9, <1>10, <1>11, <1>12, <1>13, <1>14

LEMMA NextInv == IInv /\ [Next]_vars => IInv'
<1> SUFFICES ASSUME IInv, [Next]_vars PROVE IInv'
  OBVIOUS
<1>1. ASSUME NEW p \in Peer, Connect(p) PROVE IInv'
  BY <1>1, ConnectKeeps
<1>2. ASSUME NEW p \in Peer, Disconnect(p) \/ TimeOut(p) PROVE IInv'
  BY <1>2, DisconnectKeeps, TimeOutKeeps
<1>3. ASSUME NEW p \in Peer, FinalizeNode(p) PROVE IInv'
  BY <1>3, FinalizeNodeKeeps
<1>4. ASSUME NEW p \in Peer, RequestBlocks(p) PROVE IInv'
  BY <1>4, RequestBlocksKeeps
<1>5. ASSUME NEW p \in Peer, NothingInteresting(p) PROVE IInv'
  BY <1>5, NothingInterestingKeeps
<1>6. ASSUME NEW p \in Peer, NEW b \in Block, Announce(p, b) PROVE IInv'
  BY <1>6, AnnounceKeeps
<1>7. ASSUME NEW p \in Peer, NEW b \in Block, DeliverBlock(p, b) PROVE IInv'
  BY <1>7, DeliverBlockKeeps
<1>8. ASSUME NEW b \in Block, ProcessOwnBlock(b) PROVE IInv'
  BY <1>8, ProcessOwnBlockKeeps
<1>9. CASE UNCHANGED vars
  <2>1. TypeOK'
    BY <1>9 DEF IInv, TypeOK, vars, index, download, announced
  <2>2. QED
    BY <1>9, <2>1, QuietStep DEF vars
<1>10. QED
  BY <1>1, <1>2, <1>3, <1>4, <1>5, <1>6, <1>7, <1>8, <1>9 DEF Next

-----------------------------------------------------------------------------
(* Theorems                                                                 *)

(* The invariant holds of every reachable state.                            *)
THEOREM Invariance == Spec => []IInv
  BY InitInv, NextInv, PTL DEF Spec

(* Type correctness; the counters nBlocksInFlight and                       *)
(* nQueuedValidatedHeaders never pass below 0.                              *)
THEOREM TypeCorrect == Spec => []TypeOK
<1>1. IInv => TypeOK
  BY DEF IInv
<1>2. QED
  BY <1>1, Invariance, PTL

(* mapBlocksInFlight, the peers' lists and their counters agree, every peer *)
(* that mapBlocksInFlight names has a CNodeState, no stored block stays in  *)
(* flight, and nQueuedValidatedHeaders is never too small, whatever the     *)
(* interleaving of message handlers, the socket thread and block producers. *)
THEOREM DownloadsStayConsistent == Spec => []DownloadsConsistent
<1>1. IInv => DownloadsConsistent
  BY DEF IInv, DownloadsConsistent
<1>2. QED
  BY <1>1, Invariance, PTL

(* SendMessages disconnects for stalling only peers that owe a block.       *)
THEOREM OnlyDebtorsStall == Spec => []StallersOwe
<1>1. IInv => StallersOwe
  BY DEF IInv
<1>2. QED
  BY <1>1, Invariance, PTL

(* FindNextBlocksToDownload never starts above a missing block.             *)
THEOREM NoHoleIsPassed == Spec => []LastCommonFull
<1>1. IInv => LastCommonFull
  BY DEF IInv
<1>2. QED
  BY <1>1, Invariance, PTL

(* The limit per peer and the download window hold.                         *)
THEOREM TransitIsBounded == Spec => []TransitBounded
<1>1. IInv => TransitBounded
  BY DEF IInv
<1>2. QED
  BY <1>1, Invariance, PTL
=============================================================================
