------------------------ MODULE ChainRecoveryProofs ------------------------
(* Proofs about ChainRecovery: for every tree of blocks, and whatever they  *)
(* spend, a process that dies at any point leaves coins that are those of a *)
(* block whose whole chain is on disk, unless a replay touched them.        *)
EXTENDS ChainRecovery, BlockTreeTheorems, SequenceTheorems

(* A non-empty set of positions has a least one: the one with the fewest    *)
(* positions below it.                                                      *)
LEMMA MinIn ==
  ASSUME NEW n \in Nat, NEW S \in SUBSET (1 .. n), S # {}
  PROVE  Min(S) \in S /\ \A y \in S : Min(S) =< y
<1> DEFINE Below(x) == {y \in S : y < x}
           T == {Below(x) : x \in S}
<1>1. IsFiniteSet(S)
  <2>1. IsFiniteSet(1 .. n)
    BY FS_Interval
  <2>2. QED
    BY <2>1, FS_Subset
<1>2. T \subseteq FiniteSubsetsOf(S) /\ T # {}
  <2>1. ASSUME NEW x \in S PROVE Below(x) \in FiniteSubsetsOf(S)
    <3>1. Below(x) \in SUBSET S
      OBVIOUS
    <3>2. IsFiniteSet(Below(x))
      BY <1>1, <3>1, FS_Subset
    <3>3. QED
      BY <3>1, <3>2 DEF FiniteSubsetsOf
  <2> HIDE DEF Below
  <2>2. QED
    BY <2>1
<1>3. \E U \in T : \A V \in T : ~ (<<V, U>> \in StrictSubsetOrdering(S))
  <2> HIDE DEF T
  <2>1. QED
    BY <1>2, WFMin, FS_StrictSubsetOrderingWellFounded
<1>4. PICK x \in S : \A V \in T : ~ (<<V, Below(x)>> \in StrictSubsetOrdering(S))
  BY <1>3
<1>5. ASSUME NEW y \in S, y < x PROVE FALSE
  <2>1. y \in Below(x) /\ y \notin Below(y)
    BY <1>5
  <2>2. \A z \in S : z < y => z < x
    BY <1>5
  <2>3. <<Below(y), Below(x)>> \in StrictSubsetOrdering(S)
    BY <2>1, <2>2 DEF StrictSubsetOrdering
  <2>4. QED
    BY <1>4, <2>3
<1>6. \A y \in S : x =< y
  BY <1>5
<1>7. QED
  BY <1>6 DEF Min

USE BlockTreeAssumption, ChainRecoveryAssumption

(* The type invariant, without the coins: what the recursive Replayed       *)
(* makes of them is not known.                                              *)
Shape ==
    /\ mode \in {"up", "aborting", "stopping", "down", "refused"}
    /\ index \in SUBSET Block /\ undo \in SUBSET Block /\ dirty \in SUBSET Block
    /\ fileHeight \in Nat /\ dFileHeight \in Nat
    /\ best \in Block /\ tip \in Block /\ newTip \in Block /\ dBest \in Block
    /\ flush \in {"idle", "start", "coins"}
    /\ dIndex \in SUBSET Block /\ dUndo \in SUBSET Block
    /\ prepared \in BOOLEAN /\ replayed \in BOOLEAN

(* A record that is not dirty is on disk as it is, and so are the records   *)
(* of the blocks that were ever connected.                                  *)
IndexOnDisk ==
    /\ ClosedUnderParent(index) /\ ClosedUnderParent(dIndex)
    /\ Genesis \in index /\ Genesis \in dIndex
    /\ dIndex \subseteq index /\ index \ dirty \subseteq dIndex /\ dirty \subseteq index
    /\ dUndo \subseteq undo /\ undo \ dirty \subseteq dUndo
    /\ flush = "coins" => dirty = {}

(* The blocks the node and its databases stand on.                          *)
StandsOnDisk ==
    /\ {best, tip, newTip, dBest} \subseteq dIndex
    /\ mode \in {"down", "refused"} => flush = "idle"
    /\ mode = "up" => best = IF flush = "idle" THEN tip ELSE newTip

(* Undo data follows the coins.                                             *)
UndoFollows ==
    ~ replayed => /\ Anc[best] \ {Genesis} \subseteq undo
                  /\ Anc[dBest] \ {Genesis} \subseteq dUndo

IInv == Shape /\ IndexOnDisk /\ StandsOnDisk /\ UndoFollows /\ CoinsMatchBest

-----------------------------------------------------------------------------
(* Coins of a chain                                                         *)

(* Only outputs of a chain are spent in it.                                 *)
LEMMA SpentWasMade == \A b \in Block : Used(Anc[b]) \subseteq Made(Anc[b])
<1> SUFFICES ASSUME NEW b \in Block, NEW a \in Anc[b]
             PROVE  Spends[a] \subseteq Made(Anc[b])
  BY DEF Used
<1>1. a \in Block
  BY AncSelf
<1>2. CASE a = Genesis
  BY <1>2
<1>3. CASE a # Genesis
  <2>1. Parent[a] \in Block /\ Parent[a] \in Anc[b]
    BY <1>1, <1>3, AncClosed DEF ClosedUnderParent
  <2>2. Anc[Parent[a]] \subseteq Anc[b]
    BY <2>1, AncTransitive
  <2>3. Spends[a] \subseteq Made(Anc[Parent[a]])
    BY <1>1, <1>3 DEF CoinsOf
  <2> QED
    BY <2>2, <2>3 DEF Made
<1> QED
  BY <1>2, <1>3

(* Connecting a block to the coins of its parent gives its own.             *)
LEMMA ConnectCoins ==
  \A b \in Block \ {Genesis} : Applied(CoinsOf(Parent[b]), b) = CoinsOf(b)
<1> SUFFICES ASSUME NEW b \in Block \ {Genesis}
             PROVE  Applied(CoinsOf(Parent[b]), b) = CoinsOf(b)
  OBVIOUS
<1> DEFINE P == Anc[Parent[b]]
<1>1. Anc[b] = P \union {b}
  BY AncParent
<1>2. Made(Anc[b]) = Made(P) \union Creates[b] /\ Used(Anc[b]) = Used(P) \union Spends[b]
  BY <1>1 DEF Made, Used
<1>3. Used(P) \subseteq Made(P)
  BY SpentWasMade
<1>4. Spends[b] \subseteq Made(P) \ Used(P) /\ Creates[b] \cap Made(P) = {}
  BY DEF CoinsOf
<1> QED
  BY <1>2, <1>3, <1>4 DEF CoinsOf, Applied

(* Disconnecting it gives back those of the parent.                         *)
LEMMA DisconnectCoins ==
  \A b \in Block \ {Genesis} : Undone(CoinsOf(b), b) = CoinsOf(Parent[b])
<1> SUFFICES ASSUME NEW b \in Block \ {Genesis}
             PROVE  Undone(CoinsOf(b), b) = CoinsOf(Parent[b])
  OBVIOUS
<1>1. Applied(CoinsOf(Parent[b]), b) = CoinsOf(b)
  BY ConnectCoins
<1>2. Spends[b] \subseteq CoinsOf(Parent[b]) /\ Creates[b] \cap CoinsOf(Parent[b]) = {}
  BY DEF CoinsOf
<1> QED
  BY <1>1, <1>2 DEF Applied, Undone

-----------------------------------------------------------------------------
(* Where a replay ends                                                      *)

(* The list of blocks holds just those of the index on disk.                *)
LEMMA OrderIsOfIndex ==
  ASSUME Shape, NEW order \in ByHeight(dIndex)
  PROVE  /\ \A i \in DOMAIN order : order[i] \in dIndex
         /\ Len(order) \in Nat /\ DOMAIN order = 1 .. Len(order)
<1>1. IsFiniteSet(dIndex)
  BY FS_Subset DEF Shape
<1>2. Cardinality(dIndex) \in Nat
  BY <1>1, FS_CardinalityType
<1>3. order \in [1 .. Cardinality(dIndex) -> dIndex]
  BY DEF ByHeight, SetToSeqs
<1>4. order \in Seq(dIndex)
  <2>1. order \in UNION {[1 .. n -> dIndex] : n \in Nat}
    BY <1>2, <1>3
  <2>2. QED
    BY <2>1, SeqDef, Zenon
<1>5. Len(order) \in Nat /\ DOMAIN order = 1 .. Len(order)
  BY <1>4, LenProperties
<1> QED
  BY <1>3, <1>5

(* The replay ends where it begins or later in the list, with a block of    *)
(* the index.                                                               *)
LEMMA ReplayEndsOnDisk ==
  ASSUME Shape, NEW order \in ByHeight(dIndex), OutOfSync(order)
  PROVE  /\ order[1] \in dIndex
         /\ Above(order) # {} => /\ LastReplayed(order) \in DOMAIN order
                                 /\ LastReplayed(order) >= FirstReplayed(order)
                                 /\ order[LastReplayed(order)] \in dIndex
<1> DEFINE n == Len(order)
           meta == dFileHeight + 2
           R == {i \in DOMAIN order : /\ i >= FirstReplayed(order)
                                      /\ Height[order[i]] >= Height[LastMeta(order)]}
<1>1. n \in Nat /\ DOMAIN order = 1 .. n /\ \A i \in 1 .. n : order[i] \in dIndex
  BY OrderIsOfIndex
<1>2. meta \in 1 .. n /\ 1 \in 1 .. n /\ LastMeta(order) = order[meta]
  BY <1>1 DEF OutOfSync, LastMeta, Shape
<1>3. ASSUME Above(order) # {} PROVE R # {}
  <2> DEFINE f == FirstReplayed(order)
  <2>1. f \in Above(order)
    BY <1>1, <1>3, MinIn DEF FirstReplayed, Above
  <2>2. f \in 1 .. n /\ Height[order[f]] = Height[dBest] + 1
    BY <1>1, <2>1 DEF Above
  <2>3. Height[order[meta]] \in Nat /\ Height[order[f]] \in Nat
    BY <1>1, <1>2, <2>2 DEF Shape
  <2>4. CASE meta >= f
    BY <1>1, <1>2, <2>3, <2>4
  <2>5. CASE meta < f
    <3>1. Height[order[meta]] <= Height[order[f]]
      BY <1>1, <1>2, <2>2, <2>5 DEF ByHeight
    <3> QED
      BY <1>1, <1>2, <2>2, <2>3, <3>1
  <2> QED
    BY <1>2, <2>2, <2>4, <2>5
<1>4. ASSUME Above(order) # {} PROVE LastReplayed(order) \in R
  <2>1. R \in SUBSET (1 .. n)
    BY <1>1
  <2>2. LastReplayed(order) = Min(R)
    BY DEF LastReplayed
  <2> HIDE DEF R
  <2>3. R # {}
    BY <1>3, <1>4
  <2>4. Min(R) \in R
    BY <1>1, <2>1, <2>3, MinIn
  <2> QED
    BY <2>2, <2>4
<1> QED
  BY <1>1, <1>2, <1>4

-----------------------------------------------------------------------------
(* What a replay does on an index without forks                             *)

(* On a line every block has a height of its own, and the list of blocks    *)
(* names them one by one from the bottom: below a block comes its parent.   *)
LEMMA OrderOfLine ==
  ASSUME Shape, IndexOnDisk, Line(dIndex), NEW order \in ByHeight(dIndex)
  PROVE  /\ \A x, y \in dIndex : Height[x] = Height[y] => x = y
         /\ \A i, j \in DOMAIN order : i < j => Height[order[i]] < Height[order[j]]
         /\ \A i \in DOMAIN order : order[i] # Genesis =>
               i - 1 \in DOMAIN order /\ order[i - 1] = Parent[order[i]]
<1> DEFINE n == Len(order)
<1>1. n \in Nat /\ DOMAIN order = 1 .. n /\ \A i \in 1 .. n : order[i] \in dIndex
  BY OrderIsOfIndex
<1>2. dIndex \subseteq Block /\ IsFiniteSet(dIndex) /\ Cardinality(dIndex) \in Nat
  BY FS_Subset, FS_CardinalityType DEF Shape
<1>3. ASSUME NEW x \in dIndex, NEW y \in dIndex, Height[x] = Height[y] PROVE x = y
  <2>1. x \in Anc[y] \/ y \in Anc[x]
    BY DEF Line
  <2>2. Height[x] \in Nat /\ Height[y] \in Nat
    BY <1>2
  <2> QED
    BY <1>2, <1>3, <2>1, <2>2, AncLower
<1>4. order \in Bijection(1 .. Cardinality(dIndex), dIndex)
  <2> DEFINE D == 1 .. Cardinality(dIndex)
  <2>1. order \in [D -> dIndex] /\ \A i, j \in D : i # j => order[i] # order[j]
    BY DEF ByHeight, SetToSeqs
  <2>2. order \in Injection(D, dIndex)
    BY <2>1 DEF Injection, IsInjective
  <2>3. IsFiniteSet(D) /\ Cardinality(D) = Cardinality(dIndex)
    BY <1>2, FS_Interval
  <2>4. order \in Surjection(D, dIndex)
    BY <1>2, <2>2, <2>3, FS_Injection
  <2> QED
    BY <2>2, <2>4 DEF Bijection
<1>5. /\ \A x \in dIndex : \E i \in 1 .. n : order[i] = x
      /\ \A i, j \in 1 .. n : order[i] = order[j] => i = j
  BY <1>1, <1>4 DEF Bijection, Injection, IsInjective, Surjection
<1>6. ASSUME NEW i \in 1 .. n, NEW j \in 1 .. n, i < j
      PROVE  Height[order[i]] < Height[order[j]]
  <2>1. Height[order[i]] <= Height[order[j]]
    BY <1>1, <1>6 DEF ByHeight
  <2>2. Height[order[i]] # Height[order[j]]
    BY <1>1, <1>3, <1>5, <1>6
  <2>3. Height[order[i]] \in Nat /\ Height[order[j]] \in Nat
    BY <1>1, <1>2
  <2> QED
    BY <2>1, <2>2, <2>3
<1>7. ASSUME NEW i \in 1 .. n, order[i] # Genesis
      PROVE  i - 1 \in 1 .. n /\ order[i - 1] = Parent[order[i]]
  <2>1. order[i] \in dIndex /\ order[i] \in Block \ {Genesis}
    BY <1>1, <1>2, <1>7
  <2>2. Parent[order[i]] \in dIndex /\ Height[order[i]] = Height[Parent[order[i]]] + 1
    BY <2>1 DEF IndexOnDisk, ClosedUnderParent
  <2>3. PICK k \in 1 .. n : order[k] = Parent[order[i]]
    BY <1>5, <2>2
  <2>4. Height[order[k]] \in Nat /\ Height[order[i]] = Height[order[k]] + 1
    BY <1>2, <2>2, <2>3
  <2>5. k < i
    <3>1. k # i
      BY <2>4
    <3>2. ~ (i < k)
      <4>1. i < k => Height[order[i]] < Height[order[k]]
        BY <1>6
      <4> QED
        BY <2>4, <4>1
    <3> QED
      BY <3>1, <3>2
  <2>6. ~ (k < i - 1)
    <3>1. ASSUME k < i - 1 PROVE FALSE
      <4>1. i - 1 \in 1 .. n /\ i - 1 < i
        BY <3>1
      <4>2. Height[order[k]] < Height[order[i - 1]] /\ Height[order[i - 1]] < Height[order[i]]
        BY <1>6, <3>1, <4>1
      <4>3. Height[order[i - 1]] \in Nat
        BY <1>1, <1>2, <4>1
      <4> QED
        BY <2>4, <4>2, <4>3
    <3> QED
      BY <3>1
  <2>7. k = i - 1
    BY <2>5, <2>6
  <2> QED
    BY <2>3, <2>7
<1> QED
  BY <1>1, <1>3, <1>6, <1>7

(* With a block above the coins' best, the replay begins with its child and *)
(* ends above it.                                                           *)
LEMMA ReplayedRange ==
  ASSUME Shape, IndexOnDisk, StandsOnDisk, Line(dIndex), NEW order \in ByHeight(dIndex),
         OutOfSync(order), Above(order) # {}
  PROVE  LET f == FirstReplayed(order)
             l == LastReplayed(order)
         IN  /\ f \in Nat /\ l \in Nat /\ f <= l /\ f .. l \subseteq DOMAIN order
             /\ \A i \in f .. l : /\ order[i] \in dIndex \ {Genesis}
                                   /\ Height[order[i]] > Height[dBest]
             /\ Parent[order[f]] = dBest
<1> DEFINE n == Len(order)
           f == FirstReplayed(order)
           l == LastReplayed(order)
           R == {i \in DOMAIN order : /\ i >= f
                                      /\ Height[order[i]] >= Height[LastMeta(order)]}
<1>1. n \in Nat /\ DOMAIN order = 1 .. n /\ \A i \in 1 .. n : order[i] \in dIndex
  BY OrderIsOfIndex
<1>2. /\ dIndex \subseteq Block /\ dBest \in dIndex /\ Height[dBest] \in Nat
      /\ \A i \in 1 .. n : Height[order[i]] \in Nat
  BY <1>1 DEF Shape, StandsOnDisk
<1>3. f \in 1 .. n /\ Height[order[f]] = Height[dBest] + 1
  <2>1. f \in Above(order)
    BY <1>1, MinIn DEF FirstReplayed, Above
  <2> QED
    BY <1>1, <2>1 DEF Above
<1>4. l \in 1 .. n /\ l >= f
  BY <1>1, ReplayEndsOnDisk
<1>5. ASSUME NEW i \in f .. l
      PROVE  i \in 1 .. n /\ order[i] \in dIndex \ {Genesis} /\ Height[order[i]] > Height[dBest]
  <2>1. i \in 1 .. n /\ (i = f \/ f < i)
    BY <1>3, <1>4
  <2>2. f < i => Height[order[f]] < Height[order[i]]
    BY <1>1, <1>3, <2>1, OrderOfLine
  <2>3. Height[order[i]] > Height[dBest]
    BY <1>2, <1>3, <2>1, <2>2
  <2> QED
    BY <1>1, <1>2, <2>1, <2>3
<1>6. Parent[order[f]] = dBest
  <2>1. order[f] \in dIndex /\ order[f] \in Block \ {Genesis}
    BY <1>1, <1>2, <1>3
  <2>2. Parent[order[f]] \in dIndex /\ Height[Parent[order[f]]] = Height[dBest]
    <3>1. Parent[order[f]] \in dIndex /\ Height[order[f]] = Height[Parent[order[f]]] + 1
      BY <2>1 DEF IndexOnDisk, ClosedUnderParent
    <3>2. Height[Parent[order[f]]] \in Nat
      BY <1>2, <3>1
    <3> QED
      BY <1>2, <1>3, <3>1, <3>2
  <2> QED
    BY <1>2, <2>2, OrderOfLine
<1> QED
  BY <1>1, <1>3, <1>4, <1>5, <1>6

(* The replay of a line is the connecting of one block after the other:     *)
(* block by block it leaves the coins of that block.                        *)
LEMMA ReplayConnects ==
  ASSUME Shape, IndexOnDisk, StandsOnDisk, Line(dIndex), NEW order \in ByHeight(dIndex),
         OutOfSync(order), Above(order) # {}, dCoins = CoinsOf(dBest)
  PROVE  Replayed(order) = CoinsOf(order[LastReplayed(order)])
<1> DEFINE f == FirstReplayed(order)
           l == LastReplayed(order)
           D == f - 1 .. l
           after == CHOOSE h : h = [i \in D |-> IF i < f THEN dCoins
                                                ELSE Applied(h[i - 1], order[i])]
           g == [i \in D |-> IF i < f THEN dCoins ELSE CoinsOf(order[i])]
           S == {i \in f .. l : after[i] # g[i]}
<1>1. Replayed(order) = after[l]
  BY DEF Replayed
<1>2. /\ f \in Nat /\ l \in Nat /\ f <= l /\ f .. l \subseteq DOMAIN order
      /\ \A i \in f .. l : order[i] \in dIndex \ {Genesis} /\ order[i] \in Block \ {Genesis}
      /\ Parent[order[f]] = dBest
  BY ReplayedRange DEF Shape
<1> HIDE DEF f, l
<1>3. ASSUME NEW i \in f .. l
      PROVE  i - 1 \in D /\ Applied(g[i - 1], order[i]) = CoinsOf(order[i])
  <2>1. Applied(CoinsOf(Parent[order[i]]), order[i]) = CoinsOf(order[i])
    BY <1>2, ConnectCoins
  <2>2. CASE i = f
    BY <1>2, <2>1, <2>2
  <2>3. CASE i # f
    <3>1. order[i - 1] = Parent[order[i]]
      BY <1>2, OrderOfLine
    <3>2. g[i - 1] = CoinsOf(order[i - 1])
      BY <1>2, <2>3
    <3> QED
      BY <1>2, <2>1, <3>1, <3>2
  <2> QED
    BY <2>2, <2>3
<1>4. g = [i \in D |-> IF i < f THEN dCoins ELSE Applied(g[i - 1], order[i])]
  <2>1. \A i \in D : ~ (i < f) => i \in f .. l
    BY <1>2
  <2>2. \A i \in D : ~ (i < f) => Applied(g[i - 1], order[i]) = CoinsOf(order[i])
    BY <1>3, <2>1
  <2> QED
    BY <2>2
<1>5. after = [i \in D |-> IF i < f THEN dCoins ELSE Applied(after[i - 1], order[i])]
  <2> HIDE DEF g
  <2> QED
    BY <1>4
<1>6. ASSUME S # {} PROVE FALSE
  <2> HIDE DEF after
  <2>1. S \in SUBSET (1 .. l)
    <3>1. DOMAIN order = 1 .. Len(order) /\ Len(order) \in Nat
      BY OrderIsOfIndex
    <3>2. \A i \in f .. l : i \in 1 .. l
      BY <1>2, <3>1
    <3> QED
      BY <3>2
  <2>2. PICK i \in S : \A j \in S : i =< j
    <3> HIDE DEF S
    <3> QED
      BY <1>2, <1>6, <2>1, MinIn
  <2>3. i \in f .. l /\ after[i] # g[i] /\ i \in D /\ ~ (i < f)
    BY <1>2, <2>2
  <2>4. after[i] = Applied(after[i - 1], order[i])
    BY <1>5, <2>3
  <2>5. after[i - 1] = g[i - 1]
    <3>1. CASE i = f
      BY <1>2, <1>5, <3>1
    <3>2. CASE i # f
      <4>1. i - 1 \in f .. l /\ ~ (i =< i - 1)
        BY <1>2, <2>3, <3>2
      <4>2. i - 1 \notin S
        BY <2>2, <4>1
      <4> QED
        BY <4>1, <4>2
    <3> QED
      BY <3>1, <3>2
  <2>6. g[i] = CoinsOf(order[i])
    BY <2>3
  <2> QED
    BY <1>3, <2>3, <2>4, <2>5, <2>6
<1>7. l \in f .. l /\ l \in D /\ g[l] = CoinsOf(order[l])
  BY <1>2
<1>8. after[l] = g[l]
  <2> HIDE DEF after, g
  <2> QED
    BY <1>6, <1>7
<1> QED
  BY <1>1, <1>7, <1>8 DEF l

(* No block above the coins' best, on a line, is no block out of sync.      *)
LEMMA NothingAbove ==
  ASSUME Shape, IndexOnDisk, StandsOnDisk, Line(dIndex), NEW order \in ByHeight(dIndex),
         Height[dBest] <= dFileHeight, OutOfSync(order), Above(order) = {}
  PROVE  FALSE
<1> DEFINE n == Len(order)
           H == Height[dBest]
           T == {i \in 1 .. n : Height[order[i]] > H}
           h == [i \in 1 .. n |-> Height[order[i]]]
<1>1. n \in Nat /\ DOMAIN order = 1 .. n /\ \A i \in 1 .. n : order[i] \in dIndex
  BY OrderIsOfIndex
<1>2. /\ dIndex \subseteq Block /\ H \in Nat /\ \A i \in 1 .. n : Height[order[i]] \in Nat
  BY <1>1 DEF Shape
<1>3. T = {}
  <2> SUFFICES ASSUME T # {} PROVE FALSE
    OBVIOUS
  <2>1. PICK i \in T : \A j \in T : i =< j
    <3>1. T \in SUBSET (1 .. n)
      OBVIOUS
    <3> HIDE DEF T
    <3> QED
      BY <1>1, <3>1, MinIn
  <2>2. i \in 1 .. n /\ Height[order[i]] > H /\ order[i] # Genesis
    BY <1>2, <2>1
  <2>3. i - 1 \in 1 .. n /\ order[i - 1] = Parent[order[i]]
    BY <1>1, <2>2, OrderOfLine
  <2>4. Height[order[i]] = Height[order[i - 1]] + 1
    BY <1>1, <1>2, <2>2, <2>3
  <2>5. ~ (Height[order[i - 1]] > H)
    <3>1. ~ (i =< i - 1)
      BY <2>2
    <3>2. i - 1 \notin T
      <4> HIDE DEF T
      <4> QED
        BY <2>1, <3>1
    <3>3. \A j \in 1 .. n : Height[order[j]] > H => j \in T
      OBVIOUS
    <3> HIDE DEF T, n, H
    <3> QED
      BY <2>3, <3>2, <3>3
  <2>6. Height[order[i]] = H + 1
    <3>1. H \in Nat /\ Height[order[i - 1]] \in Nat
      BY <1>2, <2>3
    <3> HIDE DEF T, H, n
    <3> QED
      BY <2>2, <2>4, <2>5, <3>1
  <2> QED
    BY <1>1, <2>2, <2>6 DEF Above
<1>4. h \in Injection(1 .. n, 0 .. H)
  <2>1. h \in [1 .. n -> 0 .. H]
    BY <1>2, <1>3
  <2>2. ASSUME NEW i \in 1 .. n, NEW j \in 1 .. n, h[i] = h[j] PROVE i = j
    <3>1. i < j => Height[order[i]] < Height[order[j]]
      BY <1>1, OrderOfLine
    <3>2. j < i => Height[order[j]] < Height[order[i]]
      BY <1>1, OrderOfLine
    <3> QED
      BY <1>2, <2>2, <3>1, <3>2
  <2> QED
    BY <2>1, <2>2 DEF Injection, IsInjective
<1>5. n <= H + 1
  <2>1. Cardinality(1 .. n) = n
    <3> HIDE DEF n
    <3>1. n \in Int /\ 1 \in Int /\ (1 > n => n = 0)
      BY <1>1
    <3>2. Cardinality(1 .. n) = IF 1 > n THEN 0 ELSE n - 1 + 1
      BY <3>1, FS_Interval
    <3> QED
      BY <3>1, <3>2
  <2>2. H \in Int /\ 0 \in Int /\ ~ (0 > H)
    BY <1>2
  <2>3. IsFiniteSet(0 .. H) /\ Cardinality(0 .. H) = H + 1
    <3> HIDE DEF H
    <3>1. IsFiniteSet(0 .. H) /\ Cardinality(0 .. H) = H - 0 + 1
      BY <2>2, FS_Interval
    <3> QED
      BY <2>2, <3>1
  <2>4. Cardinality(1 .. n) <= Cardinality(0 .. H)
    BY <1>4, <2>3, FS_Injection
  <2> QED
    BY <2>1, <2>3, <2>4
<1> QED
  BY <1>1, <1>2, <1>5 DEF OutOfSync, Shape

-----------------------------------------------------------------------------
(* The invariant                                                            *)

LEMMA InitIInv == Init => IInv
<1> SUFFICES ASSUME Init PROVE IInv
  OBVIOUS
<1>1. Shape
  BY DEF Init, Shape
<1>2. IndexOnDisk
  BY DEF Init, IndexOnDisk, ClosedUnderParent
<1>3. StandsOnDisk
  BY DEF Init, StandsOnDisk
<1>4. UndoFollows
  BY AncGenesis DEF Init, UndoFollows
<1>5. CoinsMatchBest
  BY DEF Init, CoinsMatchBest
<1> QED
  BY <1>1, <1>2, <1>3, <1>4, <1>5 DEF IInv

LEMMA StoreBlockKeeps ==
  ASSUME IInv, NEW b \in Block, StoreBlock(b)
  PROVE  IInv'
<1>1. Shape'
  BY DEF IInv, Shape, StoreBlock, blockDb, coinsDb
<1>2. IndexOnDisk'
  BY DEF IInv, Shape, IndexOnDisk, StoreBlock, Running, ClosedUnderParent, blockDb, coinsDb
<1>3. StandsOnDisk' /\ UndoFollows' /\ CoinsMatchBest'
  BY DEF IInv, StandsOnDisk, UndoFollows, CoinsMatchBest, StoreBlock, Running, blockDb, coinsDb
<1> QED
  BY <1>1, <1>2, <1>3 DEF IInv

LEMMA ConnectTipKeeps ==
  ASSUME IInv, NEW b \in Block, ConnectTip(b)
  PROVE  IInv'
<1>1. b \in Block \ {Genesis} /\ Parent[b] = tip /\ best = tip /\ b \in index
  <2>1. PICK m \in Block : m \in index /\ b \in Anc[m]
    BY DEF ConnectTip, Better
  <2>2. Anc[m] \subseteq index
    BY <2>1, AncLeast DEF IInv, Shape, IndexOnDisk
  <2>3. QED
    BY <2>1, <2>2 DEF ConnectTip
<1>2. Shape'
  BY DEF IInv, Shape, ConnectTip, coinsDb
<1>3. IndexOnDisk'
  <2>1. ClosedUnderParent(index)' /\ ClosedUnderParent(dIndex)'
    BY <1>1 DEF IInv, IndexOnDisk, StandsOnDisk, ConnectTip, ClosedUnderParent
  <2>2. QED
    BY <1>1, <2>1 DEF IInv, IndexOnDisk, ConnectTip
<1>4. StandsOnDisk'
  BY DEF IInv, StandsOnDisk, ConnectTip, Running, coinsDb
<1>5. UndoFollows'
  <2>1. Anc[b] = Anc[tip] \union {b}
    BY <1>1, AncParent
  <2>2. QED
    BY <1>1, <2>1 DEF IInv, UndoFollows, ConnectTip, coinsDb
<1>6. CoinsMatchBest'
  BY <1>1, ConnectCoins DEF IInv, CoinsMatchBest, ConnectTip, coinsDb
<1> QED
  BY <1>2, <1>3, <1>4, <1>5, <1>6 DEF IInv

LEMMA DisconnectTipKeeps ==
  ASSUME IInv, DisconnectTip
  PROVE  IInv'
<1>1. tip \in Block \ {Genesis} /\ best = tip /\ Parent[tip] \in Block
  BY DEF IInv, Shape, DisconnectTip
<1>2. Shape'
  BY <1>1 DEF IInv, Shape, DisconnectTip, blockDb, coinsDb
<1>3. IndexOnDisk'
  BY DEF IInv, IndexOnDisk, DisconnectTip, blockDb, coinsDb
<1>4. StandsOnDisk'
  BY <1>1 DEF IInv, IndexOnDisk, StandsOnDisk, ClosedUnderParent, DisconnectTip, Running,
              blockDb, coinsDb
<1>5. UndoFollows'
  <2>1. Anc[Parent[tip]] \subseteq Anc[tip]
    BY <1>1, AncParent
  <2>2. QED
    BY <1>1, <2>1 DEF IInv, UndoFollows, DisconnectTip, blockDb, coinsDb
<1>6. CoinsMatchBest'
  BY <1>1, DisconnectCoins DEF IInv, CoinsMatchBest, DisconnectTip, blockDb, coinsDb
<1> QED
  BY <1>2, <1>3, <1>4, <1>5, <1>6 DEF IInv

(* The steps that only begin or give up a flush.                            *)
LEMMA BeginFlushKeeps ==
  ASSUME IInv, BeginFlush \/ PrepareShutdown \/ SkipFlush \/ DiskFull
  PROVE  IInv'
<1> USE DEF BeginFlush, PrepareShutdown, SkipFlush, DiskFull, memory, blockDb, coinsDb
<1>1. Shape'
  BY DEF IInv, Shape, Running
<1>2. IndexOnDisk'
  BY DEF IInv, IndexOnDisk, Running
<1>3. StandsOnDisk'
  BY DEF IInv, Shape, StandsOnDisk, Running
<1>4. UndoFollows'
  BY DEF IInv, UndoFollows
<1>5. CoinsMatchBest'
  BY DEF IInv, CoinsMatchBest
<1> QED
  BY <1>1, <1>2, <1>3, <1>4, <1>5 DEF IInv

LEMMA FlushIndexKeeps ==
  ASSUME IInv, FlushIndex
  PROVE  IInv'
<1>1. dIndex' = index
  BY DEF IInv, IndexOnDisk, FlushIndex
<1>2. Shape'
  BY DEF IInv, Shape, FlushIndex, coinsDb
<1>3. IndexOnDisk'
  BY <1>1 DEF IInv, IndexOnDisk, FlushIndex
<1>4. StandsOnDisk'
  BY <1>1 DEF IInv, IndexOnDisk, StandsOnDisk, FlushIndex, coinsDb
<1>5. UndoFollows' /\ CoinsMatchBest'
  BY DEF IInv, UndoFollows, CoinsMatchBest, FlushIndex, coinsDb
<1> QED
  BY <1>2, <1>3, <1>4, <1>5 DEF IInv

LEMMA FlushCoinsKeeps ==
  ASSUME IInv, FlushCoins
  PROVE  IInv'
<1>1. Shape'
  BY DEF IInv, Shape, FlushCoins, blockDb
<1>2. IndexOnDisk'
  BY DEF IInv, IndexOnDisk, FlushCoins, blockDb
<1>3. StandsOnDisk'
  BY DEF IInv, StandsOnDisk, FlushCoins, blockDb
<1>4. UndoFollows'
  BY DEF IInv, IndexOnDisk, UndoFollows, FlushCoins, blockDb
<1>5. CoinsMatchBest'
  BY DEF IInv, CoinsMatchBest, FlushCoins, blockDb
<1> QED
  BY <1>1, <1>2, <1>3, <1>4, <1>5 DEF IInv

(* The process ends, and only what is on disk is left.                      *)
LEMMA EndKeeps ==
  ASSUME IInv, RecordShutdown \/ Crash
  PROVE  IInv'
<1> USE DEF RecordShutdown, Crash, Forgotten, blockDb, coinsDb
<1>1. Shape'
  BY DEF IInv, Shape
<1>2. IndexOnDisk'
  BY DEF IInv, IndexOnDisk
<1>3. StandsOnDisk'
  BY DEF IInv, StandsOnDisk
<1>4. UndoFollows'
  BY DEF IInv, UndoFollows
<1>5. CoinsMatchBest'
  BY DEF IInv, CoinsMatchBest
<1> QED
  BY <1>1, <1>2, <1>3, <1>4, <1>5 DEF IInv

(* A start without a replay: VerifyDB finds nothing wrong.                  *)
LEMMA StartKeeps ==
  ASSUME IInv, Start
  PROVE  IInv'
<1> USE DEF Start, Loaded, blockDb
<1>1. ~ replayed => VerifyDB(dCoins, dBest)
  BY DEF IInv, UndoFollows, CoinsMatchBest, VerifyDB
<1> HIDE DEF VerifyDB
<1>2. VerifyDB(dCoins, dBest) \in BOOLEAN
  BY DEF VerifyDB
<1>3. Shape'
  BY <1>2 DEF IInv, Shape
<1>4. IndexOnDisk'
  BY DEF IInv, IndexOnDisk
<1>5. StandsOnDisk'
  BY DEF IInv, StandsOnDisk
<1>6. UndoFollows'
  BY DEF IInv, IndexOnDisk, UndoFollows
<1>7. CoinsMatchBest'
  BY <1>1 DEF IInv, CoinsMatchBest
<1> QED
  BY <1>3, <1>4, <1>5, <1>6, <1>7 DEF IInv

(* A start with one: all that is known is that it ends on a block of the    *)
(* index.                                                                   *)
LEMMA ReplayKeeps ==
  ASSUME IInv, StartReplaying \/ StartReplayingGenesis
  PROVE  IInv'
<1>1. PICK b, S : b \in dIndex /\ Loaded(S, b) /\ replayed' = TRUE /\ mode = "down"
  <2>1. CASE StartReplaying
    <3>1. PICK order \in ByHeight(dIndex) :
             /\ OutOfSync(order) /\ Above(order) # {}
             /\ Loaded(Replayed(order), order[LastReplayed(order)])
      BY <2>1 DEF StartReplaying
    <3>2. order[LastReplayed(order)] \in dIndex
      BY <3>1, ReplayEndsOnDisk DEF IInv
    <3>3. QED
      BY <2>1, <3>1, <3>2 DEF StartReplaying
  <2>2. CASE StartReplayingGenesis
    <3>1. PICK order \in ByHeight(dIndex) :
             OutOfSync(order) /\ Loaded(Applied(dCoins, order[1]), order[1])
      BY <2>2 DEF StartReplayingGenesis
    <3>2. order[1] \in dIndex
      BY <3>1, ReplayEndsOnDisk DEF IInv
    <3>3. QED
      BY <2>2, <3>1, <3>2 DEF StartReplayingGenesis
  <2>3. QED
    BY <2>1, <2>2
<1> USE DEF Loaded, blockDb
<1>2. VerifyDB(S, b) \in BOOLEAN
  BY DEF VerifyDB
<1>3. Shape'
  BY <1>1, <1>2 DEF IInv, Shape
<1>4. IndexOnDisk'
  BY <1>1 DEF IInv, IndexOnDisk
<1>5. StandsOnDisk'
  BY <1>1 DEF IInv, StandsOnDisk
<1>6. UndoFollows' /\ CoinsMatchBest'
  BY <1>1 DEF UndoFollows, CoinsMatchBest
<1> QED
  BY <1>3, <1>4, <1>5, <1>6 DEF IInv

LEMMA ReindexKeeps ==
  ASSUME Reindex
  PROVE  IInv'
<1> USE DEF Reindex
<1>1. Shape'
  BY DEF Shape
<1>2. IndexOnDisk'
  BY DEF IndexOnDisk, ClosedUnderParent
<1>3. StandsOnDisk'
  BY DEF StandsOnDisk
<1>4. UndoFollows'
  BY AncGenesis DEF UndoFollows
<1>5. CoinsMatchBest'
  BY DEF CoinsMatchBest
<1> QED
  BY <1>1, <1>2, <1>3, <1>4, <1>5 DEF IInv

LEMMA NextIInv == IInv /\ [Next]_vars => IInv'
<1> SUFFICES ASSUME IInv, [Next]_vars PROVE IInv'
  OBVIOUS
<1>1. CASE \E b \in Block : StoreBlock(b) \/ ConnectTip(b)
  BY <1>1, StoreBlockKeeps, ConnectTipKeeps
<1>2. CASE DisconnectTip
  BY <1>2, DisconnectTipKeeps
<1>3. CASE BeginFlush \/ PrepareShutdown \/ SkipFlush \/ DiskFull
  BY <1>3, BeginFlushKeeps
<1>4. CASE FlushIndex \/ FlushCoins
  BY <1>4, FlushIndexKeeps, FlushCoinsKeeps
<1>5. CASE RecordShutdown \/ Crash
  BY <1>5, EndKeeps
<1>6. CASE Start \/ StartReplaying \/ StartReplayingGenesis
  BY <1>6, StartKeeps, ReplayKeeps
<1>7. CASE Reindex
  BY <1>7, ReindexKeeps
<1>8. CASE UNCHANGED vars
  BY <1>8 DEF vars, memory, blockDb, coinsDb, IInv, Shape, IndexOnDisk, StandsOnDisk,
             UndoFollows, CoinsMatchBest
<1> QED
  BY <1>1, <1>2, <1>3, <1>4, <1>5, <1>6, <1>7, <1>8 DEF Next

LEMMA Invariant == Spec => []IInv
  BY InitIInv, NextIInv, PTL DEF Spec

-----------------------------------------------------------------------------
(* Results                                                                  *)

(* Whenever the process dies, the coins on disk belong to a block that is   *)
(* in the block database with all its ancestors and their undo data.        *)
THEOREM DiskStaysWhole == Spec => []DiskChainWhole
<1>1. IInv => DiskChainWhole
  BY DEF IInv, IndexOnDisk, StandsOnDisk, UndoFollows, DiskChainWhole
<1> QED
  BY <1>1, Invariant, PTL

(* Without a replay the coins, in memory and on disk, are at every moment   *)
(* those of their best block, and VerifyDB accepts them at every start.     *)
THEOREM OnlyReplayCorrupts == Spec => []CoinsMatchBest
<1>1. IInv => CoinsMatchBest
  BY DEF IInv
<1> QED
  BY <1>1, Invariant, PTL

(* The assertions of ConnectBlock and DisconnectBlock hold in a node that   *)
(* is not on its way down.                                                  *)
THEOREM ViewStaysAtTip == Spec => []ViewAtTip
<1>1. IInv => ViewAtTip
  BY DEF IInv, StandsOnDisk, ViewAtTip
<1> QED
  BY <1>1, Invariant, PTL

(* On an index without forks whose last file reaches up to the coins, a     *)
(* replay is what it is meant to be: it moves the coins to a block above,   *)
(* and leaves exactly the coins of that block.                              *)
THEOREM ReplayOfLineIsExact == Spec => ReplayMovesForward
<1> DEFINE Forward == /\ mode = "down" /\ replayed' # replayed
                      /\ Line(dIndex) /\ Height[dBest] <= dFileHeight
                      => dBest \in Anc[dBest'] \ {dBest'} /\ dCoins' = CoinsOf(dBest')
<1>1. IInv /\ [Next]_vars => [Forward]_vars
  <2> SUFFICES ASSUME IInv, Next, mode = "down", replayed' # replayed,
                      Line(dIndex), Height[dBest] <= dFileHeight
               PROVE  dBest \in Anc[dBest'] \ {dBest'} /\ dCoins' = CoinsOf(dBest')
    BY DEF vars
  <2>1. ~ replayed /\ (StartReplaying \/ StartReplayingGenesis)
    <3>1. StartReplaying \/ StartReplayingGenesis
      BY DEF Next, StoreBlock, ConnectTip, DisconnectTip, BeginFlush, PrepareShutdown,
           SkipFlush, DiskFull, FlushIndex, FlushCoins, RecordShutdown, Crash, Start, Reindex,
           Running
    <3> QED
      BY <3>1 DEF StartReplaying, StartReplayingGenesis, IInv, Shape
  <2>2. dCoins = CoinsOf(dBest)
    BY <2>1 DEF IInv, CoinsMatchBest
  <2>3. ~ StartReplayingGenesis
    BY NothingAbove DEF StartReplayingGenesis, IInv
  <2>4. PICK order \in ByHeight(dIndex) :
           /\ OutOfSync(order) /\ Above(order) # {}
           /\ Loaded(Replayed(order), order[LastReplayed(order)])
    BY <2>1, <2>3 DEF StartReplaying
  <2> DEFINE b == order[LastReplayed(order)]
  <2>5. dBest' = b /\ dCoins' = CoinsOf(b)
    BY <2>2, <2>4, ReplayConnects DEF Loaded, IInv
  <2>6. b \in dIndex /\ Height[b] > Height[dBest]
    <3>1. LastReplayed(order) \in FirstReplayed(order) .. LastReplayed(order)
      BY <2>4, ReplayedRange DEF IInv
    <3> QED
      BY <2>4, <3>1, ReplayedRange DEF IInv
  <2>7. dBest \in Anc[b] /\ dBest # b
    <3>1. /\ dBest \in dIndex /\ b \in Block /\ dBest \in Block
          /\ Height[b] \in Nat /\ Height[dBest] \in Nat
      BY <2>6 DEF IInv, Shape, StandsOnDisk
    <3>2. dBest \in Anc[b] \/ b \in Anc[dBest]
      BY <2>6, <3>1 DEF Line
    <3> HIDE DEF b
    <3> QED
      BY <2>6, <3>1, <3>2, AncLower
  <2> QED
    BY <2>5, <2>7
<1> QED
  BY <1>1, Invariant, PTL DEF Spec, ReplayMovesForward
=============================================================================
