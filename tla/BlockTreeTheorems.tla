-------------------------- MODULE BlockTreeTheorems --------------------------
(* Facts about the ancestors of a block, for every tree of blocks.  Anc is  *)
(* a least set, so what holds of a block and is handed down from child to   *)
(* parent holds of all its ancestors: that is how each of them is proved.   *)
EXTENDS BlockTree, FiniteSetTheorems, TLAPS

USE BlockTreeAssumption

(* Ancestors are blocks, and a block is one of its own.                     *)
LEMMA AncSelf == \A b \in Block : b \in Anc[b] /\ Anc[b] \subseteq Block
  BY DEF Anc

(* Whoever holds b and is closed under Parent holds b's ancestors.          *)
LEMMA AncLeast ==
  ASSUME NEW b \in Block, NEW S \in SUBSET Block, b \in S, ClosedUnderParent(S)
  PROVE  Anc[b] \subseteq S
  BY DEF Anc

(* The ancestors of a block are closed under Parent.                        *)
LEMMA AncClosed == \A b \in Block : ClosedUnderParent(Anc[b])
<1>1. SUFFICES ASSUME NEW b \in Block, NEW x \in Anc[b] \ {Genesis}
               PROVE  Parent[x] \in Anc[b]
  BY DEF ClosedUnderParent
<1>2. x \in Block /\ Parent[x] \in Block
  BY AncSelf
<1>3. ASSUME NEW S \in SUBSET Block, b \in S, ClosedUnderParent(S)
      PROVE  Parent[x] \in S
  <2>1. x \in S
    BY <1>3, AncLeast
  <2>2. QED
    BY <1>3, <2>1 DEF ClosedUnderParent
<1>4. QED
  BY <1>2, <1>3 DEF Anc

(* An ancestor's ancestors are the block's own.                             *)
LEMMA AncTransitive == \A b \in Block : \A a \in Anc[b] : Anc[a] \subseteq Anc[b]
<1>1. SUFFICES ASSUME NEW b \in Block, NEW a \in Anc[b]
               PROVE  Anc[a] \subseteq Anc[b]
  OBVIOUS
<1>2. a \in Block /\ Anc[b] \in SUBSET Block
  BY AncSelf
<1>3. QED
  BY <1>2, AncLeast, AncClosed

(* A strict ancestor is lower.                                              *)
LEMMA AncLower == \A b \in Block : \A a \in Anc[b] : a # b => Height[a] < Height[b]
<1>1. SUFFICES ASSUME NEW b \in Block
               PROVE  \A a \in Anc[b] : a # b => Height[a] < Height[b]
  OBVIOUS
<1> DEFINE S == {x \in Block : x = b \/ Height[x] < Height[b]}
<1>2. ASSUME NEW x \in S \ {Genesis} PROVE Parent[x] \in S
  <2>1. Parent[x] \in Block /\ Height[x] = Height[Parent[x]] + 1
    OBVIOUS
  <2>2. Height[Parent[x]] \in Nat /\ Height[x] \in Nat /\ Height[b] \in Nat
    BY <2>1
  <2>3. QED
    BY <2>1, <2>2
<1>3. ClosedUnderParent(S)
  BY <1>2 DEF ClosedUnderParent
<1>4. b \in S /\ S \in SUBSET Block
  OBVIOUS
<1>5. Anc[b] \subseteq S
  BY <1>3, <1>4, AncLeast
<1>6. QED
  BY <1>5

(* Genesis has no ancestor but itself.                                      *)
LEMMA AncGenesis == Anc[Genesis] = {Genesis}
<1>1. ClosedUnderParent({Genesis})
  BY DEF ClosedUnderParent
<1>2. Anc[Genesis] \subseteq {Genesis}
  BY <1>1, AncLeast
<1>3. QED
  BY <1>2, AncSelf

(* A block's ancestors are its parent's and the block.                      *)
LEMMA AncParent ==
  \A b \in Block \ {Genesis} : Anc[b] = Anc[Parent[b]] \union {b} /\ b \notin Anc[Parent[b]]
<1>1. SUFFICES ASSUME NEW b \in Block \ {Genesis}
               PROVE  Anc[b] = Anc[Parent[b]] \union {b} /\ b \notin Anc[Parent[b]]
  OBVIOUS
<1>2. Parent[b] \in Block /\ Parent[b] \in Anc[b]
  BY AncSelf, AncClosed DEF ClosedUnderParent
<1>3. Anc[Parent[b]] \subseteq Anc[b]
  BY <1>2, AncTransitive
<1>4. ClosedUnderParent(Anc[Parent[b]] \union {b})
  BY <1>2, AncSelf, AncClosed DEF ClosedUnderParent
<1>5. Anc[b] \subseteq Anc[Parent[b]] \union {b}
  <2>1. (Anc[Parent[b]] \union {b}) \in SUBSET Block
    BY <1>2, AncSelf
  <2>2. QED
    BY <1>4, <2>1, AncLeast
<1>6. b \notin Anc[Parent[b]]
  <2>1. Height[b] = Height[Parent[b]] + 1 /\ Height[Parent[b]] \in Nat
    BY <1>2
  <2>2. ASSUME b \in Anc[Parent[b]] PROVE FALSE
    <3>1. b # Parent[b]
      BY <2>1
    <3>2. Height[b] < Height[Parent[b]]
      BY <1>2, <2>2, <3>1, AncLower
    <3>3. QED
      BY <2>1, <3>2
  <2>3. QED
    BY <2>2
<1>7. QED
  BY <1>3, <1>5, <1>6, AncSelf

(* A strict ancestor has less work.                                         *)
LEMMA AncLessWork ==
  \A b \in Block : \A a \in Anc[b] : a # b => ChainWork[a] < ChainWork[b]
<1>1. SUFFICES ASSUME NEW b \in Block
               PROVE  \A a \in Anc[b] : a # b => ChainWork[a] < ChainWork[b]
  OBVIOUS
<1> DEFINE S == {x \in Block : x = b \/ ChainWork[x] < ChainWork[b]}
<1>2. ASSUME NEW x \in S \ {Genesis} PROVE Parent[x] \in S
  <2>1. Parent[x] \in Block /\ ChainWork[x] > ChainWork[Parent[x]]
    OBVIOUS
  <2>2. ChainWork[Parent[x]] \in Nat /\ ChainWork[x] \in Nat /\ ChainWork[b] \in Nat
    BY <2>1
  <2>3. QED
    BY <2>1, <2>2
<1>3. ClosedUnderParent(S)
  BY <1>2 DEF ClosedUnderParent
<1>4. b \in S /\ S \in SUBSET Block
  OBVIOUS
<1>5. Anc[b] \subseteq S
  BY <1>3, <1>4, AncLeast
<1>6. QED
  BY <1>5

(* The ancestors of a block lie on one path.                                *)
LEMMA AncComparable ==
  ASSUME NEW d \in Block, NEW a \in Anc[d], NEW x \in Anc[d]
  PROVE  x \in Anc[a] \/ a \in Anc[x]
<1>1. a \in Block
  BY AncSelf
<1> DEFINE S == Anc[a] \union {y \in Block : a \in Anc[y]}
<1>2. d \in S /\ S \in SUBSET Block
  BY <1>1, AncSelf
<1>3. ASSUME NEW y \in S \ {Genesis} PROVE Parent[y] \in S
  <2>1. y \in Block /\ Parent[y] \in Block
    BY <1>2
  <2>2. CASE y \in Anc[a]
    BY <1>1, <2>2, AncClosed DEF ClosedUnderParent
  <2>3. CASE a \in Anc[y] /\ a # y
    BY <2>1, <2>3, AncParent
  <2>4. QED
    BY <1>1, <2>2, <2>3, AncSelf
<1>4. ClosedUnderParent(S)
  BY <1>3 DEF ClosedUnderParent
<1>5. Anc[d] \subseteq S
  BY <1>2, <1>4, AncLeast
<1>6. QED
  BY <1>5

(* Every block descends from Genesis.  Else Parent would map the finitely   *)
(* many ancestors of b one to one into those other than b.                  *)
LEMMA AncRoot == \A b \in Block : Genesis \in Anc[b]
<1>1. SUFFICES ASSUME NEW b \in Block, Genesis \notin Anc[b] PROVE FALSE
  OBVIOUS
<1> DEFINE A == Anc[b]
           f == [x \in A |-> Parent[x]]
<1>2. A \subseteq Block \ {Genesis} /\ b \in A
  BY <1>1, AncSelf
<1>3. \A x \in A : /\ Parent[x] \in A /\ Height[x] = Height[Parent[x]] + 1
                   /\ Height[x] \in Nat /\ Height[Parent[x]] \in Nat
  <2>1. \A x \in A : Parent[x] \in A
    BY <1>2, AncClosed DEF ClosedUnderParent
  <2>2. QED
    BY <1>2, <2>1
<1>4. \A x \in A : x # b => Height[x] < Height[b]
  BY AncLower
<1>5. f \in [A -> A \ {b}]
  <2>1. ASSUME NEW x \in A PROVE Parent[x] # b
    BY <1>2, <1>3, <1>4
  <2>2. QED
    BY <1>3, <2>1
<1>6. ASSUME NEW x \in A, NEW y \in A, x # y PROVE f[x] # f[y]
  <2>1. ASSUME NEW u \in A, NEW v \in A, u # v, u \in Anc[v] PROVE Parent[u] # Parent[v]
    <3>1. u \in Anc[Parent[v]] /\ Parent[v] \in Block
      BY <1>2, <2>1, AncParent
    <3>2. u = Parent[v] \/ Height[u] < Height[Parent[v]]
      BY <3>1, AncLower
    <3>3. QED
      BY <1>3, <3>2
  <2>2. x \in Anc[y] \/ y \in Anc[x]
    BY AncComparable
  <2>3. QED
    BY <1>6, <2>1, <2>2
<1>7. IsFiniteSet(A) /\ IsFiniteSet(A \ {b})
  BY <1>2, FS_Subset
<1>8. Cardinality(A \ {b}) = Cardinality(A) - 1 /\ Cardinality(A) \in Nat
  BY <1>2, <1>7, FS_RemoveElement, FS_CardinalityType
<1>9. Cardinality(A \ {b}) < Cardinality(A)
  BY <1>8
<1>10. \E x, y \in A : x # y /\ f[x] = f[y]
  <2> HIDE DEF A, f
  <2>1. QED
    BY <1>5, <1>7, <1>9, FS_PigeonHole
<1>11. QED
  BY <1>6, <1>10

(* A set of blocks has one with the most work, and one that is highest: the *)
(* one with the fewest others above it.                                     *)
LEMMA MaxExists ==
  ASSUME NEW S \in SUBSET Block, S # {}, NEW f \in [Block -> Nat]
  PROVE  \E x \in S : \A y \in S : f[y] <= f[x]
<1> DEFINE Above(x) == {y \in S : f[x] < f[y]}
           T == {Above(x) : x \in S}
<1>1. IsFiniteSet(S)
  BY FS_Subset
<1>2. T \subseteq FiniteSubsetsOf(S) /\ T # {}
  <2>1. ASSUME NEW x \in S PROVE Above(x) \in FiniteSubsetsOf(S)
    <3>1. Above(x) \in SUBSET S
      OBVIOUS
    <3>2. IsFiniteSet(Above(x))
      BY <1>1, <3>1, FS_Subset
    <3>3. QED
      BY <3>1, <3>2 DEF FiniteSubsetsOf
  <2> HIDE DEF Above
  <2>2. QED
    BY <2>1
<1>3. \E U \in T : \A V \in T : ~ (<<V, U>> \in StrictSubsetOrdering(S))
  <2> HIDE DEF T
  <2>1. QED
    BY <1>2, WFMin, FS_StrictSubsetOrderingWellFounded
<1>4. PICK x \in S : \A V \in T : ~ (<<V, Above(x)>> \in StrictSubsetOrdering(S))
  BY <1>3
<1>5. ASSUME NEW y \in S, f[x] < f[y] PROVE FALSE
  <2>1. f[x] \in Nat /\ f[y] \in Nat /\ \A z \in S : f[z] \in Nat
    OBVIOUS
  <2>2. y \in Above(x) /\ y \notin Above(y)
    BY <1>5, <2>1
  <2>3. \A z \in S : f[y] < f[z] => f[x] < f[z]
    BY <1>5, <2>1
  <2>4. <<Above(y), Above(x)>> \in StrictSubsetOrdering(S)
    BY <2>2, <2>3 DEF StrictSubsetOrdering
  <2>5. QED
    BY <1>4, <2>4
<1>6. \A y \in S : f[x] \in Nat /\ f[y] \in Nat
  OBVIOUS
<1>7. QED
  BY <1>5, <1>6

(* And one that is lowest.                                                 *)
LEMMA LowestExists ==
  ASSUME NEW S \in SUBSET Block, S # {}
  PROVE  \E x \in S : \A y \in S : Height[x] <= Height[y]
<1>1. PICK h \in S : \A y \in S : Height[y] <= Height[h]
  BY MaxExists
<1> DEFINE f == [b \in Block |-> IF Height[b] <= Height[h] THEN Height[h] - Height[b] ELSE 0]
<1>2. \A b \in Block : Height[b] \in Nat /\ Height[h] \in Nat
  OBVIOUS
<1>3. f \in [Block -> Nat]
  BY <1>2
<1>4. PICK x \in S : \A y \in S : f[y] <= f[x]
  <2> HIDE DEF f
  <2>1. QED
    BY <1>3, MaxExists
<1>5. ASSUME NEW y \in S PROVE Height[x] <= Height[y]
  <2>1. f[y] = Height[h] - Height[y] /\ f[x] = Height[h] - Height[x]
    BY <1>1
  <2>2. f[y] <= f[x]
    BY <1>4
  <2>3. QED
    BY <1>2, <2>1, <2>2
<1>6. QED
  BY <1>5

(* On one path the lower of two blocks is the other's ancestor.             *)
LEMMA LowerIsAncestor ==
  ASSUME NEW d \in Block, NEW a \in Anc[d], NEW x \in Anc[d], Height[a] <= Height[x]
  PROVE  a \in Anc[x]
<1>1. a \in Block /\ x \in Block /\ Height[a] \in Nat /\ Height[x] \in Nat
  BY AncSelf
<1>2. x \in Anc[a] \/ a \in Anc[x]
  BY AncComparable
<1>3. CASE x \in Anc[a]
  BY <1>1, <1>3, AncLower, AncSelf
<1>4. QED
  BY <1>2, <1>3

(* And no two have the same height.                                         *)
LEMMA OnePerHeight ==
  ASSUME NEW d \in Block, NEW a \in Anc[d], NEW x \in Anc[d], Height[a] = Height[x]
  PROVE  a = x
<1>1. a \in Block /\ x \in Block /\ Height[a] \in Nat /\ Height[x] \in Nat
  BY AncSelf
<1>2. a \in Anc[x]
  BY <1>1, LowerIsAncestor
<1>3. QED
  BY <1>1, <1>2, AncLower

(* Below the end of a path each block has a child on it.                    *)
LEMMA ChildOnPath ==
  ASSUME NEW d \in Block, NEW a \in Anc[d], a # d
  PROVE  \E c \in Anc[d] \ {Genesis} : Parent[c] = a
<1>1. a \in Block /\ Anc[d] \subseteq Block
  BY AncSelf
<1> DEFINE S == {x \in Anc[d] : a \in Anc[x] /\ x # a}
<1>2. S # {} /\ S \in SUBSET Block
  BY <1>1, AncSelf
<1>3. PICK c \in S : \A y \in S : Height[c] <= Height[y]
  <2> HIDE DEF S
  <2>1. QED
    BY <1>2, LowestExists
<1>4. c \in Block \ {Genesis}
  BY <1>1, AncGenesis
<1>5. Parent[c] \in Anc[d] /\ a \in Anc[Parent[c]]
  <2>1. Parent[c] \in Anc[d]
    BY <1>4, AncClosed DEF ClosedUnderParent
  <2>2. QED
    BY <1>4, <2>1, AncParent
<1>6. Parent[c] \notin S
  <2>1. Height[c] = Height[Parent[c]] + 1 /\ Height[Parent[c]] \in Nat
    BY <1>4
  <2>2. QED
    BY <1>3, <2>1
<1>7. QED
  BY <1>4, <1>5, <1>6
=============================================================================
