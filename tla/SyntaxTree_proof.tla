-------------------------- MODULE SyntaxTree_proof --------------------------
(***************************************************************************)
(* Lemmas about the navigation of every tree, for the proofs of the        *)
(* modules that walk one, and about sets of natural numbers: the least     *)
(* member, and the member at a rank.                                       *)
(***************************************************************************)
EXTENDS SyntaxTree, FiniteSetTheorems, WellFoundedInduction, TLAPS

\* What proofs need of a tree, without its sequence type.
LEMMA TreeShape ==
  ASSUME NEW t, IsTree(t)
  PROVE  /\ Len(t) \in Nat \ {0}
         /\ \A k \in 1 .. Len(t) : t[k] \in Nat
         /\ t[1] = 0
         /\ \A k \in 2 .. Len(t) : t[k] >= 1 /\ t[k] <= t[k - 1] + 1
<1>1. Len(t) \in Nat \ {0} /\ \A k \in 1 .. Len(t) : t[k] \in Nat
  BY DEF IsTree
<1>2. \A k \in 2 .. Len(t) : t[k] >= 1 /\ t[k] <= t[k - 1] + 1
  <2> TAKE k \in 2 .. Len(t)
  <2>1. k - 1 \in 1 .. Len(t) - 1 /\ (k - 1) + 1 = k
    BY <1>1
  <2>. QED
    BY <2>1 DEF IsTree
<1>. QED
  BY <1>1, <1>2 DEF IsTree

\* A tree is not the nil tree.
LEMMA TreeNotNil == \A t : IsTree(t) => t # NilTree
  BY DEF IsTree, NilTree

\* FirstChild is 0 or the next node in document order, one level down.
LEMMA FirstChildLevel ==
  ASSUME NEW t, IsTree(t), NEW n \in Nodes(t)
  PROVE  \/ FirstChild(t, n) = 0
         \/ /\ FirstChild(t, n) = n + 1
            /\ n + 1 \in Nodes(t)
            /\ t[n + 1] = t[n] + 1
  BY DEF FirstChild, Nodes, IsTree

\* NextSibling is 0 or a node of the same level.
LEMMA NextSiblingLevel ==
  ASSUME NEW t, IsTree(t), NEW n \in Nodes(t)
  PROVE  \/ NextSibling(t, n) = 0
         \/ NextSibling(t, n) \in Nodes(t) /\ t[NextSibling(t, n)] = t[n]
  BY DEF NextSibling, IsNextSibling

\* Without a first child a node is the end of its own subtree.
LEMMA LeafEnds ==
  ASSUME NEW t, IsTree(t), NEW n \in Nodes(t), FirstChild(t, n) = 0
  PROVE  n = Len(t) \/ t[n + 1] <= t[n]
  BY DEF FirstChild, Nodes, IsTree

\* A non-empty set of numbers has a least element.
LEMMA LeastNat ==
  ASSUME NEW T, T \subseteq Nat, T # {}
  PROVE  \E x \in T : \A y \in T : x <= y
<1> DEFINE Less == {p \in Nat \X Nat : p[1] < p[2]}
<1>1. IsWellFoundedOn(Less, Nat)
  <2>1. Less = OpToRel(<, Nat)
    BY DEF OpToRel
  <2>. QED
    BY <2>1, NatLessThanWellFounded
<1>2. \A x, y \in T : <<y, x>> \notin Less => x <= y
  OBVIOUS
<1> HIDE DEF Less
<1>3. PICK x \in T : \A y \in T : <<y, x>> \notin Less
  BY <1>1, WFMin
<1>. QED
  BY <1>2, <1>3

\* Every node is below the root.
LEMMA RootSubtree ==
  ASSUME NEW t, IsTree(t), NEW m \in Nodes(t)
  PROVE  1 \in Nodes(t) /\ InSubtree(t, 1, m)
<1>1. \A k \in 2 .. m : t[k] > t[1]
  BY TreeShape DEF Nodes
<1>2. 1 \in Nodes(t) /\ 1 <= m
  BY TreeShape DEF Nodes
<1>. QED
  BY <1>1, <1>2 DEF InSubtree

\* A proper descendant m of n is found through the first child of n.
LEMMA FirstChildBefore ==
  ASSUME NEW t, IsTree(t), NEW n \in Nodes(t), NEW m \in Nodes(t),
         InSubtree(t, n, m), m # n
  PROVE  /\ FirstChild(t, n) = n + 1
         /\ n + 1 \in Nodes(t) /\ n + 1 <= m
         /\ t[n + 1] = t[n] + 1
         /\ InSubtree(t, n, n + 1)
<1>1. n < m /\ n + 1 \in Nodes(t) /\ n + 1 \in n + 1 .. m
  BY TreeShape DEF InSubtree, Nodes
<1>2. t[n + 1] > t[n] /\ t[n + 1] <= t[n] + 1
  <2>1. n + 1 \in 2 .. Len(t) /\ (n + 1) - 1 = n
    BY <1>1, TreeShape DEF Nodes
  <2>. QED
    BY <1>1, <2>1, TreeShape DEF InSubtree
<1>3. t[n] \in Nat /\ t[n + 1] \in Nat
  BY <1>1, TreeShape DEF Nodes
<1>. QED
  BY <1>1, <1>2, <1>3, TreeShape DEF FirstChild, InSubtree, Nodes

\* Between a child c of n and a later descendant m of n outside c's subtree
\* lies the next sibling of c, and all before it is c's subtree.
LEMMA NextSiblingBefore ==
  ASSUME NEW t, IsTree(t), NEW n \in Nodes(t), NEW c \in Nodes(t),
         NEW m \in Nodes(t),
         InSubtree(t, n, c), t[c] = t[n] + 1, InSubtree(t, n, m),
         c <= m, ~InSubtree(t, c, m)
  PROVE  LET s == NextSibling(t, c)
         IN  /\ s \in Nodes(t) /\ c < s /\ s <= m
             /\ t[s] = t[n] + 1
             /\ InSubtree(t, n, s)
             /\ \A k \in c .. s - 1 : InSubtree(t, c, k)
<1> DEFINE T == {k \in c + 1 .. m : ~(t[k] > t[c])}
<1>n. /\ Len(t) \in Nat /\ n \in Nat /\ c \in Nat /\ m \in Nat
      /\ n <= c /\ m <= Len(t)
      /\ \A k \in 1 .. Len(t) : t[k] \in Nat
  BY TreeShape DEF Nodes, InSubtree
<1>1. T # {} /\ T \subseteq Nat
  BY <1>n DEF InSubtree
<1>2. PICK s \in T : \A k \in T : s <= k
  <2> HIDE DEF T
  <2>. QED
    BY <1>1, LeastNat
<1>3. s \in c + 1 .. m /\ ~(t[s] > t[c])
  OBVIOUS
<1>4. \A k \in c + 1 .. s - 1 : t[k] > t[c]
  BY <1>2, <1>n
<1>5. t[s] > t[n]
  <2>1. s \in n + 1 .. m
    BY <1>3, <1>n
  <2>. QED
    BY <2>1 DEF InSubtree
<1>6. s \in Nodes(t) /\ t[s] = t[c]
  <2>1. s \in Nodes(t) /\ s \in 1 .. Len(t)
    BY <1>3, <1>n DEF Nodes
  <2>2. t[s] \in Nat /\ t[c] \in Nat /\ t[n] \in Nat
    BY <2>1, <1>n DEF Nodes
  <2>. QED
    BY <1>3, <1>5, <2>1, <2>2
<1>7. IsNextSibling(t, c, s)
  BY <1>3, <1>4, <1>6, <1>n DEF IsNextSibling
<1>8. \A x \in Nodes(t) : IsNextSibling(t, c, x) => x = s
  <2> SUFFICES ASSUME NEW x \in Nodes(t), IsNextSibling(t, c, x) PROVE x = s
    OBVIOUS
  <2>1. x \in Nat /\ s \in Nat /\ t[c] \in Nat
    BY <1>n, <1>6 DEF Nodes
  <2>2. ~(x < s)
    <3> SUFFICES ASSUME x < s PROVE FALSE
      OBVIOUS
    <3>1. x \in c + 1 .. s - 1
      BY <2>1, <1>n DEF IsNextSibling
    <3>. QED
      BY <3>1, <1>4, <2>1 DEF IsNextSibling
  <2>3. ~(s < x)
    <3> SUFFICES ASSUME s < x PROVE FALSE
      OBVIOUS
    <3>1. s \in c + 1 .. x - 1
      BY <2>1, <1>3, <1>n
    <3>. QED
      BY <3>1, <1>6, <2>1 DEF IsNextSibling
  <2>. QED
    BY <2>1, <2>2, <2>3
<1>9. NextSibling(t, c) = s
  BY <1>6, <1>7, <1>8 DEF NextSibling
<1>10. InSubtree(t, n, s)
  <2>1. \A k \in n + 1 .. s : k \in n + 1 .. m
    BY <1>3, <1>n
  <2>. QED
    BY <2>1, <1>3, <1>n DEF InSubtree
<1>11. \A k \in c .. s - 1 : InSubtree(t, c, k)
  BY <1>4, <1>3, <1>n DEF InSubtree
<1> HIDE DEF T
<1>. QED
  BY <1>3, <1>6, <1>9, <1>10, <1>11, <1>n

-----------------------------------------------------------------------------
(* How many members of a finite set of numbers are smaller than one        *)

Smaller(S, c) == {d \in S : d < c}

LEMMA SmallerFinite ==
  ASSUME NEW S, S \subseteq Nat, IsFiniteSet(S), NEW c \in Nat
  PROVE  IsFiniteSet(Smaller(S, c)) /\ Cardinality(Smaller(S, c)) \in Nat
  BY FS_Subset, FS_CardinalityType DEF Smaller

\* A member has fewer members below it than the set has, and every larger
\* member has more.
LEMMA RankGrows ==
  ASSUME NEW S, S \subseteq Nat, IsFiniteSet(S), NEW c \in S
  PROVE  /\ Cardinality(Smaller(S, c)) < Cardinality(S)
         /\ \A d \in S : c < d => Cardinality(Smaller(S, c)) < Cardinality(Smaller(S, d))
<1>1. ASSUME NEW T, IsFiniteSet(T), Smaller(S, c) \subseteq T, c \in T
      PROVE  Cardinality(Smaller(S, c)) < Cardinality(T)
  <2>1. /\ Cardinality(Smaller(S, c)) <= Cardinality(T)
        /\ Cardinality(T) = Cardinality(Smaller(S, c)) => T = Smaller(S, c)
    BY <1>1, FS_Subset
  <2>2. T # Smaller(S, c)
    BY <1>1 DEF Smaller
  <2>3. Cardinality(T) \in Nat /\ Cardinality(Smaller(S, c)) \in Nat
    BY <1>1, SmallerFinite, FS_CardinalityType
  <2>. QED
    BY <2>1, <2>2, <2>3
<1>2. Cardinality(Smaller(S, c)) < Cardinality(S)
  BY <1>1 DEF Smaller
<1>3. ASSUME NEW d \in S, c < d
      PROVE  Cardinality(Smaller(S, c)) < Cardinality(Smaller(S, d))
  <2>1. IsFiniteSet(Smaller(S, d)) /\ c \in Smaller(S, d)
    BY <1>3, SmallerFinite DEF Smaller
  <2>2. \A x \in Nat : x < c => x < d
    BY <1>3
  <2>3. Smaller(S, c) \subseteq Smaller(S, d)
    BY <2>2 DEF Smaller
  <2>. QED
    BY <1>1, <2>1, <2>3
<1>. QED
  BY <1>2, <1>3

\* There is a member at every rank: the least rank without one would have
\* the member after its predecessor's.
LEMMA RankTaken ==
  ASSUME NEW S, S \subseteq Nat, IsFiniteSet(S),
         NEW n \in Nat, n < Cardinality(S)
  PROVE  \E c \in S : Cardinality(Smaller(S, c)) = n
<1> DEFINE Free == {k \in Nat : /\ k < Cardinality(S)
                                /\ \A c \in S : Cardinality(Smaller(S, c)) # k}
<1>1. SUFFICES ASSUME Free # {} PROVE FALSE
  OBVIOUS
<1>2. PICK k \in Free : \A m \in Free : k <= m
  <2> HIDE DEF Free
  <2>1. Free \subseteq Nat
    BY DEF Free
  <2>. QED
    BY <1>1, <2>1, LeastNat
<1>3. Cardinality(S) \in Nat /\ k \in Nat /\ k < Cardinality(S)
  BY FS_CardinalityType
<1>4. PICK T \in SUBSET S : /\ Cardinality(T) = k
                            /\ \A c \in T : \A d \in S : d < c => d \in T
  <2>1. CASE k = 0
    <3>1. {} \in SUBSET S /\ Cardinality({}) = k
      BY <2>1, FS_EmptySet
    <3>. QED
      BY <3>1
  <2>2. CASE k # 0
    <3>1. k - 1 \in Nat /\ k - 1 < Cardinality(S) /\ k - 1 \notin Free
      BY <2>2, <1>2, <1>3
    <3>2. PICK c \in S : Cardinality(Smaller(S, c)) = k - 1
      BY <3>1
    <3> DEFINE B == Smaller(S, c)
    <3>3. IsFiniteSet(B) /\ c \notin B
      <4>1. IsFiniteSet(B)
        BY SmallerFinite
      <4>2. c \notin B
        BY DEF Smaller
      <4>. QED
        BY <4>1, <4>2
    <3>4. Cardinality(B \cup {c}) = k
      <4> HIDE DEF B
      <4>1. Cardinality(B \cup {c}) = Cardinality(B) + 1
        BY <3>3, FS_AddElement
      <4>2. Cardinality(B) = k - 1
        BY <3>2 DEF B
      <4>. QED
        BY <4>1, <4>2, <1>3
    <3>5. \A e \in Smaller(S, c) \cup {c} : \A d \in S : d < e => d \in Smaller(S, c) \cup {c}
      BY DEF Smaller
    <3>6. Smaller(S, c) \cup {c} \in SUBSET S
      BY DEF Smaller
    <3>. QED
      BY <3>4, <3>5, <3>6
  <2>. QED
    BY <2>1, <2>2
<1>5. S \ T # {} /\ S \ T \subseteq Nat
  <2>1. T # S /\ T \subseteq S
    BY <1>3, <1>4
  <2>. QED
    BY <2>1
<1>6. PICK c \in S \ T : \A d \in S \ T : c <= d
  BY <1>5, LeastNat
<1>7. Smaller(S, c) = T
  <2>1. \A d \in S : d < c => d \in T
    BY <1>6
  <2>2. \A d \in T : d < c
    BY <1>4, <1>6
  <2>. QED
    BY <2>1, <2>2 DEF Smaller
<1>. QED
  BY <1>4, <1>6, <1>7
=============================================================================
