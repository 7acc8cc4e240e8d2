-------------------------- MODULE SymbolNames_proof --------------------------
(***************************************************************************)
(* What symbols are named after (NamedAfterItsParent of module Symbols),   *)
(* for every file of every size, language by language: the visit hands     *)
(* down the path of what a node stands in, the passes after it keep names. *)
(***************************************************************************)
EXTENDS Symbols_proof

-----------------------------------------------------------------------------
(* The path of a node: what of some types stands above it, outermost first *)

RankIn(S, m) == Cardinality({k \in S : k <= m})

\* The members of a finite set of numbers have ranks, from 1 on, and no two
\* have the same.
LEMMA RankIs ==
  ASSUME NEW S, S \subseteq Nat, IsFiniteSet(S)
  PROVE  /\ Cardinality(S) \in Nat
         /\ \A m \in S : RankIn(S, m) \in 1 .. Cardinality(S)
         /\ \A m, k \in S : RankIn(S, m) = RankIn(S, k) => m = k
         /\ \A i \in 1 .. Cardinality(S) : \E m \in S : RankIn(S, m) = i
<1>1. Cardinality(S) \in Nat
  BY FS_CardinalityType
<1>2. ASSUME NEW m \in S
      PROVE  /\ RankIn(S, m) = Cardinality(Smaller(S, m)) + 1
             /\ Cardinality(Smaller(S, m)) \in Nat
             /\ Cardinality(Smaller(S, m)) < Cardinality(S)
  <2>0. m \in Nat /\ \A k \in S : k \in Nat
    OBVIOUS
  <2>1. {k \in S : k <= m} = Smaller(S, m) \cup {m} /\ m \notin Smaller(S, m)
    <3>1. \A k \in S : k <= m <=> k < m \/ k = m
      BY <2>0
    <3>2. ~(m < m)
      BY <2>0
    <3>. QED
      BY <3>1, <3>2, Zenon DEF Smaller
  <2>2. IsFiniteSet(Smaller(S, m)) /\ Cardinality(Smaller(S, m)) \in Nat
    BY SmallerFinite, Zenon
  <2>3. Cardinality(Smaller(S, m) \cup {m}) = Cardinality(Smaller(S, m)) + 1
    BY <2>1, <2>2, FS_AddElement, Zenon
  <2>. QED
    BY <2>1, <2>2, <2>3, RankGrows, Zenon DEF RankIn
<1>3. \A m \in S : RankIn(S, m) \in 1 .. Cardinality(S)
  BY <1>1, <1>2
<1>4. ASSUME NEW m \in S, NEW k \in S, RankIn(S, m) = RankIn(S, k) PROVE m = k
  <2>1. Cardinality(Smaller(S, m)) = Cardinality(Smaller(S, k))
    BY <1>2, <1>4
  <2>2. ~(m < k) /\ ~(k < m)
    <3>1. /\ m < k => Cardinality(Smaller(S, m)) < Cardinality(Smaller(S, k))
          /\ k < m => Cardinality(Smaller(S, k)) < Cardinality(Smaller(S, m))
      BY RankGrows, Zenon
    <3>2. Cardinality(Smaller(S, m)) \in Nat /\ Cardinality(Smaller(S, k)) \in Nat
      BY <1>2
    <3>. QED
      BY <2>1, <3>1, <3>2
  <2>3. m \in Nat /\ k \in Nat
    OBVIOUS
  <2>. QED
    BY <2>2, <2>3
<1>5. ASSUME NEW i \in 1 .. Cardinality(S) PROVE \E m \in S : RankIn(S, m) = i
  <2>1. i - 1 \in Nat /\ i - 1 < Cardinality(S)
    BY <1>1
  <2>2. PICK c \in S : Cardinality(Smaller(S, c)) = i - 1
    BY <2>1, RankTaken, Zenon
  <2>. QED
    BY <2>2, <1>2
<1>. QED
  BY <1>1, <1>3, <1>4, <1>5

Ordered(S) == [i \in 1 .. Cardinality(S) |-> CHOOSE m \in S : RankIn(S, m) = i]

LEMMA OrderedIs ==
  ASSUME NEW S, S \subseteq Nat, IsFiniteSet(S)
  PROVE  /\ Ordered(S) \in Seq(S) /\ Len(Ordered(S)) = Cardinality(S)
         /\ \A i \in 1 .. Cardinality(S) : Ordered(S)[i] \in S /\ RankIn(S, Ordered(S)[i]) = i
<1>1. Cardinality(S) \in Nat
  BY RankIs, Zenon
<1>2. \A i \in 1 .. Cardinality(S) : Ordered(S)[i] \in S /\ RankIn(S, Ordered(S)[i]) = i
  BY RankIs, Zenon DEF Ordered
<1>3. Ordered(S) = [i \in 1 .. Cardinality(S) |-> Ordered(S)[i]]
  BY DEF Ordered
<1>. QED
  BY <1>1, <1>2, <1>3

\* A member larger than all the others comes last.
LEMMA OrderedAppend ==
  ASSUME NEW S, S \subseteq Nat, IsFiniteSet(S), NEW p \in Nat, \A m \in S : m < p
  PROVE  Ordered(S \cup {p}) = Append(Ordered(S), p)
<1> DEFINE T == S \cup {p}
           N == Cardinality(S)
<1>1. p \notin S /\ T \subseteq Nat /\ IsFiniteSet(T) /\ Cardinality(T) = N + 1 /\ N \in Nat
  <2>1. p \notin S
    <3>1. ~(p < p)
      OBVIOUS
    <3>. QED
      BY <3>1
  <2>2. N \in Nat
    BY RankIs, Zenon
  <2>3. IsFiniteSet(T) /\ Cardinality(T) = N + 1
    BY <2>1, FS_AddElement
  <2>. QED
    BY <2>1, <2>2, <2>3
<1>2. \A m \in S : RankIn(T, m) = RankIn(S, m)
  <2> SUFFICES ASSUME NEW m \in S PROVE {k \in T : k <= m} = {k \in S : k <= m}
    BY DEF RankIn
  <2>. QED
    OBVIOUS
<1>3. RankIn(T, p) = N + 1
  <2>1. \A k \in T : k \in Nat /\ (k < p \/ k = p)
    BY <1>1
  <2>2. \A k \in T : k <= p
    BY <2>1
  <2>3. {k \in T : k <= p} = T
    BY <2>2, Zenon
  <2>. QED
    BY <2>3, <1>1 DEF RankIn
<1> HIDE DEF T, N
<1>4. /\ Ordered(T) \in Seq(T) /\ Len(Ordered(T)) = N + 1
      /\ \A i \in 1 .. N + 1 : Ordered(T)[i] \in T /\ RankIn(T, Ordered(T)[i]) = i
  BY <1>1, OrderedIs, Zenon
<1>5. /\ Ordered(S) \in Seq(S) /\ Len(Ordered(S)) = N
      /\ \A i \in 1 .. N : Ordered(S)[i] \in S /\ RankIn(S, Ordered(S)[i]) = i
  BY <1>1, OrderedIs, Zenon DEF N
<1>6. \A m, k \in T : RankIn(T, m) = RankIn(T, k) => m = k
  BY <1>1, RankIs, Zenon
<1>7. S \subseteq T /\ p \in T
  BY DEF T
<1>8. \A i \in 1 .. N : Ordered(T)[i] = Ordered(S)[i]
  <2> SUFFICES ASSUME NEW i \in 1 .. N PROVE Ordered(T)[i] = Ordered(S)[i]
    OBVIOUS
  <2>1. i \in 1 .. N + 1
    BY <1>1
  <2>2. Ordered(T)[i] \in T /\ RankIn(T, Ordered(T)[i]) = i
    BY <2>1, <1>4
  <2>3. Ordered(S)[i] \in S /\ RankIn(S, Ordered(S)[i]) = i
    BY <1>5
  <2>4. RankIn(T, Ordered(S)[i]) = i /\ Ordered(S)[i] \in T
    BY <2>3, <1>2, <1>7, Zenon
  <2>. QED
    BY <2>2, <2>4, <1>6
<1>9. Ordered(T)[N + 1] = p
  <2>1. N + 1 \in 1 .. N + 1
    BY <1>1
  <2>. QED
    BY <2>1, <1>3, <1>4, <1>6, <1>7, Zenon
<1> DEFINE A == Append(Ordered(S), p)
<1>10. /\ A \in Seq(T) /\ Len(A) = N + 1 /\ A[N + 1] = p
       /\ \A i \in 1 .. N : A[i] = Ordered(S)[i]
  <2>1. Ordered(S) \in Seq(T)
    <3>1. /\ Ordered(S) = [i \in 1 .. Len(Ordered(S)) |-> Ordered(S)[i]]
          /\ \A i \in 1 .. Len(Ordered(S)) : Ordered(S)[i] \in S
          /\ Len(Ordered(S)) \in Nat
      BY <1>5
    <3>2. \A i \in 1 .. Len(Ordered(S)) : Ordered(S)[i] \in T
      BY <3>1, <1>7
    <3>. QED
      BY <3>1, <3>2
  <2>. QED
    BY <2>1, <1>5, <1>7, <1>1
<1> HIDE DEF A
<1>11. \A i \in 1 .. N + 1 : Ordered(T)[i] = A[i]
  BY <1>1, <1>8, <1>9, <1>10
<1>12. Ordered(T) = A
  BY <1>1, <1>4, <1>10, <1>11
<1>. QED
  BY <1>12, Zenon DEF A, T, N

LEMMA NodesToIs ==
  ASSUME Shape, NEW n \in File, NEW K
  PROVE  /\ NodesTo(n, K) = Ordered(Around(n, K))
         /\ IsFiniteSet(Around(n, K)) /\ Around(n, K) \subseteq Nat /\ Around(n, K) \subseteq File
<1>1. NodesTo(n, K) = Ordered(Around(n, K))
  BY DEF NodesTo, Ordered, RankIn
<1>2. Len(lev) \in Nat /\ File = 1 .. Len(lev)
  BY TreeShape DEF Shape, File, Nodes
<1>3. IsFiniteSet(File) /\ File \subseteq Nat
  BY <1>2, FS_Interval
<1>4. Around(n, K) \subseteq File
  BY DEF Around, Of
<1>. QED
  BY <1>1, <1>3, <1>4, FS_Subset, Zenon

\* What is above a node is its parent and what is above that.
LEMMA NodesToUp ==
  ASSUME Shape, NEW n \in File, NEW K
  PROVE  NodesTo(n, K) = IF n = 1 THEN << >>
                         ELSE IF kind[Up(n)] \in K THEN Append(NodesTo(Up(n), K), Up(n))
                         ELSE NodesTo(Up(n), K)
<1>1. \A k \in File : k \in Nat /\ k >= 1
  BY TreeShape DEF Shape, File, Nodes
<1>2. CASE n = 1
  <2>1. Around(n, K) = {}
    <3>1. \A m \in File : ~(m < n)
      BY <1>1, <1>2
    <3>. QED
      BY <3>1 DEF Around, Of
  <2>2. NodesTo(n, K) = Ordered({})
    BY <2>1, NodesToIs
  <2>3. {} \subseteq Nat /\ IsFiniteSet({}) /\ Cardinality({}) = 0
    BY FS_EmptySet
  <2>4. Ordered({}) \in Seq({}) /\ Len(Ordered({})) = 0
    BY <2>3, OrderedIs
  <2>5. Ordered({}) = << >>
    BY <2>4
  <2>. QED
    BY <2>2, <2>5, <1>2
<1>3. CASE n # 1
  <2>1. Up(n) \in File /\ Up(n) \in Nat
    BY <1>1, <1>3, UpIs
  <2>2. \A m : m \in Around(n, K) <=> (m = Up(n) \/ Above(m, Up(n))) /\ kind[m] \in K
    BY <1>3, AboveUp, AroundIs
  <2>3. \A m : m \in Around(Up(n), K) <=> Above(m, Up(n)) /\ kind[m] \in K
    BY <2>1, AroundIs
  <2>4. NodesTo(Up(n), K) = Ordered(Around(Up(n), K)) /\ NodesTo(n, K) = Ordered(Around(n, K))
    BY <2>1, NodesToIs
  <2>5. CASE kind[Up(n)] \in K
    <3>1. Around(n, K) = Around(Up(n), K) \cup {Up(n)}
      BY <2>2, <2>3, <2>5
    <3>2. \A m \in Around(Up(n), K) : m < Up(n)
      BY <2>3 DEF Above
    <3>3. IsFiniteSet(Around(Up(n), K)) /\ Around(Up(n), K) \subseteq Nat
      BY <2>1, NodesToIs
    <3>4. Ordered(Around(Up(n), K) \cup {Up(n)}) = Append(Ordered(Around(Up(n), K)), Up(n))
      BY <3>2, <3>3, <2>1, OrderedAppend
    <3>. QED
      BY <3>1, <3>4, <2>4, <2>5, <1>3, Zenon
  <2>6. CASE kind[Up(n)] \notin K
    <3>1. Around(n, K) = Around(Up(n), K)
      BY <2>2, <2>3, <2>6
    <3>. QED
      BY <3>1, <2>4, <2>6, <1>3
  <2>. QED
    BY <2>5, <2>6
<1>. QED
  BY <1>2, <1>3

\* What a table has for the nodes of NodesTo.
MappedTo(n, K, t) == [i \in DOMAIN NodesTo(n, K) |-> t[NodesTo(n, K)[i]]]

\* A node has its parent's sequence, with the parent if that is in K.
MappedStep(n, K, t) ==
  /\ n = 1 => MappedTo(n, K, t) = << >>
  /\ n # 1 /\ kind[Up(n)] \in K => MappedTo(n, K, t) = Append(MappedTo(Up(n), K, t), t[Up(n)])
  /\ n # 1 /\ kind[Up(n)] \notin K => MappedTo(n, K, t) = MappedTo(Up(n), K, t)

LEMMA MappedUp ==
  ASSUME Shape, NEW K, NEW S, NEW t, \A m \in Nat : t[m] \in S, NEW n \in File
  PROVE  MappedTo(n, K, t) \in Seq(S) /\ MappedStep(n, K, t)
<1> SUFFICES /\ MappedTo(n, K, t) \in Seq(S)
             /\ n = 1 => MappedTo(n, K, t) = << >>
             /\ n # 1 /\ kind[Up(n)] \in K => MappedTo(n, K, t) = Append(MappedTo(Up(n), K, t), t[Up(n)])
             /\ n # 1 /\ kind[Up(n)] \notin K => MappedTo(n, K, t) = MappedTo(Up(n), K, t)
  BY DEF MappedStep
<1> DEFINE To(m) == NodesTo(m, K)
           Map(s) == [i \in DOMAIN s |-> t[s[i]]]
<1>1. ASSUME NEW m \in File
      PROVE  /\ MappedTo(m, K, t) = Map(To(m)) /\ To(m) \in Seq(Nat)
             /\ Map(To(m)) \in Seq(S) /\ Len(Map(To(m))) = Len(To(m))
  <2>1. MappedTo(m, K, t) = Map(To(m))
    BY DEF MappedTo
  <2>2. To(m) \in Seq(Nat)
    <3>1. To(m) = Ordered(Around(m, K)) /\ IsFiniteSet(Around(m, K)) /\ Around(m, K) \subseteq Nat
      BY NodesToIs
    <3>2. Ordered(Around(m, K)) \in Seq(Around(m, K))
      BY <3>1, OrderedIs
    <3>. QED
      BY <3>1, <3>2
  <2> HIDE DEF To
  <2>3. DOMAIN To(m) = 1 .. Len(To(m)) /\ Len(To(m)) \in Nat /\ \A i \in 1 .. Len(To(m)) : t[To(m)[i]] \in S
    BY <2>2
  <2>4. Map(To(m)) \in Seq(S) /\ Len(Map(To(m))) = Len(To(m))
    BY <2>3
  <2>. QED
    BY <2>1, <2>2, <2>4
<1>2. CASE n = 1
  <2>1. To(n) = << >>
    BY <1>2, NodesToUp
  <2>2. MappedTo(n, K, t) = << >>
    <3>1. Len(MappedTo(n, K, t)) = 0 /\ MappedTo(n, K, t) \in Seq(S)
      BY <2>1, <1>1, Zenon
    <3>. QED
      BY <3>1
  <2>. QED
    BY <2>2, <1>1, <1>2
<1>3. CASE n # 1
  <2>1. Up(n) \in File /\ Up(n) \in Nat
    BY <1>3, UpIs, TreeShape DEF Shape, File, Nodes
  <2>2. CASE kind[Up(n)] \notin K
    <3>1. To(n) = To(Up(n))
      BY <1>3, <2>2, NodesToUp
    <3>. QED
      BY <3>1, <2>1, <2>2, <1>1, <1>3, Zenon
  <2>3. CASE kind[Up(n)] \in K
    <3>1. To(n) = Append(To(Up(n)), Up(n))
      BY <1>3, <2>3, NodesToUp
    <3> DEFINE s == To(Up(n))
               p == Up(n)
    <3>2. s \in Seq(Nat) /\ p \in Nat /\ t[p] \in S /\ Map(s) \in Seq(S) /\ Len(Map(s)) = Len(s)
      BY <2>1, <1>1
    <3> HIDE DEF s, p, To
    <3>3. /\ DOMAIN Append(s, p) = 1 .. Len(s) + 1 /\ Append(s, p)[Len(s) + 1] = p
          /\ \A i \in 1 .. Len(s) : Append(s, p)[i] = s[i]
          /\ DOMAIN s = 1 .. Len(s) /\ Len(s) \in Nat
      BY <3>2
    <3>4. Map(Append(s, p)) = Append(Map(s), t[p])
      <4> DEFINE u == Map(Append(s, p))
                 v == Append(Map(s), t[p])
      <4>1. /\ v \in Seq(S) /\ Len(v) = Len(s) + 1 /\ v[Len(s) + 1] = t[p]
            /\ \A i \in 1 .. Len(s) : v[i] = Map(s)[i]
        BY <3>2, <3>3
      <4>2. DOMAIN v = 1 .. Len(s) + 1 /\ v = [i \in 1 .. Len(s) + 1 |-> v[i]]
        BY <4>1
      <4>3. u = [i \in 1 .. Len(s) + 1 |-> u[i]]
        BY <3>3
      <4>4. \A i \in 1 .. Len(s) + 1 : u[i] = v[i]
        BY <4>1, <3>3
      <4> HIDE DEF u, v
      <4>5. u = v
        BY <4>2, <4>3, <4>4
      <4>. QED
        BY <4>5 DEF u, v
    <3>5. MappedTo(n, K, t) = Append(MappedTo(Up(n), K, t), t[Up(n)])
      BY <3>1, <3>4, <2>1, <1>1, Zenon DEF s, p
    <3>. QED
      BY <3>5, <2>3, <1>1, <1>3, Zenon
  <2>. QED
    BY <2>2, <2>3
<1>. QED
  BY <1>2, <1>3

PathTypes == CsTypes \cup KtTypes \cup SwiftExtensions \cup {"protocol"}

LEMMA TypePathUp ==
  ASSUME Shape, NEW n \in File
  PROVE  /\ TypePath(n) \in Seq(AllNames)
         /\ TypePath(n) = IF n = 1 THEN << >>
                          ELSE IF kind[Up(n)] \in PathTypes THEN Append(TypePath(Up(n)), name[Up(n)])
                          ELSE TypePath(Up(n))
<1>1. \A m \in Nat : name[m] \in AllNames
  BY DEF AllNames
<1>2. \A m : TypePath(m) = MappedTo(m, PathTypes, name)
  BY DEF TypePath, MappedTo, PathTypes
<1>3. MappedTo(n, PathTypes, name) \in Seq(AllNames) /\ MappedStep(n, PathTypes, name)
  BY <1>1, MappedUp, Zenon
<1>. QED
  BY <1>2, <1>3 DEF MappedStep

\* What holds for the root and for every node below one it holds for, holds
\* for every node.
LEMMA FromTheRoot ==
  ASSUME Shape, NEW S, 1 \in S, \A n \in File : n # 1 /\ Up(n) \in S => n \in S
  PROVE  \A n \in File : n \in S
<1>1. File = 1 .. Len(lev) /\ Len(lev) \in Nat
  BY TreeShape DEF Shape, File, Nodes
<1> DEFINE T == File \ S
<1> SUFFICES ASSUME T # {} PROVE FALSE
  OBVIOUS
<1>2. T \subseteq Nat
  BY <1>1
<1>3. PICK n \in T : \A m \in T : n <= m
  <2> HIDE DEF T
  <2>. QED
    BY <1>2, LeastNat, Zenon
<1>4. n # 1 /\ n \in File
  OBVIOUS
<1>5. Up(n) \in File /\ Up(n) < n
  BY <1>4, UpIs
<1>6. n \in Nat /\ Up(n) \in Nat
  BY <1>1, <1>4, <1>5
<1>7. Up(n) \in S
  BY <1>3, <1>5, <1>6
<1>. QED
  BY <1>3, <1>4, <1>7

LEMMA SameFromTheRoot ==
  ASSUME Shape, NEW f, NEW g, f[1] = g[1],
         \A n \in File : n # 1 /\ f[Up(n)] = g[Up(n)] => f[n] = g[n]
  PROVE  \A n \in File : f[n] = g[n]
<1> DEFINE S == {n \in File : f[n] = g[n]}
<1>1. 1 \in S
  BY TreeShape DEF Shape, File, Nodes
<1>2. \A n \in File : n # 1 /\ Up(n) \in S => n \in S
  OBVIOUS
<1>3. \A n \in File : n \in S
  <2> HIDE DEF S
  <2>. QED
    BY <1>1, <1>2, FromTheRoot
<1>. QED
  BY <1>3

-----------------------------------------------------------------------------
(* What stands in what, for the names                                      *)

GoChain == {"recv", "ptr", "generic"}

ObjcKinds == ObjcDecls \cup {"alt", "ivar", "prop", "decl", "def", "call", "item"}

CTypeKinds == {"record", "enum", "var", "inst", "item"}

\* A node of type n may stand in one of type p, as its first child or not.
NFits(n, p, first) ==
  /\ prof.lang = "csharp" =>
       /\ n \in PathTypes => n \in CsTypes
       /\ n \in {"ns", "fns"} => p = "file"
  /\ prof.lang = "kotlin" =>
       /\ n \in PathTypes => n \in KtTypes
       /\ n = "secondary" => p = "class"
  /\ prof.lang = "swift" =>
       /\ n \in PathTypes => n \in {"class", "protocol"} \cup SwiftExtensions
       /\ n \in SwiftExtensions => p = "file"
       /\ p = "protocol" => n \in {"req", "assoc"}
       /\ p \notin {"req", "assoc"}
  /\ prof.lang = "go" =>
       /\ n \in GoChain \cup {"tid"} /\ p # "targs" => first /\ p \in GoChain \cup {"method"}
       /\ first /\ p = "method" => n = "recv"
       /\ first /\ p \in GoChain => n \in GoChain \cup {"tid"}
  /\ prof.lang = "objc" =>
       /\ n \in ObjcKinds
       /\ n \in ObjcDecls => p \in {"file", "alt", "cond", "off", "impl"}
       /\ n \in ObjcContainers \cup {"menum"} => p # "impl"
       /\ p # "typedef"
  /\ prof.lang = "php" =>
       /\ n = "unclosed" => p \in {"file", "stmt"}
       /\ p # "close"
  /\ prof.lang = "java" =>
       /\ n = "component" => p = "record"
       /\ n = "anon" => p \notin {"file", "body"} \cup JavaTypes
  /\ prof.lang \in {"c", "cpp"} =>
       /\ p \in CTypeKinds \cup {"typedef"} => n \in CTypeKinds
       /\ p = "typedef" => first
       /\ prof.lang = "c" /\ p \notin {"class", "tmpl"} => n \notin {"class", "tmpl"}
  /\ prof.lang = "rust" =>
       /\ p = "struct" => n = "field"

NGrammar == \A n, p \in File : IsParent(lev, n, p) => NFits(kind[n], kind[p], n = p + 1)

CsKinds == {"type", "enum", "iface", "ns", "fns", "stmt", "cond", "method", "ctor", "prop", "event", "field",
            "param", "constant", "local", "block", "call", "initializer"}

LEMMA CsNFits ==
  ASSUME NEW p, NEW k \in CsUnder(p), prof.lang = "csharp"
  PROVE  \A first : NFits(k, kind[p], first)
<1>1. k \in CsKinds
  BY ZenonT(60) DEF CsUnder, CsMembers, CsBodied, CsTypes, CsKinds
<1>2. k \in {"ns", "fns"} => kind[p] = "file"
  BY ZenonT(60) DEF CsUnder, CsMembers, CsBodied, CsTypes
<1>3. k \in PathTypes => k \in CsTypes
  BY <1>1 DEF PathTypes, CsKinds, CsTypes, KtTypes, SwiftExtensions
<1>. QED
  BY <1>2, <1>3 DEF NFits

KtKinds == {"class", "iface", "enum", "object", "fn", "val", "alias", "companion", "secondary", "init", "error",
            "primary", "entry", "param", "call", "objexp", "default", "getter"}

LEMMA KtNFits ==
  ASSUME NEW p, NEW k \in KtUnder(p), prof.lang = "kotlin"
  PROVE  \A first : NFits(k, kind[p], first)
<1>1. k \in KtKinds
  BY ZenonT(60) DEF KtUnder, KtMembers, KtTypes, KtCode, KtKinds
<1>2. k = "secondary" => kind[p] = "class"
  BY ZenonT(60) DEF KtUnder, KtMembers, KtTypes, KtCode
<1>3. k \in PathTypes => k \in KtTypes
  BY <1>1 DEF PathTypes, KtKinds, CsTypes, KtTypes, SwiftExtensions
<1>. QED
  BY <1>2, <1>3 DEF NFits

SwiftKinds == {"ext", "extin", "class", "protocol", "fn", "init", "deinit", "subscript", "prop", "alias", "case",
               "conf", "req", "assoc", "call"}

LEMMA SwiftNFits ==
  ASSUME NEW p, NEW k \in SwiftUnder(p), prof.lang = "swift"
  PROVE  \A first : NFits(k, kind[p], first)
<1>1. k \in SwiftKinds
  BY ZenonT(60) DEF SwiftUnder, SwiftMembers, SwiftBodied, SwiftExtensions, SwiftKinds
<1>2. k \in SwiftExtensions => kind[p] = "file"
  BY ZenonT(60) DEF SwiftUnder, SwiftMembers, SwiftBodied, SwiftExtensions
<1>3. kind[p] = "protocol" => k \in {"req", "assoc"}
  BY DEF SwiftUnder, SwiftExtensions, SwiftBodied
<1>4. kind[p] \notin {"req", "assoc"}
  BY DEF SwiftUnder, SwiftExtensions, SwiftBodied
<1>5. k \in PathTypes => k \in {"class", "protocol"} \cup SwiftExtensions
  BY <1>1 DEF PathTypes, SwiftKinds, CsTypes, KtTypes, SwiftExtensions
<1>. QED
  BY <1>2, <1>3, <1>4, <1>5 DEF NFits

\* A node without children is the last: the next one would be its child.
LEMMA OpenLeaf ==
  ASSUME Shape, NEW l \in Levels, NEW P \in File, IsOpen(lev, l, P)
  PROVE  Kids(P) = {} <=> P = Len(lev)
<1>1. /\ Len(lev) \in Nat \ {0} /\ File = 1 .. Len(lev) /\ \A n \in File : lev[n] \in Nat
      /\ \A n \in 2 .. Len(lev) : lev[n] <= lev[n - 1] + 1
  BY TreeShape, Zenon DEF Shape, File, Nodes
<1>2. CASE P = Len(lev)
  BY <1>1, <1>2 DEF Kids, IsParent
<1>3. CASE P # Len(lev)
  <2>1. P \in Nat /\ P >= 1 /\ P + 1 \in File /\ P + 1 \in 2 .. Len(lev)
    BY <1>1, <1>3
  <2>2. lev[P + 1] >= l /\ lev[P] = l - 1 /\ lev[P + 1] \in Nat /\ lev[P + 1] <= lev[P] + 1
    BY <2>1, <1>1 DEF IsOpen
  <2>3. l \in Nat
    BY <1>1 DEF Levels
  <2>4. lev[P + 1] = lev[P] + 1
    BY <2>2, <2>3
  <2>5. \A m \in P + 1 .. P + 1 : m = P + 1
    BY <2>1
  <2>6. IsParent(lev, P + 1, P)
    BY <2>1, <2>2, <2>3, <2>4, <2>5 DEF IsParent
  <2>. QED
    BY <2>1, <2>6, <1>3 DEF Kids
<1>. QED
  BY <1>2, <1>3

LEMMA GoNFits ==
  ASSUME Shape, NEW l \in Levels, NEW k \in GoUnder(Open(l)), Open(l) \in File, IsOpen(lev, l, Open(l)),
         prof.lang = "go"
  PROVE  NFits(k, kind[Open(l)], Open(l) = Len(lev))
<1> DEFINE P == Open(l)
<1>1. Kids(P) = {} <=> P = Len(lev)
  BY OpenLeaf
<1> HIDE DEF P
<1>2. ASSUME kind[P] = "method", Kids(P) = {} PROVE GoUnder(P) = {"recv"}
  BY <1>2 DEF GoUnder
<1>3. ASSUME kind[P] = "method", Kids(P) # {} PROVE GoUnder(P) = {"call", "sel"}
  BY <1>3 DEF GoUnder
<1>4. ASSUME kind[P] \in {"recv", "ptr"} PROVE GoUnder(P) = GoNone(P, {"tid", "ptr", "generic"})
  BY <1>4 DEF GoUnder
<1>5. ASSUME kind[P] = "generic", Kids(P) = {} PROVE GoUnder(P) = {"tid"}
  BY <1>5 DEF GoUnder
<1>6. ASSUME kind[P] = "generic", Kids(P) # {} PROVE GoUnder(P) \subseteq {"targs"}
  BY <1>6 DEF GoUnder
<1>7. ASSUME kind[P] \notin GoChain \cup {"method", "targs"} PROVE GoUnder(P) \cap (GoChain \cup {"tid"}) = {}
  BY <1>7 DEF GoUnder, GoChain, GoExpr, GoNone
<1>8. k \in GoUnder(P)
  BY DEF P
<1>9. CASE kind[P] = "method"
  BY <1>1, <1>2, <1>3, <1>8, <1>9 DEF NFits, GoChain, P
<1>10. CASE kind[P] \in {"recv", "ptr"}
  BY <1>1, <1>4, <1>8, <1>10 DEF NFits, GoChain, GoNone, P
<1>11. CASE kind[P] = "generic"
  BY <1>1, <1>5, <1>6, <1>8, <1>11 DEF NFits, GoChain, P
<1>12. CASE kind[P] \notin GoChain \cup {"method"}
  BY <1>1, <1>7, <1>8, <1>12 DEF NFits, GoChain, P
<1>. QED
  BY <1>9, <1>10, <1>11, <1>12 DEF GoChain

LEMMA ObjcNFits ==
  ASSUME NEW p, NEW k \in ObjcUnder(p), prof.lang = "objc"
  PROVE  \A first : NFits(k, kind[p], first)
<1>1. k \in ObjcKinds
  <2>1. \A m \in ObjcDecls : m \in ObjcKinds
    BY DEF ObjcKinds
  <2>2. {"alt", "ivar", "prop", "decl", "def", "fn", "call", "item"} \subseteq ObjcKinds
    BY DEF ObjcKinds, ObjcDecls
  <2>. QED
    BY <2>1, <2>2 DEF ObjcUnder, ObjcContainers
<1>2. k \in ObjcDecls => kind[p] \in {"file", "alt", "cond", "off", "impl"}
  BY ZenonT(60) DEF ObjcUnder, ObjcDecls, ObjcContainers
<1>3. k \in ObjcContainers \cup {"menum"} => kind[p] # "impl"
  BY ZenonT(60) DEF ObjcUnder, ObjcContainers
<1>4. kind[p] # "typedef"
  BY ZenonT(60) DEF ObjcUnder, ObjcContainers
<1>. QED
  BY <1>1, <1>2, <1>3, <1>4 DEF NFits

LEMMA PhpNFits ==
  ASSUME NEW p, NEW k \in PhpUnder(p), prof.lang = "php"
  PROVE  \A first : NFits(k, kind[p], first)
<1>1. kind[p] \notin {"file", "stmt"} => k \in {"method", "prop", "const", "case", "call", "anon", "fn", "promoted"}
  BY DEF PhpUnder
<1>2. kind[p] # "close"
  BY DEF PhpUnder
<1>. QED
  BY <1>1, <1>2 DEF NFits

LEMMA JavaNFits ==
  ASSUME NEW p, NEW k \in JavaUnder(p), prof.lang = "java"
  PROVE  \A first : NFits(k, kind[p], first)
<1>1. k = "component" => kind[p] = "record"
  BY ZenonT(60) DEF JavaUnder, JavaMembers, JavaMethods, JavaTypes, JavaInBody
<1>2. k = "anon" => kind[p] \notin {"file", "body"} \cup JavaTypes
  BY ZenonT(60) DEF JavaUnder, JavaMembers, JavaMethods, JavaTypes, JavaInBody
<1>. QED
  BY <1>1, <1>2 DEF NFits

LEMMA CNFits ==
  ASSUME Shape, NEW l \in Levels, NEW k \in CppUnder(Open(l)), Open(l) \in File, IsOpen(lev, l, Open(l)),
         prof.lang \in {"c", "cpp"}
  PROVE  NFits(k, kind[Open(l)], Open(l) = Len(lev))
<1> DEFINE P == Open(l)
<1>1. Kids(P) = {} <=> P = Len(lev)
  BY OpenLeaf
<1> HIDE DEF P
<1>2. k \in CppUnder(P)
  BY DEF P
<1>3. kind[P] = "typedef" => Kids(P) = {} /\ k \in {"record", "enum"}
  BY <1>2, ZenonT(60) DEF CppUnder
<1>4. kind[P] = "record" => k \in {"var", "record", "enum", "inst"}
  BY <1>2, ZenonT(60) DEF CppUnder
<1>5. kind[P] = "enum" => k \in {"item", "inst"}
  BY <1>2, ZenonT(60) DEF CppUnder
<1>6. kind[P] = "var" => k = "record"
  BY <1>2, ZenonT(60) DEF CppUnder
<1>7. kind[P] \notin {"inst", "item"}
  BY <1>2, ZenonT(60) DEF CppUnder
<1>8. prof.lang = "c" => "class" \notin CppDecls /\ "tmpl" \notin CppDecls
  BY DEF CppDecls, CDecls
<1>9. k \in {"class", "tmpl"} => k \in CppDecls \/ kind[P] \in {"class", "tmpl"}
  BY <1>2, ZenonT(60) DEF CppUnder
<1>. QED
  BY <1>1, <1>3, <1>4, <1>5, <1>6, <1>7, <1>8, <1>9 DEF NFits, CTypeKinds, P

LEMMA RustNFits ==
  ASSUME Shape, NEW p \in File, NEW k \in RustUnder(p), prof.lang = "rust"
  PROVE  \A first : NFits(k, kind[p], first)
<1>1. ASSUME kind[p] = "struct" PROVE k = "field"
  <2>1. RustHost(p) = p
    <3>1. \A q \in File : q \in Nat
      BY TreeShape DEF Shape, File, Nodes
    <3>2. \A q \in File : InSubtree(lev, q, p) /\ q # p => p \in Way(q, p)
      BY <3>1 DEF Way, InSubtree
    <3>3. InSubtree(lev, p, p) /\ Way(p, p) = {}
      BY <3>1 DEF Way, InSubtree
    <3>. QED
      BY <1>1, <3>2, <3>3, ZenonT(60) DEF RustHost
  <2>. QED
    BY <1>1, <2>1 DEF RustUnder, RustImpls, RustCalls
<1>. QED
  BY <1>1 DEF NFits

\* Every step is the parser's, which adds what the grammar has in the open
\* node, or leaves the file as it is.
LEMMA ParsesFitting ==
  ASSUME Shape, Next
  PROVE  \/ UNCHANGED fileVars
         \/ \E l \in Levels : \E k : Grow(l, k) /\ NFits(k, kind[Open(l)], Open(l) = Len(lev))
<1> DEFINE Fit(l, k) == Grow(l, k) /\ NFits(k, kind[Open(l)], Open(l) = Len(lev))
           G == UNCHANGED fileVars \/ \E l \in Levels : \E k : Fit(l, k)
<1>1. \A from, to, symbols : Pass(from, to, symbols) => UNCHANGED fileVars
  BY DEF Pass
<1>2. ASSUME prof.lang \notin {"csharp", "kotlin", "swift", "go", "objc", "php", "java", "c", "cpp", "rust"}
      PROVE  \A n, p, first : NFits(n, p, first)
  BY <1>2 DEF NFits
<1>3. CppNext => G
  <2>1. ExtractCNodes => G
    BY <1>1 DEF ExtractCNodes
  <2>2. ASSUME prof.lang \in {"c", "cpp"}, NEW l \in Levels, NEW k \in CppUnder(Open(l)), Grow(l, k) PROVE Fit(l, k)
    <3>1. Open(l) \in File /\ IsOpen(lev, l, Open(l))
      BY <2>2, GrowFacts
    <3>. QED
      BY <3>1, <2>2, CNFits
  <2>3. CppFile => G
    BY <2>2 DEF CppFile
  <2>. QED
    BY <2>1, <2>3 DEF CppNext
<1>4. CsNext => G
  BY <1>1, CsNFits DEF CsNext, CsFile, ExtractCSharpNodes
<1>5. GoNext => G
  <2>1. GoExtract => G
    BY <1>1 DEF GoExtract
  <2>2. ASSUME prof.lang = "go", NEW l \in Levels, NEW k \in GoUnder(Open(l)), Grow(l, k) PROVE Fit(l, k)
    <3>1. Open(l) \in File /\ IsOpen(lev, l, Open(l))
      BY <2>2, GrowFacts
    <3>. QED
      BY <3>1, <2>2, GoNFits
  <2>3. GoFile => G
    BY <2>2 DEF GoFile
  <2>. QED
    BY <2>1, <2>3 DEF GoNext
<1>6. JavaNext => G
  BY <1>1, JavaNFits DEF JavaNext, JavaFile, JavaVisitFile, JavaReattachOrphans
<1>7. JsNext => G
  BY <1>1, <1>2 DEF JsNext, JsFile, JsVisit, JsLocalFunctions, JsDedupe, JsExports
<1>8. KotlinNext => G
  BY <1>1, KtNFits DEF KotlinNext, KtFile, ExtractKotlinNodes
<1>9. ObjcNext => G
  BY <1>1, ObjcNFits DEF ObjcNext, ObjcFile, ExtractObjCNodes, ObjcBlockTypedefs, ObjcMacroEnums
<1>10. PhpNext => G
  BY <1>1, PhpNFits DEF PhpNext, PhpFile, ExtractPHPNodes
<1>11. PyNext => G
  BY <1>1, <1>2 DEF PyNext, PyFile, PyVisit, PyModuleAssignments, PyTopLevel
<1>12. RustNext => G
  <2>1. ASSUME prof.lang = "rust", NEW l \in Levels, NEW k \in RustUnder(Open(l)), Grow(l, k) PROVE Fit(l, k)
    <3>1. Open(l) \in File
      BY <2>1, GrowFacts
    <3>. QED
      BY <3>1, <2>1, RustNFits
  <2>2. RustFile => G
    BY <2>1 DEF RustFile
  <2>. QED
    BY <1>1, <2>2 DEF RustNext, RustVisitFile, RustImplTraits
<1>13. SwiftNext => G
  BY <1>1, SwiftNFits DEF SwiftNext, SwiftFile, SwiftVisitFile, SwiftConformances
<1>. QED
  BY <1>3, <1>4, <1>5, <1>6, <1>7, <1>8, <1>9, <1>10, <1>11, <1>12, <1>13 DEF Next

LEMMA GrowFitting ==
  ASSUME Shape, NGrammar, NEW l \in Levels, NEW k, Grow(l, k), NFits(k, kind[Open(l)], Open(l) = Len(lev))
  PROVE  NGrammar'
<1> DEFINE N == Len(lev')
<1>1. /\ kind'[N] = k /\ prof' = prof /\ N = Len(lev) + 1 /\ Len(lev) \in Nat
      /\ File' = File \cup {N} /\ N \notin File /\ File \subseteq Nat
      /\ \A n \in File : kind'[n] = kind[n]
      /\ \A n, p \in File : IsParent(lev', n, p) <=> IsParent(lev, n, p)
      /\ \A n \in File : ~IsParent(lev', n, N)
      /\ Open(l) \in File
      /\ \A p \in File' : IsParent(lev', N, p) => p = Open(l)
  <2>1. /\ kind'[N] = k /\ prof' = prof /\ N = Len(lev) + 1 /\ File' = File \cup {N}
        /\ \A n \in File : kind'[n] = kind[n]
        /\ \A n, q \in File : IsParent(lev', n, q) <=> IsParent(lev, n, q)
        /\ \A n \in File : ~IsParent(lev', n, N)
        /\ Open(l) \in File
        /\ \A q \in File' : IsParent(lev', N, q) => q = Open(l)
    BY GrowFacts
  <2>2. Len(lev) \in Nat /\ File = 1 .. Len(lev)
    BY TreeShape DEF Shape, File, Nodes
  <2> HIDE DEF N
  <2>3. N \notin File /\ File \subseteq Nat /\ \A n \in File : n < N
    BY <2>1, <2>2
  <2>. QED
    BY <2>1, <2>2, <2>3
<1>2. \A n, p, first : NFits(n, p, first)' <=> NFits(n, p, first)
  BY <1>1 DEF NFits
<1>3. \A n, p \in File : IsParent(lev, n, p) => NFits(kind[n], kind[p], n = p + 1)
  BY DEF NGrammar
<1>4. \A p \in File : (p = Len(lev)) <=> (N = p + 1)
  BY <1>1
<1> HIDE DEF N
<1>5. ASSUME NEW n \in File', NEW p \in File', IsParent(lev', n, p)
      PROVE  NFits(kind'[n], kind'[p], n = p + 1)
  <2>1. CASE n = N
    <3>1. p = Open(l) /\ p \in File /\ kind'[n] = k /\ kind'[p] = kind[p]
      BY <2>1, <1>1, <1>5, Zenon
    <3>2. NFits(k, kind[p], p = Len(lev))
      BY <3>1
    <3>3. (p = Len(lev)) <=> (n = p + 1)
      BY <3>1, <2>1, <1>4
    <3>. QED
      BY <3>1, <3>2, <3>3 DEF NFits
  <2>2. CASE n # N
    BY <2>2, <1>1, <1>3, <1>5
  <2>. QED
    BY <2>1, <2>2
<1>6. \A n, p \in File' : IsParent(lev', n, p) => NFits(kind[n], kind[p], n = p + 1)'
  BY <1>2, <1>5
<1>. QED
  BY <1>6 DEF NGrammar

\* In every file of every size each named node stands where the walks for
\* names look for it: the grammar of the language puts it nowhere else.
THEOREM GrammarOfNames == Spec => []NGrammar
<1>1. Init => NGrammar
  <2> SUFFICES ASSUME Init PROVE NGrammar
    OBVIOUS
  <2>0. lev = <<0>>
    BY Zenon DEF Init
  <2>1. File = {1}
    BY <2>0 DEF File, Nodes
  <2>2. \A n, p \in File : ~IsParent(lev, n, p)
    BY <2>1 DEF IsParent
  <2>. QED
    BY <2>2 DEF NGrammar
<1>2. IInv /\ NGrammar /\ [Next]_vars => NGrammar'
  <2> SUFFICES ASSUME IInv, NGrammar, [Next]_vars PROVE NGrammar'
    OBVIOUS
  <2>1. CASE UNCHANGED fileVars
    <3>1. File' = File /\ prof' = prof /\ kind' = kind /\ lev' = lev
      BY <2>1 DEF fileVars, File
    <3>2. \A n, p, first : NFits(n, p, first)' <=> NFits(n, p, first)
      BY <3>1 DEF NFits
    <3>. QED
      BY <3>1, <3>2 DEF NGrammar
  <2>2. CASE \E l \in Levels : \E k : Grow(l, k) /\ NFits(k, kind[Open(l)], Open(l) = Len(lev))
    BY <2>2, GrowFitting DEF IInv
  <2>3. UNCHANGED vars => UNCHANGED fileVars
    BY DEF vars, fileVars
  <2>. QED
    BY <2>1, <2>2, <2>3, ParsesFitting DEF IInv
<1>. QED
  BY <1>1, <1>2, Inductive, PTL DEF Spec

-----------------------------------------------------------------------------
(* The paths the walkers hand down                                         *)

\* The path of what stands in a node.
PathIn(n) == IF kind[n] \in PathTypes THEN Append(TypePath(n), name[n]) ELSE TypePath(n)

LEMMA PathOfUp ==
  ASSUME Shape, Rooted
  PROVE  /\ 1 \in File /\ TypePath(1) = << >> /\ PathIn(1) = << >>
         /\ \A n \in File : n # 1 => Up(n) \in File /\ TypePath(n) = PathIn(Up(n))
<1>1. 1 \in File
  BY TreeShape DEF Shape, File, Nodes
<1>2. TypePath(1) = << >>
  BY <1>1, TypePathUp
<1>3. kind[1] \notin PathTypes
  BY DEF Rooted, PathTypes, CsTypes, KtTypes, SwiftExtensions
<1>4. \A n \in File : n # 1 => Up(n) \in File /\ TypePath(n) = PathIn(Up(n))
  BY UpIs, TypePathUp DEF PathIn
<1>. QED
  BY <1>1, <1>2, <1>3, <1>4 DEF PathIn

LEMMA FitsUp ==
  ASSUME Shape, NGrammar, NEW n \in File, n # 1
  PROVE  NFits(kind[n], kind[Up(n)], n = Up(n) + 1)
BY UpIs DEF NGrammar

LEMMA CsClassIs ==
  ASSUME Shape, Rooted, NGrammar, prof.lang = "csharp"
  PROVE  \A n \in File : CsClass[n] = PathIn(n)
<1> DEFINE Rest(g, n) == IF kind[n] \in {"file", "ns"} THEN << >>
                         ELSE IF kind[n] \in CsTypes THEN QualJoin(g[Up(n)], name[n])
                         ELSE g[Up(n)]
           g0 == [n \in File |-> PathIn(n)]
<1>1. ASSUME NEW n \in File PROVE g0[n] = Rest(g0, n)
  <2>1. CASE n = 1
    BY <2>1, PathOfUp DEF Rooted
  <2>2. CASE n # 1
    <3>1. Up(n) \in File /\ TypePath(n) = PathIn(Up(n)) /\ NFits(kind[n], kind[Up(n)], n = Up(n) + 1) /\ kind[n] # "file"
      BY <2>2, PathOfUp, FitsUp DEF Rooted
    <3>2. kind[n] \in PathTypes <=> kind[n] \in CsTypes
      BY <3>1 DEF NFits, PathTypes
    <3>3. CASE kind[n] = "ns"
      <4>1. Up(n) = 1
        BY <3>1, <3>3 DEF NFits, Rooted
      <4>2. kind[n] \notin CsTypes
        BY <3>3 DEF CsTypes
      <4>. QED
        BY <3>1, <3>2, <3>3, <4>1, <4>2, PathOfUp, Zenon DEF PathIn
    <3>4. CASE kind[n] # "ns"
      BY <3>1, <3>2, <3>4, Zenon DEF PathIn, QualJoin
    <3>. QED
      BY <3>3, <3>4
  <2>. QED
    BY <2>1, <2>2
<1>2. g0 = [n \in File |-> Rest(g0, n)]
  <2> HIDE DEF Rest
  <2>. QED
    BY <1>1
<1>3. CsClass = CHOOSE g : g = [n \in File |-> Rest(g, n)]
  BY DEF CsClass
<1>4. CsClass = [n \in File |-> Rest(CsClass, n)]
  <2> HIDE DEF Rest, g0
  <2>. QED
    BY <1>2, <1>3
<1>5. CsClass[1] = g0[1]
  BY <1>1, <1>4, PathOfUp DEF Rooted
<1>6. ASSUME NEW n \in File, n # 1, CsClass[Up(n)] = g0[Up(n)] PROVE CsClass[n] = g0[n]
  <2>1. CsClass[n] = Rest(CsClass, n) /\ g0[n] = Rest(g0, n)
    BY <1>1, <1>4, Zenon
  <2>. QED
    BY <2>1, <1>6
<1>7. \A n \in File : CsClass[n] = g0[n]
  <2> HIDE DEF g0
  <2>. QED
    BY <1>5, <1>6, SameFromTheRoot
<1>. QED
  BY <1>7

LEMMA CsNamed ==
  ASSUME Shape, Rooted, NGrammar, prof.lang = "csharp", NEW n \in File, CsVisited(n),
         NEW s \in CsEmit(n)
  PROVE  /\ s.at = n /\ s.parent = QualLast(TypePath(n))
         /\ kind[n] # "ns" => s.qual = QualJoin(TypePath(n), name[n])
<1>1. n # 1
  BY DEF CsVisited
<1>2. Up(n) \in File /\ TypePath(n) = PathIn(Up(n))
  BY <1>1, PathOfUp
<1> DEFINE class == CsClass[Up(n)]
<1>3. class = TypePath(n)
  BY <1>2, CsClassIs
<1>4. CASE kind[n] = "ns"
  <2>1. Up(n) = 1
    BY <1>1, <1>2, <1>4, FitsUp DEF NFits, Rooted
  <2>2. TypePath(n) = << >>
    BY <1>2, <2>1, PathOfUp
  <2>3. CsEmit(n) = {Sym(n, "namespace", <<name[n]>>, << >>, {}, {})}
    BY <1>4 DEF CsEmit, CsTypes
  <2>. QED
    BY <2>2, <2>3, <1>4 DEF Sym, QualLast
<1>5. CASE kind[n] # "ns"
  <2>1. \A sort, calls, marks :
          LET m == MemberOf(n, sort, class, calls, marks)
          IN  m.at = n /\ m.parent = QualLast(class) /\ m.qual = QualJoin(class, name[n])
    BY DEF MemberOf, Sym
  <2>2. \E sort, calls, marks : s = MemberOf(n, sort, class, calls, marks)
    BY <1>5 DEF CsEmit, CsMethod
  <2>. QED
    BY <2>1, <2>2, <1>3, <1>5
<1>. QED
  BY <1>4, <1>5

\* The part of NamedAfterItsParent about C#, Kotlin and Swift, of a list of
\* symbols.
NamedByType(symbols) ==
  \A s \in symbols :
    /\ kind[s.at] \notin {"file", "ns"} /\ (s.sort = "class" \/ prof.lang = "csharp") =>
         s.qual = QualJoin(TypePath(s.at), name[s.at])
    /\ IF prof.lang = "kotlin" /\ s.sort = "constructor"
       THEN \E t \in symbols : t.sort = "class" /\ t.qual = s.qual /\ s.parent = QualLast(t.qual)
       ELSE (prof.lang = "swift" /\ s.sort = "type") \/ s.parent = QualLast(TypePath(s.at))

LEMMA CsNames ==
  ASSUME Shape, Rooted, NGrammar, prof.lang = "csharp"
  PROVE  NamedByType(CsTopLevel \cup UNION {CsEmit(n) : n \in {n \in File : CsVisited(n)}})
<1>1. ASSUME NEW n \in File, CsVisited(n), NEW s \in CsEmit(n)
      PROVE  /\ kind[s.at] # "ns" => s.qual = QualJoin(TypePath(s.at), name[s.at])
             /\ s.parent = QualLast(TypePath(s.at))
  BY <1>1, CsNamed
<1>2. ASSUME NEW s \in CsTopLevel
      PROVE  kind[s.at] = "file" /\ s.parent = QualLast(TypePath(s.at))
  <2>1. s.at = 1 /\ s.parent = << >>
    <3>1. \E calls : CsTopLevel \subseteq {Sym(1, "function", <<"">>, << >>, calls, {})}
      BY Zenon DEF CsTopLevel
    <3>2. PICK calls : s = Sym(1, "function", <<"">>, << >>, calls, {})
      BY <3>1, Zenon
    <3>. QED
      BY <3>2, Zenon DEF Sym
  <2>. QED
    BY <2>1, PathOfUp DEF Rooted, QualLast
<1>. QED
  BY <1>1, <1>2 DEF NamedByType

LEMMA LastOfJoin ==
  ASSUME NEW S, NEW q \in Seq(S), NEW e \in S
  PROVE  QualLast(QualJoin(q, e)) = <<e>>
<1>1. /\ Append(q, e) \in Seq(S) /\ Len(Append(q, e)) = Len(q) + 1 /\ Append(q, e)[Len(q) + 1] = e
      /\ Len(q) \in Nat
  OBVIOUS
<1>2. Append(q, e) # << >>
  BY <1>1
<1>. QED
  BY <1>1, <1>2 DEF QualLast, QualJoin

LEMMA LastOfPath ==
  ASSUME Shape, NEW n \in File
  PROVE  QualLast(QualJoin(TypePath(n), name[n])) = <<name[n]>>
<1>1. TypePath(n) \in Seq(AllNames)
  BY TypePathUp
<1>2. n \in Nat
  BY TreeShape DEF Shape, File, Nodes
<1>. QED
  BY <1>1, <1>2, LastOfJoin DEF AllNames

-----------------------------------------------------------------------------
LEMMA KtTypeIs ==
  ASSUME Shape, Rooted, NGrammar, prof.lang = "kotlin"
  PROVE  \A n \in File : KtType[n] = PathIn(n)
<1> DEFINE Rest(g, n) == IF n = 1 THEN << >>
                         ELSE IF kind[n] \in KtTypes THEN QualJoin(g[Up(n)], name[n])
                         ELSE g[Up(n)]
           g0 == [n \in File |-> PathIn(n)]
<1>1. ASSUME NEW n \in File PROVE g0[n] = Rest(g0, n)
  <2>1. CASE n = 1
    BY <2>1, PathOfUp
  <2>2. CASE n # 1
    <3>1. Up(n) \in File /\ TypePath(n) = PathIn(Up(n)) /\ NFits(kind[n], kind[Up(n)], n = Up(n) + 1)
      BY <2>2, PathOfUp, FitsUp
    <3>2. kind[n] \in PathTypes <=> kind[n] \in KtTypes
      BY <3>1 DEF NFits, PathTypes
    <3>. QED
      BY <2>2, <3>1, <3>2, Zenon DEF PathIn, QualJoin
  <2>. QED
    BY <2>1, <2>2
<1>2. g0 = [n \in File |-> Rest(g0, n)]
  <2> HIDE DEF Rest
  <2>. QED
    BY <1>1
<1>3. KtType = CHOOSE g : g = [n \in File |-> Rest(g, n)]
  BY DEF KtType
<1>4. KtType = [n \in File |-> Rest(KtType, n)]
  <2> HIDE DEF Rest, g0
  <2>. QED
    BY <1>2, <1>3
<1>5. KtType[1] = g0[1]
  BY <1>1, <1>4, PathOfUp
<1>6. ASSUME NEW n \in File, n # 1, KtType[Up(n)] = g0[Up(n)] PROVE KtType[n] = g0[n]
  <2>1. KtType[n] = Rest(KtType, n) /\ g0[n] = Rest(g0, n)
    BY <1>1, <1>4
  <2>. QED
    BY <2>1, <1>6
<1>7. \A n \in File : KtType[n] = g0[n]
  <2> HIDE DEF g0
  <2>. QED
    BY <1>5, <1>6, SameFromTheRoot
<1>. QED
  BY <1>7

\* The type around a visited node is visited.
LEMMA KtVisitedUp ==
  ASSUME Shape, Rooted, NEW n \in File, KtVisited(n), Up(n) # 1
  PROVE  KtVisited(Up(n))
<1>1. n # 1
  BY DEF KtVisited
<1>2. Up(n) \in File /\ Up(n) \in Nat /\ Up(n) > 1
  BY <1>1, UpIs, TreeShape DEF Shape, File, Nodes
<1>3. \A m : m \in Way(1, Up(n)) <=> Above(m, n) /\ m # 1
  BY <1>1, WayUp
<1>4. \A m : m \in Way(1, Up(Up(n))) <=> Above(m, Up(n)) /\ m # 1
  BY <1>2, WayUp
<1>5. \A m : Above(m, Up(n)) => Above(m, n)
  BY <1>1, AboveUp
<1>. QED
  BY <1>2, <1>3, <1>4, <1>5 DEF KtVisited

LEMMA KtNames ==
  ASSUME Shape, Rooted, NGrammar, prof.lang = "kotlin"
  PROVE  NamedByType(UNION {KtEmit(n) : n \in {n \in File : KtVisited(n)}})
<1> DEFINE symbols == UNION {KtEmit(n) : n \in {n \in File : KtVisited(n)}}
           Class(n) == MemberOf(n, "class", TypePath(n), {}, {})
           Named(s) ==
             /\ s.sort = "class" => s.qual = QualJoin(TypePath(s.at), name[s.at])
             /\ s.sort # "constructor" => s.parent = QualLast(TypePath(s.at))
             /\ s.sort = "constructor" =>
                  \E t \in symbols : t.sort = "class" /\ t.qual = s.qual /\ s.parent = QualLast(t.qual)
<1>1. ASSUME NEW n \in File, KtVisited(n)
      PROVE  /\ n # 1 /\ Up(n) \in File /\ TypePath(n) = PathIn(Up(n))
             /\ KtType[Up(n)] = TypePath(n)
  <2>1. n # 1
    BY <1>1 DEF KtVisited
  <2>. QED
    BY <2>1, PathOfUp, KtTypeIs
<1>2. \A n : /\ Class(n).sort = "class" /\ Class(n).at = n
              /\ Class(n).qual = QualJoin(TypePath(n), name[n])
              /\ Class(n).parent = QualLast(TypePath(n))
  BY DEF MemberOf, Sym
<1>3. ASSUME NEW n \in File, KtVisited(n), kind[n] \in KtTypes
      PROVE  Class(n) \in symbols
  <2>1. Class(n) \in KtEmit(n)
    BY <1>1, <1>3 DEF KtEmit, KtTypes
  <2> HIDE DEF Class
  <2>. QED
    BY <2>1, <1>3
<1>4. \A n \in File : QualLast(QualJoin(TypePath(n), name[n])) = <<name[n]>>
  BY LastOfPath
<1>5. ASSUME NEW n \in File, KtVisited(n), NEW s \in KtEmit(n)
      PROVE  s.at = n /\ Named(s)
  <2>1. KtType[Up(n)] = TypePath(n) /\ n # 1 /\ Up(n) \in File
    BY <1>1, <1>5
  <2> DEFINE type == KtType[Up(n)]
  <2>2. CASE kind[n] \in KtTypes
    <3>1. s = Class(n) \/ s \in KtPrimaryConstructor(n, type)
      BY <2>1, <2>2, <1>5 DEF KtEmit, KtTypes
    <3>2. CASE s = Class(n)
      <4> HIDE DEF Class
      <4>. QED
        BY <3>2, <1>2
    <3>3. CASE s \in KtPrimaryConstructor(n, type)
      <4>1. \E calls : s = Sym(n, "constructor", QualJoin(type, name[n]), <<name[n]>>, calls, {})
        BY <3>3 DEF KtPrimaryConstructor
      <4>2. /\ s.at = n /\ s.sort = "constructor" /\ s.qual = QualJoin(TypePath(n), name[n])
            /\ s.parent = <<name[n]>>
        BY <4>1, <2>1 DEF Sym
      <4>3. Class(n) \in symbols
        BY <2>2, <1>3, <1>5
      <4> HIDE DEF Class, symbols
      <4>. QED
        BY <4>2, <4>3, <1>2, <1>4
    <3>. QED
      BY <3>1, <3>2, <3>3
  <2>3. CASE kind[n] = "secondary"
    <3> DEFINE p == Up(n)
    <3>1. \E calls : s = Sym(n, "constructor", type, QualLast(type), calls, {})
      BY <2>3, <1>5 DEF KtEmit, KtTypes
    <3>2. s.at = n /\ s.sort = "constructor" /\ s.qual = type /\ s.parent = QualLast(type)
      BY <3>1 DEF Sym
    <3>3. kind[p] = "class" /\ p # 1
      BY <2>1, <2>3, FitsUp DEF NFits, Rooted
    <3>4. Class(p) \in symbols
      BY <3>3, <2>1, <1>3, <1>5, KtVisitedUp DEF KtTypes
    <3>5. type = QualJoin(TypePath(p), name[p])
      BY <2>1, <3>3, <1>1, <1>5 DEF PathIn, PathTypes, KtTypes, QualJoin
    <3> HIDE DEF Class, symbols, type, p
    <3>. QED
      BY <3>2, <3>4, <3>5, <1>2
  <2>4. CASE kind[n] \notin KtTypes \cup {"secondary"}
    <3>1. \E sort, qual, calls :
            /\ s = Sym(n, sort, qual, QualLast(type), calls, {})
            /\ sort \notin {"class", "constructor"}
      <4>1. CASE kind[n] = "alias"
        BY <4>1, <2>4, <1>5 DEF KtEmit, KtTypes, MemberOf
      <4>2. CASE kind[n] = "fn"
        BY <4>2, <2>4, <1>5 DEF KtEmit, KtTypes, KtMember
      <4>3. CASE kind[n] = "val"
        BY <4>3, <2>4, <1>5 DEF KtEmit, KtTypes, KtMember
      <4>4. CASE kind[n] = "param"
        BY <4>4, <2>4, <1>5 DEF KtEmit, KtTypes, KtMember
      <4>5. CASE kind[n] = "entry"
        BY <4>5, <2>4, <1>5 DEF KtEmit, KtTypes
      <4>6. CASE kind[n] \notin {"alias", "fn", "val", "param", "entry"}
        BY <4>6, <2>4, <1>5 DEF KtEmit, KtTypes
      <4>. QED
        BY <4>1, <4>2, <4>3, <4>4, <4>5, <4>6
    <3>. QED
      BY <3>1, <2>1 DEF Sym
  <2>. QED
    BY <2>2, <2>3, <2>4
<1> HIDE DEF symbols
<1>6. \A s \in symbols : Named(s)
  BY <1>5 DEF symbols
<1>7. NamedByType(symbols)
  <2>1. prof.lang # "csharp" /\ prof.lang # "swift"
    OBVIOUS
  <2>2. ASSUME NEW s, Named(s)
        PROVE  /\ s.sort = "class" => s.qual = QualJoin(TypePath(s.at), name[s.at])
               /\ IF s.sort = "constructor"
                  THEN \E t \in symbols : t.sort = "class" /\ t.qual = s.qual /\ s.parent = QualLast(t.qual)
                  ELSE s.parent = QualLast(TypePath(s.at))
    BY <2>2
  <2> HIDE DEF Named
  <2>. QED
    BY <1>6, <2>1, <2>2 DEF NamedByType
<1>. QED
  BY <1>7 DEF symbols

\* Swift: an extension's path is its name, a protocol's too, and what stands
\* in a protocol holds nothing.
LEMMA SwiftTypeIs ==
  ASSUME Shape, Rooted, NGrammar, prof.lang = "swift"
  PROVE  \A n \in File : n # 1 =>
           /\ QualLast(SwiftType[Up(n)]) = QualLast(TypePath(n))
           /\ kind[n] \notin {"req", "assoc"} => SwiftType[Up(n)] = TypePath(n)
<1> DEFINE Rest(g, n) == IF n = 1 THEN << >>
                         ELSE IF kind[n] \in SwiftExtensions \cup {"protocol"} THEN <<name[n]>>
                         ELSE IF kind[n] = "class" THEN QualJoin(g[Up(n)], name[n])
                         ELSE g[Up(n)]
           Held(n) == n # 1 /\ kind[Up(n)] = "protocol"
           g0 == [n \in File |-> IF kind[n] = "protocol" THEN <<name[n]>>
                                 ELSE IF Held(n) THEN <<name[Up(n)]>> ELSE PathIn(n)]
<1>1. kind[1] = "file"
  BY DEF Rooted
<1>2. ASSUME NEW n \in File, n # 1
      PROVE  /\ Up(n) \in File /\ TypePath(n) = PathIn(Up(n)) /\ ~Held(Up(n))
             /\ kind[n] \in PathTypes => kind[n] \in {"class", "protocol"} \cup SwiftExtensions
             /\ kind[n] \in SwiftExtensions => Up(n) = 1
             /\ kind[Up(n)] = "protocol" => kind[n] \in {"req", "assoc"}
  <2>1. Up(n) \in File /\ TypePath(n) = PathIn(Up(n)) /\ NFits(kind[n], kind[Up(n)], n = Up(n) + 1)
    BY <1>2, PathOfUp, FitsUp
  <2>2. ~Held(Up(n))
    <3> SUFFICES ASSUME Held(Up(n)) PROVE FALSE
      OBVIOUS
    <3>1. kind[Up(n)] \in {"req", "assoc"}
      BY <2>1, FitsUp DEF NFits
    <3>. QED
      BY <3>1, <2>1 DEF NFits
  <2>3. kind[Up(n)] = "file" => Up(n) = 1
    BY <2>1 DEF Rooted
  <2>. QED
    BY <2>1, <2>2, <2>3 DEF NFits
<1>3. ASSUME NEW n \in File PROVE g0[n] = Rest(g0, n)
  <2>1. CASE n = 1
    BY <2>1, <1>1, PathOfUp
  <2>2. CASE n # 1 /\ kind[n] = "protocol"
    BY <2>2
  <2>3. CASE n # 1 /\ kind[n] # "protocol" /\ kind[Up(n)] = "protocol"
    <3>1. kind[n] \notin SwiftExtensions \cup {"class"}
      BY <2>3, <1>2 DEF SwiftExtensions
    <3>2. g0[Up(n)] = <<name[Up(n)]>> /\ g0[n] = <<name[Up(n)]>>
      BY <2>3, <1>2
    <3>. QED
      BY <3>1, <3>2, <2>3
  <2>4. CASE n # 1 /\ kind[n] # "protocol" /\ kind[Up(n)] # "protocol"
    <3>1. g0[Up(n)] = TypePath(n) /\ g0[n] = PathIn(n)
      BY <2>4, <1>2
    <3>2. CASE kind[n] \in SwiftExtensions
      <4>1. TypePath(n) = << >>
        BY <3>2, <2>4, <1>2, PathOfUp
      <4>2. PathIn(n) = <<name[n]>>
        BY <4>1, <3>2 DEF PathIn, PathTypes
      <4>. QED
        BY <4>2, <3>1, <3>2, <2>4
    <3>3. CASE kind[n] \notin SwiftExtensions
      <4>1. kind[n] \in PathTypes <=> kind[n] = "class"
        BY <3>3, <2>4, <1>2 DEF PathTypes, KtTypes
      <4>. QED
        BY <4>1, <3>1, <3>3, <2>4, Zenon DEF PathIn, QualJoin
    <3>. QED
      BY <3>2, <3>3
  <2>. QED
    BY <2>1, <2>2, <2>3, <2>4
<1>4. g0 = [n \in File |-> Rest(g0, n)]
  <2> HIDE DEF Rest
  <2>. QED
    BY <1>3
<1>5. SwiftType = CHOOSE g : g = [n \in File |-> Rest(g, n)]
  BY DEF SwiftType
<1>6. SwiftType = [n \in File |-> Rest(SwiftType, n)]
  <2> HIDE DEF Rest, g0
  <2>. QED
    BY <1>4, <1>5
<1>7. 1 \in File /\ SwiftType[1] = g0[1]
  BY <1>3, <1>6, PathOfUp, Zenon
<1>8. ASSUME NEW n \in File, n # 1, SwiftType[Up(n)] = g0[Up(n)] PROVE SwiftType[n] = g0[n]
  <2>1. SwiftType[n] = Rest(SwiftType, n) /\ g0[n] = Rest(g0, n)
    BY <1>3, <1>6, Zenon
  <2> HIDE DEF g0
  <2>. QED
    BY <2>1, <1>8
<1>9. \A n \in File : SwiftType[n] = g0[n]
  <2> HIDE DEF g0
  <2>. QED
    BY <1>7, <1>8, SameFromTheRoot
<1>10. ASSUME NEW n \in File, n # 1
       PROVE  /\ QualLast(SwiftType[Up(n)]) = QualLast(TypePath(n))
              /\ kind[n] \notin {"req", "assoc"} => SwiftType[Up(n)] = TypePath(n)
  <2>1. SwiftType[Up(n)] = IF kind[Up(n)] = "protocol" THEN <<name[Up(n)]>> ELSE PathIn(Up(n))
    BY <1>2, <1>9, <1>10, Zenon
  <2>2. CASE kind[Up(n)] = "protocol"
    <3>1. kind[n] \in {"req", "assoc"}
      BY <2>2, <1>2, <1>10
    <3>2. TypePath(n) = QualJoin(TypePath(Up(n)), name[Up(n)])
      BY <2>2, <1>2, <1>10 DEF PathIn, PathTypes, QualJoin
    <3>3. QualLast(TypePath(n)) = <<name[Up(n)]>>
      BY <3>2, <1>2, <1>10, LastOfPath
    <3>4. QualLast(<<name[Up(n)]>>) = <<name[Up(n)]>>
      BY DEF QualLast
    <3>. QED
      BY <3>1, <3>3, <3>4, <2>1, <2>2
  <2>3. CASE kind[Up(n)] # "protocol"
    BY <2>1, <2>3, <1>2, <1>10
  <2>. QED
    BY <2>2, <2>3
<1>. QED
  BY <1>10

LEMMA SwiftNames ==
  ASSUME Shape, Rooted, NGrammar, prof.lang = "swift"
  PROVE  NamedByType(UNION {SwiftEmit(n) : n \in {n \in File : SwiftVisited(n)}})
<1> DEFINE symbols == UNION {SwiftEmit(n) : n \in {n \in File : SwiftVisited(n)}}
           Named(s) == /\ s.sort = "class" => s.qual = QualJoin(TypePath(s.at), name[s.at])
                       /\ s.sort # "type" => s.parent = QualLast(TypePath(s.at))
<1>1. ASSUME NEW n \in File, SwiftVisited(n), NEW s \in SwiftEmit(n)
      PROVE  Named(s)
  <2> DEFINE type == SwiftType[Up(n)]
  <2>1. /\ n # 1 /\ QualLast(type) = QualLast(TypePath(n))
        /\ kind[n] \in {"class", "protocol"} => type = TypePath(n)
    BY <1>1, SwiftTypeIs DEF SwiftVisited
  <2>2. CASE kind[n] \in {"class", "protocol"}
    <3>1. s = MemberOf(n, "class", type, {}, {})
      BY <2>2, <1>1 DEF SwiftEmit
    <3>2. s.at = n /\ s.sort = "class" /\ s.qual = QualJoin(type, name[n]) /\ s.parent = QualLast(type)
      BY <3>1 DEF MemberOf, Sym
    <3>. QED
      BY <3>2, <2>1, <2>2
  <2>3. CASE kind[n] = "alias"
    <3>1. s = Sym(n, "type", <<name[n]>>, << >>, {}, {})
      BY <2>3, <1>1 DEF SwiftEmit
    <3>. QED
      BY <3>1 DEF Sym
  <2>4. CASE kind[n] \notin {"class", "protocol", "alias"}
    <3>1. \E sort, nm, calls : s = SwiftMember(n, sort, nm, calls) /\ sort # "class"
      <4>1. CASE kind[n] = "fn"
        BY <4>1, <1>1 DEF SwiftEmit
      <4>2. CASE kind[n] = "init"
        BY <4>2, <1>1 DEF SwiftEmit
      <4>3. CASE kind[n] = "deinit"
        BY <4>3, <1>1 DEF SwiftEmit
      <4>4. CASE kind[n] = "subscript"
        BY <4>4, <1>1 DEF SwiftEmit
      <4>5. CASE kind[n] \in {"prop", "req"}
        BY <4>5, <1>1 DEF SwiftEmit
      <4>6. CASE kind[n] \in {"case", "assoc"}
        BY <4>6, <1>1 DEF SwiftEmit
      <4>7. CASE kind[n] \notin {"fn", "init", "deinit", "subscript", "prop", "req", "case", "assoc"}
        BY <4>7, <2>4, <1>1 DEF SwiftEmit
      <4>. QED
        BY <4>1, <4>2, <4>3, <4>4, <4>5, <4>6, <4>7
    <3>. QED
      BY <3>1, <2>1 DEF SwiftMember, Sym
  <2>. QED
    BY <2>2, <2>3, <2>4
<1>2. \A s \in symbols : Named(s)
  <2> HIDE DEF Named
  <2>. QED
    BY <1>1
<1> HIDE DEF symbols
<1>3. prof.lang # "csharp" /\ prof.lang # "kotlin"
  OBVIOUS
<1>4. NamedByType(symbols)
  BY <1>2, <1>3 DEF NamedByType
<1>. QED
  BY <1>4 DEF symbols

LEMMA SwiftConformancesNamed ==
  ASSUME NamedByType(out), prof.lang = "swift"
  PROVE  NamedByType({IF s.sort = "class" /\ kind[s.at] = "class" /\ name[s.at] \in SwiftConforming
                      THEN Sym(s.at, s.sort, s.qual, s.parent, s.calls, {"implements"}) ELSE s : s \in out})
<1> DEFINE Conforms(s) == IF s.sort = "class" /\ kind[s.at] = "class" /\ name[s.at] \in SwiftConforming
                          THEN Sym(s.at, s.sort, s.qual, s.parent, s.calls, {"implements"}) ELSE s
<1>1. \A s : /\ Conforms(s).at = s.at /\ Conforms(s).sort = s.sort
             /\ Conforms(s).qual = s.qual /\ Conforms(s).parent = s.parent
  BY DEF Sym
<1> HIDE DEF Conforms
<1>2. NamedByType({Conforms(s) : s \in out})
  BY <1>1 DEF NamedByType
<1>. QED
  BY <1>2 DEF Conforms

-----------------------------------------------------------------------------
(* Go: a receiver is a chain of first children down to its type's name     *)

LEMMA FirstKidIs ==
  ASSUME Shape, NEW p \in File, Kids(p) # {}
  PROVE  /\ p + 1 \in File /\ IsParent(lev, p + 1, p) /\ lev[p + 1] = lev[p] + 1
         /\ Up(p + 1) = p
<1>1. /\ Len(lev) \in Nat \ {0} /\ File = 1 .. Len(lev) /\ \A n \in File : lev[n] \in Nat
      /\ \A n \in 2 .. Len(lev) : lev[n] <= lev[n - 1] + 1
  BY TreeShape, Zenon DEF Shape, File, Nodes
<1>2. PICK m \in File : IsParent(lev, m, p)
  BY DEF Kids
<1>3. p \in Nat /\ m \in Nat /\ p < m /\ p + 1 \in p + 1 .. m /\ p + 1 \in File /\ p + 1 \in 2 .. Len(lev)
  BY <1>1, <1>2 DEF IsParent
<1>4. lev[p + 1] > lev[p]
  BY <1>2, <1>3 DEF IsParent
<1>5. lev[p + 1] = lev[p] + 1
  BY <1>1, <1>3, <1>4
<1>6. IsParent(lev, p + 1, p)
  <2>1. \A k \in p + 1 .. p + 1 : k = p + 1
    BY <1>3
  <2>. QED
    BY <1>1, <1>3, <1>4, <1>5, <2>1 DEF IsParent
<1>7. Up(p + 1) = p
  BY <1>3, <1>6, UpUnique
<1>. QED
  BY <1>3, <1>5, <1>6, <1>7

\* The type names of a receiver outside its type arguments.
GoNames(n) == {t \in Of({"tid"}) : InSubtree(lev, n, t) /\ Way(n, t) \cap Of({"targs"}) = {}}

\* Between a method and the name of its receiver is nothing else.
LEMMA GoChainDown ==
  ASSUME Shape, Rooted, NGrammar, GoGrammar, prof.lang = "go",
         NEW n \in File, kind[n] = "method", NEW u \in GoNames(n)
  PROVE  \A m \in n + 1 .. u - 1 : kind[m] \in GoChain
<1>1. /\ File = 1 .. Len(lev) /\ Len(lev) \in Nat /\ \A m \in File : m \in Nat /\ m >= 1 /\ lev[m] \in Nat
      /\ n \in File /\ u \in File /\ kind[u] = "tid" /\ InSubtree(lev, n, u)
      /\ Way(n, u) \cap Of({"targs"}) = {} /\ lev[n] = 1
  BY TreeShape DEF Shape, File, Nodes, GoNames, Of, GoGrammar, GoTop
<1>2. n < u
  BY <1>1 DEF InSubtree
<1> DEFINE Good(k) == k \in Way(n, u) /\ (kind[k] \in GoChain \/ k = u)
           T == {m \in n + 1 .. u : \A k \in m .. u : Good(k)}
<1>3. u \in T
  <2>1. u \in n + 1 .. u /\ InSubtree(lev, u, u)
    BY <1>1, <1>2 DEF InSubtree
  <2>2. \A k \in u .. u : k = u
    BY <1>1
  <2>. QED
    BY <2>1, <2>2 DEF Way
<1>4. PICK m \in T : \A k \in T : m <= k
  <2>1. n + 1 .. u \subseteq Nat
    BY <1>1
  <2>2. T \subseteq Nat /\ T # {}
    BY <2>1, <1>3
  <2> HIDE DEF T
  <2>. QED
    BY <2>2, LeastNat, Zenon
<1>5. CASE m = n + 1
  BY <1>1, <1>2, <1>4, <1>5
<1>6. CASE m # n + 1
  <2>1. /\ m \in File /\ m \in Nat /\ n + 1 < m /\ m <= u /\ m \in m .. u /\ Good(m)
    BY <1>1, <1>4, <1>6
  <2>2. InSubtree(lev, m, u) /\ kind[m] \in GoChain \cup {"tid"} /\ m # 1
    BY <2>1, <1>1 DEF Way
  <2>3. InSubtree(lev, n, m)
    <3>1. n + 1 .. m \subseteq n + 1 .. u
      BY <2>1, <1>1
    <3>. QED
      BY <3>1, <2>1, <1>1 DEF InSubtree
  <2>4. /\ Up(m) \in File /\ Up(m) < m /\ IsParent(lev, m, Up(m)) /\ Up(m) \in Nat
        /\ (Up(m) = n \/ Above(n, Up(m)))
    <3>1. Above(n, m)
      BY <2>1, <2>3, <1>1 DEF Above
    <3>. QED
      BY <3>1, <2>1, <2>2, <1>1, UpIs, AboveUp
  <2>5. InSubtree(lev, Up(m), u)
    <3>1. Above(Up(m), m)
      BY <2>1, <2>2, AboveUp
    <3>. QED
      BY <3>1, <2>1, <2>2, <1>1, AboveTrans DEF Above
  <2>6. kind[Up(m)] # "targs"
    <3>1. CASE Up(m) = n
      BY <3>1
    <3>2. CASE Above(n, Up(m))
      <4>1. Up(m) \in Way(n, u)
        BY <3>2, <2>1, <2>4, <2>5, <1>1 DEF Way, Above
      <4>. QED
        BY <4>1, <2>4, <1>1 DEF Of
    <3>. QED
      BY <3>1, <3>2, <2>4
  <2>7. m = Up(m) + 1 /\ kind[Up(m)] \in GoChain \cup {"method"}
    BY <2>1, <2>2, <2>6, FitsUp DEF NFits
  <2>8. Up(m) # n
    BY <2>1, <2>4, <2>7, <1>1
  <2>9. kind[Up(m)] # "method"
    <3>1. lev[Up(m)] > lev[n]
      BY <2>4, <2>8, <1>1 DEF Above, InSubtree
    <3>. QED
      BY <3>1, <2>4, <1>1 DEF GoGrammar, GoTop
  <2>10. Up(m) \in Way(n, u)
    BY <2>1, <2>4, <2>5, <2>8, <1>1 DEF Way, Above
  <2>11. Up(m) \in T
    <3>1. \A k \in Up(m) .. u : k = Up(m) \/ k \in m .. u
      BY <2>4, <2>7, <1>1
    <3>2. Good(Up(m))
      BY <2>7, <2>9, <2>10
    <3>3. \A k \in m .. u : Good(k)
      BY <1>4
    <3>4. Up(m) \in n + 1 .. u
      BY <2>4, <2>8, <2>1, <1>1 DEF Above
    <3> HIDE DEF Good
    <3>. QED
      BY <3>1, <3>2, <3>3, <3>4
  <2>. QED
    BY <2>4, <2>11, <1>4, <2>1
<1>. QED
  BY <1>5, <1>6

LEMMA GoReceiverIs ==
  ASSUME Shape, Rooted, NGrammar, GoGrammar, GoWhole, prof.lang = "go",
         NEW n \in File, kind[n] = "method"
  PROVE  GoReceiver(n) = <<name[GoReceiverType(n)]>>
<1>1. /\ File = 1 .. Len(lev) /\ Len(lev) \in Nat
      /\ \A m \in File : m \in Nat /\ m >= 1 /\ lev[m] \in Nat /\ (m # 1 => lev[m] >= 1)
      /\ lev[n] = 1 /\ n \in Nat /\ n >= 1
  BY TreeShape DEF Shape, File, Nodes, GoGrammar, GoTop
<1> DEFINE Links(m) == m \in File /\ kind[m] \in GoChain
           E == {j \in n + 1 .. Len(lev) + 1 : ~Links(j)}
<1>2. PICK j \in E : \A k \in E : j <= k
  <2>1. E \subseteq Nat /\ Len(lev) + 1 \in E
    BY <1>1
  <2> HIDE DEF E
  <2>. QED
    BY <2>1, LeastNat, Zenon
<1>3. j \in Nat /\ j >= n + 1 /\ j <= Len(lev) + 1 /\ \A m \in n + 1 .. j - 1 : Links(m)
  BY <1>1, <1>2
<1>4. ASSUME NEW p \in n .. j - 1
      PROVE  /\ p \in File /\ kind[p] \in GoChain \cup {"method"}
             /\ p + 1 \in File /\ IsParent(lev, p + 1, p)
             /\ kind[p + 1] \in GoChain \cup {"tid"}
  <2>1. p \in File /\ kind[p] \in GoChain \cup {"method"}
    <3>1. p = n \/ p \in n + 1 .. j - 1
      BY <1>1, <1>3
    <3>. QED
      BY <3>1, <1>3
  <2>2. Kids(p) # {}
    BY <2>1 DEF GoWhole, Of, GoChain
  <2>3. p + 1 \in File /\ IsParent(lev, p + 1, p)
    BY <2>1, <2>2, FirstKidIs
  <2>4. NFits(kind[p + 1], kind[p], TRUE)
    BY <2>1, <2>3 DEF NGrammar, NFits
  <2>5. kind[p + 1] \in GoChain \cup {"tid"}
    BY <2>1, <2>4 DEF NFits, GoChain
  <2>. QED
    BY <2>1, <2>3, <2>5
<1>5. j \in File /\ kind[j] = "tid"
  <2>1. j - 1 \in n .. j - 1 /\ (j - 1) + 1 = j
    BY <1>1, <1>3
  <2>2. j \in File /\ kind[j] \in GoChain \cup {"tid"}
    BY <2>1, <1>4
  <2>. QED
    BY <2>2, <1>2
<1>6. ASSUME NEW m \in n + 1 .. j PROVE m \in File /\ lev[m] > lev[n] /\ kind[m] \in GoChain \cup {"tid"}
  <2>1. m - 1 \in n .. j - 1 /\ (m - 1) + 1 = m
    BY <1>1, <1>3
  <2>2. m \in File /\ kind[m] \in GoChain \cup {"tid"}
    BY <2>1, <1>4
  <2>3. lev[m] # 1 /\ m # 1
    BY <2>2, <1>1 DEF GoGrammar, GoTop, GoChain
  <2>. QED
    BY <2>2, <2>3, <1>1
<1>7. j \in GoNames(n)
  <2>1. InSubtree(lev, n, j)
    BY <1>1, <1>3, <1>6 DEF InSubtree
  <2>2. Way(n, j) \cap Of({"targs"}) = {}
    BY <1>6 DEF Way, Of, GoChain
  <2>. QED
    BY <2>1, <2>2, <1>5 DEF GoNames, Of
<1>8. ASSUME NEW u \in GoNames(n) PROVE u = j
  <2>1. u \in File /\ kind[u] = "tid" /\ InSubtree(lev, n, u) /\ u \in Nat
    BY <1>1 DEF GoNames, Of
  <2>2. u > n
    BY <2>1, <1>1 DEF InSubtree
  <2>3. ~(u < j)
    <3>1. u < j => Links(u)
      BY <2>1, <2>2, <1>1, <1>3
    <3>. QED
      BY <3>1, <2>1 DEF GoChain
  <2>4. ~(j < u)
    <3> SUFFICES ASSUME j < u PROVE FALSE
      OBVIOUS
    <3>1. j \in n + 1 .. u - 1
      BY <2>1, <1>1, <1>3
    <3>2. kind[j] \in GoChain
      BY <3>1, GoChainDown
    <3>. QED
      BY <3>2, <1>5 DEF GoChain
  <2>. QED
    BY <2>1, <2>3, <2>4, <1>3
<1>9. GoReceiverType(n) = j
  <2>1. \A t : (t \in Of({"tid"}) /\ InSubtree(lev, n, t) /\ Way(n, t) \cap Of({"targs"}) = {})
               <=> t \in GoNames(n)
    BY DEF GoNames
  <2>2. GoReceiverType(n) \in GoNames(n)
    BY <2>1, <1>7 DEF GoReceiverType
  <2>. QED
    BY <2>2, <1>8
<1>10. j \in GoReceiverNames(n) /\ \A u \in GoReceiverNames(n) : j <= u
  <2>1. j \in GoReceiverNames(n)
    BY <1>7 DEF GoNames, GoReceiverNames
  <2>2. ASSUME NEW u \in GoReceiverNames(n) PROVE j <= u
    <3>1. u \in File /\ kind[u] = "tid" /\ n <= u /\ u \in Nat
      BY <1>1 DEF GoReceiverNames, Of, InSubtree
    <3>2. u > n
      BY <3>1, <1>1
    <3>3. u < j => Links(u)
      BY <3>1, <3>2, <1>1, <1>3
    <3>. QED
      BY <3>1, <3>3, <1>3 DEF GoChain
  <2>. QED
    BY <2>1, <2>2
<1>11. GoReceiver(n) = <<name[j]>>
  <2> DEFINE names == GoReceiverNames(n)
             first == CHOOSE t \in names : \A u \in names : t <= u
  <2>1. names \subseteq Nat
    BY <1>1 DEF GoReceiverNames, Of
  <2>2. first = j
    <3> HIDE DEF names
    <3>1. first \in names /\ \A u \in names : first <= u
      BY <1>10, Zenon DEF names
    <3>. QED
      BY <3>1, <2>1, <1>10 DEF names
  <2>. QED
    BY <2>2, <1>10, Zenon DEF GoReceiver
<1>. QED
  BY <1>9, <1>11

LEMMA GoNamed ==
  ASSUME Shape, Rooted, NGrammar, GoGrammar, GoWhole, prof.lang = "go"
  PROVE  \A s \in UNION {ExtractGoNodes(n) : n \in Kids(1)} :
           kind[s.at] = "method" => s.parent = <<name[GoReceiverType(s.at)]>>
<1> SUFFICES ASSUME NEW n \in Kids(1), NEW s \in ExtractGoNodes(n), kind[s.at] = "method"
             PROVE  s.parent = <<name[GoReceiverType(s.at)]>>
  OBVIOUS
<1>1. n \in File /\ IsParent(lev, n, 1) /\ lev[n] = 1 /\ kind[n] \in GoTop
  <2>1. lev[1] = 0 /\ n \in File /\ IsParent(lev, n, 1) /\ lev[n] \in Nat
    BY TreeShape DEF Kids, Shape, File, Nodes
  <2>2. lev[n] = 1
    BY <2>1 DEF IsParent
  <2>. QED
    BY <2>1, <2>2 DEF GoGrammar
<1>2. CASE kind[n] = "method"
  <2>1. s = GoMethodSym(n)
    BY <1>2 DEF ExtractGoNodes
  <2>2. s.at = n /\ s.parent = GoReceiver(n)
    BY <2>1 DEF GoMethodSym, Sym
  <2>. QED
    BY <2>2, <1>1, <1>2, GoReceiverIs
<1>3. CASE kind[n] = "func"
  <2>1. s = GoFuncSym(n)
    BY <1>3 DEF ExtractGoNodes
  <2>2. s.at = n
    BY <2>1 DEF GoFuncSym, MemberOf, Sym
  <2>. QED
    BY <2>2, <1>3
<1>4. CASE kind[n] = "types"
  <2>1. s \in GoTypeDecl(n)
    BY <1>4 DEF ExtractGoNodes
  <2>2. PICK t \in Kids(n) : s \in {MemberOf(t, kind[t], << >>, {}, {})}
           \cup (IF kind[t] = "struct" THEN GoStructFields(t) ELSE {})
           \cup (IF kind[t] = "iface" THEN GoInterfaceMethods(t) ELSE {})
    BY <2>1 DEF GoTypeDecl
  <2>3. CASE s = MemberOf(t, kind[t], << >>, {}, {})
    <3>1. s.at = t
      BY <2>3 DEF MemberOf, Sym
    <3>2. t \in File /\ lev[n] = lev[t] - 1 /\ lev[t] \in Nat
      BY <2>2, TreeShape DEF Kids, IsParent, Shape, File, Nodes
    <3>3. kind[t] \notin GoTop
      BY <3>2, <1>1 DEF GoGrammar
    <3>. QED
      BY <3>1, <3>3 DEF GoTop
  <2>4. CASE s \in GoStructFields(t)
    <3>1. PICK i \in Of({"id"}) : s = GoMember(i, "field", t, {})
      BY <2>4 DEF GoStructFields
    <3>. QED
      BY <3>1 DEF GoMember, Sym, Of
  <2>5. CASE s \in GoInterfaceMethods(t)
    <3>1. PICK i \in Of({"elem"}) : s = GoMember(i, "method", t, {"declaration"})
      BY <2>5 DEF GoInterfaceMethods
    <3>. QED
      BY <3>1 DEF GoMember, Sym, Of
  <2>. QED
    BY <2>2, <2>3, <2>4, <2>5
<1>5. CASE kind[n] \in {"consts", "vars"}
  <2>1. \E sort : s \in GoSpecDecl(n, sort)
    BY <1>5 DEF ExtractGoNodes
  <2>2. PICK sort : s \in GoSpecDecl(n, sort)
    BY <2>1
  <2>3. PICK i \in Of({"id"}) : s = MemberOf(i, sort, << >>, {}, {})
    BY <2>2 DEF GoSpecDecl
  <2>. QED
    BY <2>3 DEF MemberOf, Sym, Of
<1>. QED
  BY <1>1, <1>2, <1>3, <1>4, <1>5 DEF GoTop

-----------------------------------------------------------------------------
(* Objective-C: a member has the container it stands in for a parent       *)

ObjcHolders == ObjcContainers \cup {"menum"}

ObjcNamed(symbols) ==
  \A s \in symbols :
    s.parent = IF s.sort # "type" /\ kind[Up(s.at)] \in ObjcHolders THEN <<name[Up(s.at)]>> ELSE << >>

\* A plain symbol, with nothing around it that members are named after.
ObjcPlain(s) == s.parent = << >> /\ (s.sort = "type" \/ kind[Up(s.at)] \notin ObjcHolders)

ObjcRegions == {"file", "cond", "alt"}

LEMMA ObjcVisitPlain ==
  ASSUME Shape, Rooted, NGrammar, prof.lang = "objc", NEW n \in File, kind[n] \in ObjcRegions,
         NEW s \in CppVisit[n]
  PROVE  ObjcPlain(s)
<1> DEFINE T == {k \in File : kind[k] \in ObjcRegions /\ \E r \in CppVisit[k] : ~ObjcPlain(r)}
<1>1. IsTree(lev) /\ \A k \in File : k \in Nat /\ k >= 1
  BY TreeShape DEF Shape, File, Nodes
<1> SUFFICES ASSUME T # {} PROVE FALSE
  OBVIOUS
<1>2. PICK d \in T : \A k \in T : k <= d
  <2>1. T \subseteq Nodes(lev)
    BY DEF File
  <2> HIDE DEF T
  <2>. QED
    BY <2>1, <1>1, LastNode
<1>3. d \in File /\ kind[d] \in ObjcRegions /\ kind[d] \notin ObjcHolders
  BY DEF ObjcRegions, ObjcHolders, ObjcContainers
<1>4. PICK r \in CppVisit[d] : ~ObjcPlain(r)
  OBVIOUS
<1>5. PICK k \in Kids(d) : r \in CppDecl(CppVisit, k)
  BY <1>3, CppVisitIs DEF CppVisitStep, CppKept
<1>6. \A m \in File : \A j \in Kids(m) : j \in File /\ j # 1 /\ Up(j) = m /\ m < j
  BY CKid
<1>7. k \in File /\ k # 1 /\ Up(k) = d /\ d < k
  BY <1>3, <1>6
<1>8. kind[k] \in ObjcKinds
  BY <1>7, FitsUp DEF NFits
<1>9. \A m \in File : d < m /\ kind[m] \in ObjcRegions => r \notin CppVisit[m]
  <2> SUFFICES ASSUME NEW m \in File, d < m, kind[m] \in ObjcRegions, r \in CppVisit[m]
               PROVE  FALSE
    OBVIOUS
  <2>1. m \in T
    BY <1>4
  <2>2. ~(m <= d)
    BY <1>1, <1>3
  <2> HIDE DEF T
  <2>. QED
    BY <2>1, <2>2, <1>2
<1>10. ~(r.at = k /\ r.parent = << >>)
  BY <1>3, <1>4, <1>7 DEF ObjcPlain
<1>11. CASE kind[k] \in {"fn", "proto"}
  <2>1. \E marks : r = CppFunc(k, << >>, marks)
    BY <1>5, <1>11 DEF CppDecl, CppDefinition
  <2>. QED
    BY <2>1, <1>10 DEF CppFunc, Sym
<1>12. CASE kind[k] = "var"
  BY <1>5, <1>10, <1>12 DEF CppDecl, Sym
<1>13. CASE kind[k] = "typedef"
  <2>1. Under(k) \cap File = {}
    <3> SUFFICES ASSUME NEW m \in Under(k), m \in File PROVE FALSE
      OBVIOUS
    <3>1. InSubtree(lev, k, m) /\ m # k
      BY DEF Under, Subtree
    <3>2. PICK e \in Way(k, m) : e \in File /\ IsParent(lev, e, k)
      BY <3>1, <1>7, ChildTowards
    <3>. QED
      BY <3>2, <1>7, <1>13 DEF NGrammar, NFits
  <2>2. Under(k) \subseteq File
    BY DEF Under, Subtree, File
  <2>3. CType(k) = CEmit(k)
    BY <2>1, <2>2 DEF CType
  <2>4. r \in CEmit(k)
    BY <1>5, <1>13, <2>3 DEF CppDecl
  <2>. QED
    BY <2>4, <1>10, <1>13 DEF CEmit, Sym
<1>14. CASE kind[k] \in {"cond", "alt"}
  <2>1. r \in CppVisit[k]
    BY <1>5, <1>14 DEF CppDecl
  <2>. QED
    BY <2>1, <1>7, <1>9, <1>14 DEF ObjcRegions
<1>15. CASE kind[k] = "off"
  <2>1. PICK m \in Kids(k) \cap Of({"alt"}) : r \in CppVisit[m]
    BY <1>5, <1>15 DEF CppDecl
  <2>2. m \in File /\ k < m /\ kind[m] = "alt"
    BY <1>6, <1>7 DEF Of
  <2>3. d < m
    BY <2>2, <1>1, <1>3, <1>7
  <2>. QED
    BY <2>1, <2>2, <2>3, <1>9 DEF ObjcRegions
<1>. QED
  BY <1>5, <1>8, <1>11, <1>12, <1>13, <1>14, <1>15
  DEF CppDecl, ObjcKinds, ObjcDecls, ObjcContainers

\* Containers and macro enums stand in regions.
LEMMA ObjcOuterPlain ==
  ASSUME Shape, Rooted, NGrammar, prof.lang = "objc", NEW n \in File, kind[n] \in ObjcHolders
  PROVE  kind[Up(n)] \notin ObjcHolders
<1>1. n # 1 /\ kind[n] \in ObjcDecls
  BY DEF Rooted, ObjcHolders, ObjcContainers, ObjcDecls
<1>. QED
  BY <1>1, FitsUp DEF NFits, ObjcHolders, ObjcContainers

LEMMA ObjcSymIs ==
  \A n, sort, parent, calls :
    /\ ObjcSym(n, sort, parent, calls).at = n /\ ObjcSym(n, sort, parent, calls).sort = sort
    /\ ObjcSym(n, sort, parent, calls).parent = parent
BY DEF ObjcSym, Sym

LEMMA ObjcNames ==
  ASSUME Shape, Rooted, NGrammar, prof.lang = "objc"
  PROVE  ObjcNamed(CppVisit[1] \cup (UNION {ObjcMisread(e) : e \in ObjcEntered({"menum"})})
                               \cup UNION {ObjcContainer(c) : c \in ObjcEntered(ObjcContainers)})
<1> DEFINE Named(s) == s.parent = IF s.sort # "type" /\ kind[Up(s.at)] \in ObjcHolders
                                  THEN <<name[Up(s.at)]>> ELSE << >>
<1>1. ASSUME NEW s \in CppVisit[1] PROVE Named(s)
  <2>1. 1 \in File /\ kind[1] \in ObjcRegions
    BY PathOfUp DEF Rooted, ObjcRegions
  <2>. QED
    BY <2>1, ObjcVisitPlain DEF ObjcPlain
<1>2. ASSUME NEW e, NEW s \in ObjcMisread(e) PROVE Named(s)
  <2>1. PICK i : s = ObjcSym(i, "type", << >>, {})
    BY <1>2 DEF ObjcMisread
  <2>. QED
    BY <2>1, ObjcSymIs
<1>3. ASSUME NEW c \in ObjcEntered(ObjcContainers), NEW s \in ObjcContainer(c) PROVE Named(s)
  <2>1. c \in File /\ kind[c] \in ObjcHolders
    BY DEF ObjcEntered, Of, ObjcHolders
  <2>2. CASE s \in ObjcMembers(c)
    <3>1. PICK m \in Kids(c) : \E sort \in {"field", "method"} : \E calls : s = ObjcSym(m, sort, <<name[c]>>, calls)
      BY <2>2 DEF ObjcMembers
    <3>2. s.at = m /\ s.sort # "type" /\ s.parent = <<name[c]>>
      BY <3>1, ObjcSymIs
    <3>3. Up(m) = c
      BY <2>1, CKid
    <3>. QED
      BY <2>1, <3>2, <3>3
  <2>3. CASE s = ObjcSym(c, "class", << >>, {})
    BY <2>1, <2>3, ObjcSymIs, ObjcOuterPlain
  <2>. QED
    BY <1>3, <2>2, <2>3 DEF ObjcContainer
<1> HIDE DEF Named
<1>4. \A s \in CppVisit[1] \cup (UNION {ObjcMisread(e) : e \in ObjcEntered({"menum"})})
                            \cup UNION {ObjcContainer(c) : c \in ObjcEntered(ObjcContainers)} : Named(s)
  BY <1>1, <1>2, <1>3
<1>. QED
  BY <1>4 DEF ObjcNamed, Named

LEMMA ObjcBlocksNamed ==
  ASSUME ObjcNamed(out)
  PROVE  ObjcNamed(out \cup {ObjcSym(n, "type", << >>, {}) : n \in Of({"blocktype"})})
BY ObjcSymIs DEF ObjcNamed

LEMMA ObjcEnumsNamed ==
  ASSUME Shape, Rooted, NGrammar, prof.lang = "objc", ObjcNamed(out)
  PROVE  ObjcNamed({s \in out : ~(s.sort = "type" /\ \E e \in ObjcEnumOf(name[s.at]) : s.at \in Under(e))}
            \cup {ObjcSym(e, "enum", << >>, {}) : e \in ObjcEntered({"menum"})}
            \cup UNION {{ObjcSym(i, "const", <<name[e]>>, {}) : i \in Kids(e)} : e \in ObjcEntered({"menum"})})
<1> DEFINE Named(s) == s.parent = IF s.sort # "type" /\ kind[Up(s.at)] \in ObjcHolders
                                  THEN <<name[Up(s.at)]>> ELSE << >>
           kept == {s \in out : ~(s.sort = "type" /\ \E e \in ObjcEnumOf(name[s.at]) : s.at \in Under(e))}
           enums == {ObjcSym(e, "enum", << >>, {}) : e \in ObjcEntered({"menum"})}
           consts == UNION {{ObjcSym(i, "const", <<name[e]>>, {}) : i \in Kids(e)} : e \in ObjcEntered({"menum"})}
<1>1. \A s \in kept : Named(s)
  BY DEF ObjcNamed
<1>2. \A e \in ObjcEntered({"menum"}) : e \in File /\ kind[e] \in ObjcHolders
  BY DEF ObjcEntered, Of, ObjcHolders
<1>3. \A s \in enums : Named(s)
  BY <1>2, ObjcSymIs, ObjcOuterPlain
<1>4. \A e \in File : \A i \in Kids(e) : Up(i) = e
  BY CKid
<1>5. ASSUME NEW e \in ObjcEntered({"menum"}), NEW i \in Kids(e)
      PROVE  Named(ObjcSym(i, "const", <<name[e]>>, {}))
  <2>1. Up(i) = e /\ e \in File /\ kind[e] \in ObjcHolders
    BY <1>2, <1>4
  <2>. QED
    BY <2>1, ObjcSymIs
<1> HIDE DEF Named
<1>6. \A s \in consts : Named(s)
  BY <1>5, Zenon
<1> HIDE DEF kept, enums, consts
<1>7. \A s \in kept \cup enums \cup consts : Named(s)
  BY <1>1, <1>3, <1>6
<1>8. ObjcNamed(kept \cup enums \cup consts)
  BY <1>7 DEF ObjcNamed, Named
<1>. QED
  BY <1>8 DEF kept, enums, consts

-----------------------------------------------------------------------------
(* PHP: a member has the class for a parent that it stands in, or whose    *)
(* enum was cut short before it                                            *)

\* The node e is an enum that is cut short, m a later node in the same one,
\* and no brace is between them.
PhpFollows(e, m, p) ==
  /\ kind[e] = "unclosed" /\ e < m /\ IsParent(lev, e, p) /\ IsParent(lev, m, p)
  /\ \A c \in File : kind[c] = "close" /\ IsParent(lev, c, p) => ~(e < c /\ c < m)

\* In the body of an enum that is cut short stands no other enum.
PhpSpillKinds ==
  prof.lang = "php" =>
    \A e, m, p \in File : PhpFollows(e, m, p) => kind[m] \in {"fn", "case", "const", "close"}

LEMMA FollowsIs ==
  ASSUME Shape, Rooted, NEW e \in File, NEW m \in File
  PROVE  PhpSpilled(e, m) <=> PhpFollows(e, m, Up(m))
<1>1. \A n \in File : n \in Nat /\ n >= 1
  BY TreeShape DEF Shape, File, Nodes
<1>2. kind[e] = "unclosed" => e # 1
  BY DEF Rooted
<1>3. e < m => m # 1
  BY <1>1
<1>4. \A n \in File : \A p \in File : n # 1 => (IsParent(lev, n, p) <=> Up(n) = p)
  BY UpIs, UpUnique
<1>5. \A c \in Of({"close"}) : c \in File /\ c # 1
  BY DEF Of, Rooted
<1>6. m # 1 => Up(m) \in File
  BY UpIs
<1>7. CASE kind[e] = "unclosed" /\ e < m
  <2>1. \A c \in File : c \in Of({"close"}) <=> kind[c] = "close"
    BY DEF Of
  <2>2. ASSUME Up(e) = Up(m)
        PROVE  \A c \in File : (kind[c] = "close" /\ IsParent(lev, c, Up(m)))
                                 <=> c \in Of({"close"}) /\ Up(c) = Up(e)
    BY <2>1, <2>2, <1>3, <1>4, <1>5, <1>6, <1>7
  <2>3. Up(e) = Up(m) <=> IsParent(lev, e, Up(m)) /\ IsParent(lev, m, Up(m))
    BY <1>2, <1>3, <1>4, <1>6, <1>7
  <2>. QED
    BY <2>1, <2>2, <2>3, <1>5, <1>7 DEF PhpSpilled, PhpFollows
<1>. QED
  BY <1>7 DEF PhpSpilled, PhpFollows

LEMMA GrowSpill ==
  ASSUME Shape, Rooted, NGrammar, PhpSpillKinds, prof.lang = "php", NEW l \in Levels,
         NEW k \in PhpUnder(Open(l)), Grow(l, k)
  PROVE  PhpSpillKinds'
<1> DEFINE N == Len(lev')
           p == Open(l)
<1>1. /\ kind'[N] = k /\ prof' = prof /\ N = Len(lev) + 1 /\ Len(lev) \in Nat
      /\ File' = File \cup {N} /\ N \notin File /\ File \subseteq Nat /\ File = 1 .. Len(lev)
      /\ \A n \in File : kind'[n] = kind[n] /\ n < N
      /\ \A n, q \in File : IsParent(lev', n, q) <=> IsParent(lev, n, q)
      /\ \A n \in File : ~IsParent(lev', n, N)
      /\ p \in File
      /\ \A q \in File' : IsParent(lev', N, q) => q = p
  <2>1. /\ kind'[N] = k /\ prof' = prof /\ N = Len(lev) + 1 /\ File' = File \cup {N}
        /\ \A n \in File : kind'[n] = kind[n]
        /\ \A n, q \in File : IsParent(lev', n, q) <=> IsParent(lev, n, q)
        /\ \A n \in File : ~IsParent(lev', n, N)
        /\ p \in File
        /\ \A q \in File' : IsParent(lev', N, q) => q = p
    BY GrowFacts
  <2>2. Len(lev) \in Nat /\ File = 1 .. Len(lev)
    BY TreeShape DEF Shape, File, Nodes
  <2> HIDE DEF N, p
  <2>3. N \notin File /\ File \subseteq Nat /\ \A n \in File : n < N
    BY <2>1, <2>2
  <2>. QED
    BY <2>1, <2>2, <2>3
<1> HIDE DEF N
<1>2. ASSUME NEW e \in File', NEW m \in File', NEW q \in File', PhpFollows(e, m, q)'
      PROVE  kind'[m] \in {"fn", "case", "const", "close"}
  <2>1. /\ kind'[e] = "unclosed" /\ e < m /\ IsParent(lev', e, q) /\ IsParent(lev', m, q)
        /\ \A c \in File' : kind'[c] = "close" /\ IsParent(lev', c, q) => ~(e < c /\ c < m)
    BY <1>2 DEF PhpFollows
  <2>2. e \in File /\ q \in File
    <3>1. e # N
      BY <1>1, <2>1
    <3>2. q # N
      BY <3>1, <1>1, <2>1
    <3>. QED
      BY <3>1, <3>2, <1>1
  <2>3. CASE m \in File
    <3>1. PhpFollows(e, m, q)
      BY <2>1, <2>2, <2>3, <1>1, Zenon DEF PhpFollows
    <3>. QED
      BY <3>1, <2>2, <2>3, <1>1 DEF PhpSpillKinds
  <2>4. CASE m = N
    <3>1. q = p /\ e \in Kids(p) /\ kind[e] = "unclosed"
      BY <2>1, <2>2, <2>4, <1>1 DEF Kids
    <3>2. kind[p] \in {"file", "stmt"}
      BY <3>1, <1>1 DEF NGrammar, NFits, Kids
    <3> DEFINE last == CHOOSE j \in Kids(p) : \A i \in Kids(p) : i <= j
    <3>3. last \in Kids(p) /\ \A i \in Kids(p) : i <= last
      <4>1. last = Last(Kids(p)) /\ Kids(p) \subseteq File
        BY DEF Last, Kids
      <4> HIDE DEF last
      <4>. QED
        BY <4>1, <3>1, LastIs
    <3> HIDE DEF last
    <3>4. last \in File /\ IsParent(lev, last, p) /\ e \in File /\ IsParent(lev, e, p) /\ e <= last
      BY <3>1, <3>3 DEF Kids
    <3>5. last # e => PhpSpilled(e, last) /\ kind[last] # "close"
      <4> SUFFICES ASSUME last # e PROVE PhpSpilled(e, last) /\ kind[last] # "close"
        OBVIOUS
      <4>1. e < last /\ last < N /\ last \in File'
        BY <3>4, <1>1
      <4>2. \A c \in File : c \in File' /\ kind'[c] = kind[c] /\ c < N /\ c \in Nat
                            /\ (IsParent(lev', c, p) <=> IsParent(lev, c, p))
        BY <1>1
      <4>3. \A c \in File : kind[c] = "close" /\ IsParent(lev, c, p) => ~(e < c)
        BY <4>2, <2>1, <2>4, <3>1
      <4>4. PhpFollows(e, last, p)
        BY <4>1, <4>3, <3>1, <3>4 DEF PhpFollows
      <4>5. Up(last) = p
        BY <3>4, <1>1, UpUnique
      <4>. QED
        BY <4>1, <4>3, <4>4, <4>5, <3>4, FollowsIs
    <3>6. PhpUnder(p) = {"fn", "case", "const", "close"}
      <4> DEFINE spill == Kids(p) # {} /\ (kind[last] = "unclosed"
                                           \/ \E x \in Kids(p) : PhpSpilled(x, last) /\ kind[last] # "close")
      <4>1. spill
        BY <3>1, <3>5
      <4> HIDE DEF spill
      <4>. QED
        BY <4>1, <3>2, Zenon DEF PhpUnder, spill, last
    <3>. QED
      BY <3>6, <2>4, <1>1
  <2>. QED
    BY <2>3, <2>4, <1>1
<1>. QED
  BY <1>1, <1>2 DEF PhpSpillKinds

\* In every PHP file of every size, until the brace that ends an enum the
\* parser cut short, only functions, cases and constants follow it: none of
\* its members is a class with a name of its own.
THEOREM GrammarOfSpills == Spec => []PhpSpillKinds
<1>1. Init => PhpSpillKinds
  <2> SUFFICES ASSUME Init PROVE PhpSpillKinds
    OBVIOUS
  <2>1. lev = <<0>>
    BY Zenon DEF Init
  <2>2. File = {1}
    BY <2>1 DEF File, Nodes
  <2>. QED
    BY <2>2 DEF PhpSpillKinds, PhpFollows
<1>2. IInv /\ NGrammar /\ PhpSpillKinds /\ [Next]_vars => PhpSpillKinds'
  <2> SUFFICES ASSUME IInv, NGrammar, PhpSpillKinds, [Next]_vars PROVE PhpSpillKinds'
    OBVIOUS
  <2>1. CASE UNCHANGED fileVars
    <3>1. File' = File /\ prof' = prof /\ kind' = kind /\ lev' = lev
      BY <2>1 DEF fileVars, File
    <3>2. \A e, m, p : PhpFollows(e, m, p)' <=> PhpFollows(e, m, p)
      BY <3>1 DEF PhpFollows
    <3>. QED
      BY <3>1, <3>2 DEF PhpSpillKinds
  <2>2. CASE Next /\ prof.lang = "php"
    <3>1. PhpNext
      BY <2>2 DEF Next, CppNext, CsNext, GoNext, JavaNext, JsNext, KotlinNext, ObjcNext, PyNext, RustNext, SwiftNext,
         CppFile, CsFile, GoFile, JavaFile, JsFile, KtFile, ObjcFile, PyFile, RustFile, SwiftFile, ExtractCNodes,
         ExtractCSharpNodes, GoExtract, JavaVisitFile, JavaReattachOrphans, JsVisit, JsLocalFunctions,
         JsDedupe, JsExports, ExtractKotlinNodes, ExtractObjCNodes, ObjcBlockTypedefs, ObjcMacroEnums,
         PyVisit, PyModuleAssignments, PyTopLevel, RustVisitFile, RustImplTraits,
         SwiftVisitFile, SwiftConformances
    <3>2. CASE ExtractPHPNodes
      BY <3>2, <2>1 DEF ExtractPHPNodes, Pass
    <3>3. CASE PhpFile
      BY <3>3, GrowSpill DEF IInv, PhpFile
    <3>. QED
      BY <3>1, <3>2, <3>3 DEF PhpNext
  <2>3. CASE Next /\ prof.lang # "php"
    <3>1. prof' = prof
      BY <2>3, ParsesOrPasses DEF Grow, fileVars
    <3>. QED
      BY <2>3, <3>1 DEF PhpSpillKinds
  <2>4. UNCHANGED vars => UNCHANGED fileVars
    BY DEF vars, fileVars
  <2>. QED
    BY <2>1, <2>2, <2>3, <2>4
<1>. QED
  BY <1>1, <1>2, Inductive, GrammarOfNames, PTL DEF Spec

\* The part of an enum's body that follows it.
PhpCut(c, n) ==
  /\ kind[c] = "unclosed" /\ c < n
  /\ \E k \in Of({"close"}) : /\ Up(k) = Up(c) /\ n < k
                              /\ \A j \in Of({"close"}) : ~(Up(j) = Up(c) /\ c < j /\ j < k)

\* The classes around a node, and what its members have for a parent.
PhpAround(n) == {c \in Of(PhpClasses) : n \in PhpBody(c)}
PhpParent(n) == IF PhpAround(n) = {} THEN << >> ELSE <<PhpClassName(Last(PhpAround(n)))>>

LEMMA PhpAroundIs ==
  ASSUME Shape, NEW n \in File
  PROVE  \A c : c \in PhpAround(n) <=> c \in File /\ kind[c] \in PhpClasses /\ (Above(c, n) \/ PhpCut(c, n))
<1>1. \A k \in File : k \in Nat
  BY TreeShape DEF Shape, File, Nodes
<1>2. \A c \in File : n \in Under(c) <=> Above(c, n)
  BY <1>1 DEF Under, Subtree, Above, InSubtree, File
<1>3. \A c \in File : n \in PhpBody(c) <=> n \in Under(c) \/ PhpCut(c, n)
  BY DEF PhpBody, PhpCut
<1>. QED
  BY <1>2, <1>3 DEF PhpAround, Of

\* What stands between two nodes below a third is below it too.
LEMMA BelowBetween ==
  ASSUME Shape, NEW q \in File, NEW k \in File, Above(q, k), NEW m \in File, q < m, m <= k
  PROVE  Above(q, m)
<1>1. \A j \in File : j \in Nat
  BY TreeShape DEF Shape, File, Nodes
<1>2. \A j \in q + 1 .. m : j \in q + 1 .. k
  BY <1>1
<1>. QED
  BY <1>1, <1>2 DEF Above, InSubtree

LEMMA PhpCutUp ==
  ASSUME Shape, Rooted, PhpWhole, NEW n \in File, n # 1, kind[n] # "close", NEW c \in File
  PROVE  /\ PhpCut(c, n) => PhpCut(c, Up(n)) \/ c = Up(n) \/ c \in PhpSpillOf(n)
         /\ PhpCut(c, Up(n)) => PhpCut(c, n)
         /\ c \in PhpSpillOf(n) => PhpCut(c, n)
<1> DEFINE p == Up(n)
           q == Up(c)
<1>1. \A k \in File : k \in Nat /\ k >= 1
  BY TreeShape DEF Shape, File, Nodes
<1>2. p \in File /\ p < n /\ Above(p, n) /\ IsParent(lev, n, p)
  BY UpIs, AboveUp
<1>3. \A k \in Of({"close"}) : k \in File /\ kind[k] = "close" /\ k # 1
  BY DEF Of, Rooted
<1>4. kind[c] = "unclosed" => c # 1
  BY DEF Rooted
<1>5. \A k \in File : k # 1 => Up(k) \in File /\ Up(k) < k /\ Above(Up(k), k)
                               /\ \A m : Above(m, k) <=> m = Up(k) \/ Above(m, Up(k))
  BY UpIs, AboveUp
<1>6. \A m, k \in File : Above(m, k) => m < k
  BY DEF Above
<1>7. ASSUME PhpCut(c, n) PROVE PhpCut(c, p) \/ c = p \/ c \in PhpSpillOf(n)
  <2>1. kind[c] = "unclosed" /\ c < n /\ c # 1 /\ q \in File /\ q < c /\ Above(q, c)
    BY <1>4, <1>5, <1>7 DEF PhpCut
  <2>2. PICK k \in Of({"close"}) : /\ Up(k) = q /\ n < k
                                   /\ \A j \in Of({"close"}) : ~(Up(j) = q /\ c < j /\ j < k)
    BY <1>7 DEF PhpCut
  <2>3. k \in File /\ Above(q, k)
    BY <2>2, <1>3, <1>5
  <2>4. Above(q, n)
    <3>1. q < n /\ n <= k
      BY <2>1, <2>2, <2>3, <1>1
    <3>. QED
      BY <2>1, <2>3, <3>1, BelowBetween
  <2>5. CASE q = p
    <3>1. c \in Kids(p)
      BY <2>1, <2>5, UpIs DEF Kids
    <3>2. \A j \in Of({"close"}) : ~(c < j /\ j < n /\ Up(j) = q)
      BY <2>2, <2>3, <1>1, <1>3
    <3>. QED
      BY <3>1, <3>2, <2>1, <2>5 DEF PhpSpillOf, PhpSpilled
  <2>6. CASE Above(q, p)
    <3>1. ~(p < c)
      <4> SUFFICES ASSUME p < c PROVE FALSE
        OBVIOUS
      <4>1. c <= n
        BY <2>1, <1>1
      <4>2. Above(p, c)
        BY <4>1, <1>2, BelowBetween
      <4>3. p = q \/ Above(p, q)
        BY <4>2, <2>1, <1>5
      <4>. QED
        BY <4>3, <2>1, <2>6, <1>1, <1>2, <1>6
    <3>2. c = p \/ c < p
      BY <3>1, <1>1, <1>2
    <3>3. p < k
      BY <2>2, <2>3, <1>1, <1>2
    <3>. QED
      BY <3>2, <3>3, <2>1, <2>2 DEF PhpCut
  <2>. QED
    BY <2>4, <2>5, <2>6, <1>5
<1>8. ASSUME PhpCut(c, p) PROVE PhpCut(c, n)
  <2>1. kind[c] = "unclosed" /\ c < p /\ c # 1 /\ q \in File /\ q < c
    BY <1>4, <1>5, <1>8 DEF PhpCut
  <2>2. PICK k \in Of({"close"}) : /\ Up(k) = q /\ p < k
                                   /\ \A j \in Of({"close"}) : ~(Up(j) = q /\ c < j /\ j < k)
    BY <1>8 DEF PhpCut
  <2>3. k \in File /\ k # 1
    BY <2>2, <1>3
  <2>4. ~(k <= n)
    <3> SUFFICES ASSUME k <= n PROVE FALSE
      OBVIOUS
    <3>1. Above(p, k)
      BY <2>2, <2>3, <1>2, BelowBetween
    <3>2. p = q \/ Above(p, q)
      BY <3>1, <2>2, <2>3, <1>5
    <3>. QED
      BY <3>2, <2>1, <1>1, <1>2, <1>6
  <2>5. c < n /\ n < k
    BY <2>1, <2>3, <2>4, <1>1, <1>2
  <2>. QED
    BY <2>1, <2>2, <2>5 DEF PhpCut
<1>9. ASSUME c \in PhpSpillOf(n) PROVE PhpCut(c, n)
  <2>1. /\ c < n /\ q = p /\ kind[c] = "unclosed"
        /\ \A j \in Of({"close"}) : ~(c < j /\ j < n /\ Up(j) = q)
    BY <1>9 DEF PhpSpillOf, PhpSpilled
  <2> DEFINE S == {k \in Of({"close"}) : c < k /\ Up(k) = q}
  <2>2. S # {} /\ S \subseteq Nat
    BY <2>1, <1>1, <1>3 DEF PhpWhole, Of
  <2>3. PICK k \in S : \A j \in S : k <= j
    <3> HIDE DEF S
    <3>. QED
      BY <2>2, LeastNat, Zenon
  <2>4. k \in File /\ k # n /\ ~(k < n)
    BY <2>1, <2>3, <1>3
  <2>5. n < k
    BY <2>4, <1>1
  <2>6. \A j \in Of({"close"}) : ~(Up(j) = q /\ c < j /\ j < k)
    BY <2>3, <2>4, <1>1, <1>3
  <2>. QED
    BY <2>1, <2>3, <2>5, <2>6 DEF PhpCut
<1>. QED
  BY <1>7, <1>8, <1>9

LEMMA PhpParentUp ==
  ASSUME Shape, Rooted, NGrammar, PhpSpillKinds, PhpWhole, prof.lang = "php",
         NEW n \in File, n # 1, kind[n] # "close"
  PROVE  PhpParent(n) = IF PhpSpillOf(n) # {} THEN <<PhpClassName(CHOOSE e \in PhpSpillOf(n) : TRUE)>>
                        ELSE IF kind[Up(n)] \in PhpClasses THEN <<PhpClassName(Up(n))>>
                        ELSE PhpParent(Up(n))
<1> DEFINE p == Up(n)
<1>1. \A k \in File : k \in Nat /\ k >= 1
  BY TreeShape DEF Shape, File, Nodes
<1>2. p \in File /\ p < n /\ Above(p, n) /\ \A m : Above(m, n) <=> m = p \/ Above(m, p)
  BY UpIs, AboveUp
<1>3. \A c \in PhpSpillOf(n) : /\ c \in File /\ kind[c] = "unclosed" /\ p < c /\ c < n
                               /\ Up(c) = p /\ PhpSpilled(c, n)
  BY <1>2, CKid DEF PhpSpillOf, PhpSpilled, Kids
<1>4. PhpAround(n) = PhpAround(p) \cup (IF kind[p] \in PhpClasses THEN {p} ELSE {}) \cup PhpSpillOf(n)
  <2>1. ASSUME NEW c
        PROVE  c \in PhpAround(n) <=> c \in PhpAround(p) \/ (c = p /\ kind[p] \in PhpClasses) \/ c \in PhpSpillOf(n)
    <3>1. c \in PhpAround(n) <=> c \in File /\ kind[c] \in PhpClasses /\ (Above(c, n) \/ PhpCut(c, n))
      BY PhpAroundIs
    <3>2. c \in PhpAround(p) <=> c \in File /\ kind[c] \in PhpClasses /\ (Above(c, p) \/ PhpCut(c, p))
      BY <1>2, PhpAroundIs
    <3>3. c \in PhpSpillOf(n) => c \in File /\ kind[c] \in PhpClasses
      BY <1>3 DEF PhpClasses
    <3>4. c \in File => /\ PhpCut(c, n) => PhpCut(c, p) \/ c = p \/ c \in PhpSpillOf(n)
                        /\ PhpCut(c, p) => PhpCut(c, n)
                        /\ c \in PhpSpillOf(n) => PhpCut(c, n)
      BY PhpCutUp
    <3> HIDE DEF p
    <3>. QED
      BY <3>1, <3>2, <3>3, <3>4, <1>2
  <2> HIDE DEF p
  <2>. QED
    BY <2>1
<1>5. \A c \in PhpAround(p) : c < p /\ c \in File
  BY <1>2, PhpAroundIs DEF Above, PhpCut
<1>6. PhpAround(n) \subseteq File
  BY DEF PhpAround, Of
<1> HIDE DEF p
<1>7. CASE PhpSpillOf(n) # {}
  <2> DEFINE e == CHOOSE e \in PhpSpillOf(n) : TRUE
  <2>1. e \in PhpSpillOf(n)
    BY <1>7
  <2> HIDE DEF e
  <2>2. ASSUME NEW a \in PhpSpillOf(n), NEW b \in PhpSpillOf(n), a < b PROVE FALSE
    <3>1. /\ a \in File /\ b \in File /\ kind[a] = "unclosed" /\ kind[b] = "unclosed" /\ Up(a) = Up(b) /\ b < n
          /\ PhpSpilled(a, n) /\ Up(b) \in File
      BY <1>2, <1>3
    <3>2. \A c \in Of({"close"}) : ~(a < c /\ c < n /\ Up(c) = Up(a))
      BY <3>1 DEF PhpSpilled
    <3>3. \A c \in Of({"close"}) : c < b => c < n
      BY <3>1, <1>1 DEF Of
    <3>4. PhpSpilled(a, b)
      BY <2>2, <3>1, <3>2, <3>3 DEF PhpSpilled
    <3>5. PhpFollows(a, b, Up(b))
      BY <3>1, <3>4, FollowsIs
    <3>. QED
      BY <3>1, <3>5 DEF PhpSpillKinds
  <2>3. \A c \in PhpAround(n) : c <= e
    <3> SUFFICES ASSUME NEW c \in PhpAround(n) PROVE c <= e
      OBVIOUS
    <3>1. e \in Nat /\ c \in Nat /\ p \in Nat /\ p < e
      BY <2>1, <1>1, <1>2, <1>3, <1>6
    <3>2. CASE c \in PhpSpillOf(n)
      BY <3>1, <3>2, <2>1, <2>2
    <3>3. CASE c \notin PhpSpillOf(n)
      <4>1. c \in PhpAround(p) \/ c = p
        BY <3>3, <1>4
      <4>. QED
        BY <4>1, <3>1, <1>5
    <3>. QED
      BY <3>2, <3>3
  <2>4. e \in PhpAround(n)
    BY <2>1, <1>4
  <2>5. Last(PhpAround(n)) = e
    BY <2>3, <2>4, <1>6, LastIs
  <2>. QED
    BY <2>4, <2>5, <1>7 DEF PhpParent, e
<1>8. CASE PhpSpillOf(n) = {} /\ kind[p] \in PhpClasses
  <2>1. p \in PhpAround(n)
    BY <1>4, <1>8
  <2>2. \A c \in PhpAround(n) : c <= p
    <3>1. \A c \in PhpAround(n) : c \in PhpAround(p) \/ c = p
      BY <1>4, <1>8
    <3>. QED
      BY <3>1, <1>1, <1>2, <1>5
  <2>3. Last(PhpAround(n)) = p
    BY <2>1, <2>2, <1>6, LastIs
  <2>. QED
    BY <2>1, <2>3, <1>8 DEF PhpParent, p
<1>9. CASE PhpSpillOf(n) = {} /\ kind[p] \notin PhpClasses
  <2>1. PhpAround(n) = PhpAround(p)
    BY <1>4, <1>9
  <2>. QED
    BY <2>1, <1>9 DEF PhpParent, p
<1>. QED
  BY <1>7, <1>8, <1>9

\* What the walk hands a node that it emits something for.
LEMMA PhpClassIs ==
  ASSUME Shape, Rooted, NGrammar, PhpSpillKinds, PhpWhole, prof.lang = "php"
  PROVE  \A n \in File : kind[n] # "close" => PhpClass[n] = PhpParent(n)
<1> DEFINE Rest(g, n) == IF n = 1 THEN << >>
                         ELSE LET p == Up(n) IN
                              IF PhpSpillOf(n) # {} THEN <<PhpClassName(CHOOSE e \in PhpSpillOf(n) : TRUE)>>
                              ELSE IF kind[p] \in PhpClasses THEN <<PhpClassName(p)>>
                              ELSE g[p]
           h == [n \in File |-> PhpParent(n)]
           g0 == [n \in File |-> IF kind[n] = "close" THEN Rest(h, n) ELSE h[n]]
<1>1. ASSUME NEW n \in File, n # 1
      PROVE  Up(n) \in File /\ Up(n) < n /\ kind[Up(n)] # "close"
  BY <1>1, UpIs, FitsUp DEF NFits
<1>2. 1 \in File /\ kind[1] = "file"
  BY TreeShape DEF Rooted, Shape, File, Nodes
<1>3. PhpParent(1) = << >>
  <2>1. \A k \in File : k \in Nat /\ k >= 1
    BY TreeShape DEF Shape, File, Nodes
  <2>2. PhpAround(1) = {}
    BY <2>1, <1>2, PhpAroundIs DEF Above, PhpCut
  <2>. QED
    BY <2>2 DEF PhpParent
<1>4. ASSUME NEW n \in File, n # 1 PROVE g0[Up(n)] = h[Up(n)]
  BY <1>1, <1>4
<1>5. ASSUME NEW n \in File PROVE g0[n] = Rest(g0, n)
  <2>1. CASE n = 1
    BY <2>1, <1>2, <1>3
  <2>2. CASE n # 1 /\ kind[n] # "close"
    <3>1. g0[n] = PhpParent(n) /\ g0[Up(n)] = PhpParent(Up(n))
      BY <2>2, <1>1, <1>4
    <3> HIDE DEF g0
    <3>. QED
      BY <3>1, <2>2, PhpParentUp
  <2>3. CASE n # 1 /\ kind[n] = "close"
    <3>1. g0[n] = Rest(h, n) /\ g0[Up(n)] = h[Up(n)]
      BY <2>3, <1>1, <1>4
    <3> HIDE DEF g0, h
    <3>. QED
      BY <3>1, <2>3
  <2>. QED
    BY <2>1, <2>2, <2>3
<1>6. g0 = [n \in File |-> Rest(g0, n)]
  <2> HIDE DEF Rest
  <2>. QED
    BY <1>5
<1>7. PhpClass = CHOOSE g : g = [n \in File |-> Rest(g, n)]
  BY DEF PhpClass
<1>8. PhpClass = [n \in File |-> Rest(PhpClass, n)]
  <2> HIDE DEF Rest, g0
  <2>. QED
    BY <1>6, <1>7
<1>9. PhpClass[1] = g0[1]
  <2>1. PhpClass[1] = Rest(PhpClass, 1) /\ g0[1] = Rest(g0, 1)
    BY <1>2, <1>5, <1>8, Zenon
  <2> HIDE DEF g0
  <2>. QED
    BY <2>1
<1>10. ASSUME NEW n \in File, n # 1, PhpClass[Up(n)] = g0[Up(n)] PROVE PhpClass[n] = g0[n]
  <2>1. PhpClass[n] = Rest(PhpClass, n) /\ g0[n] = Rest(g0, n)
    BY <1>5, <1>8, Zenon
  <2> HIDE DEF g0
  <2>. QED
    BY <2>1, <1>10
<1>11. \A n \in File : PhpClass[n] = g0[n]
  <2> HIDE DEF g0
  <2>. QED
    BY <1>9, <1>10, SameFromTheRoot
<1>. QED
  BY <1>11, Zenon

PhpNamed(symbols) ==
  \A s \in symbols :
    s.parent = IF PhpAround(s.at) = {} \/ s.sort = "class" \/ kind[s.at] = "define" THEN << >>
               ELSE <<PhpClassName(Last(PhpAround(s.at)))>>

LEMMA PhpNames ==
  ASSUME Shape, Rooted, NGrammar, PhpSpillKinds, PhpWhole, prof.lang = "php"
  PROVE  PhpNamed(UNION {PhpEmit(n) : n \in {n \in File : n > 1 /\ PhpVisited(n)}})
<1> DEFINE Named(s) == s.parent = IF PhpAround(s.at) = {} \/ s.sort = "class" \/ kind[s.at] = "define" THEN << >>
                                  ELSE <<PhpClassName(Last(PhpAround(s.at)))>>
           symbols == UNION {PhpEmit(n) : n \in {n \in File : n > 1 /\ PhpVisited(n)}}
<1>1. \A s : s.sort # "class" /\ kind[s.at] # "define" /\ s.parent = PhpParent(s.at) => Named(s)
  BY DEF PhpParent
<1>2. \A n, sort, parent, calls : /\ PhpSym(n, sort, parent, calls).at = n
                                  /\ PhpSym(n, sort, parent, calls).sort = sort
                                  /\ PhpSym(n, sort, parent, calls).parent = parent
  BY DEF PhpSym, Sym
<1>3. \A n, class : /\ PhpFunc(n, class).at = n /\ PhpFunc(n, class).sort # "class"
                    /\ PhpFunc(n, class).parent = class
  BY <1>2 DEF PhpFunc
<1>4. \A s : s.sort = "class" /\ s.parent = << >> => Named(s)
  OBVIOUS
<1>5. \A s : kind[s.at] = "define" /\ s.parent = << >> => Named(s)
  OBVIOUS
<1> HIDE DEF Named
<1>6. ASSUME NEW n \in File, n > 1, NEW s \in PhpEmit(n) PROVE Named(s)
  <2>1. kind[n] # "close" => PhpClass[n] = PhpParent(n)
    BY PhpClassIs
  <2>2. CASE kind[n] \in PhpClasses
    <3>1. s = Sym(n, "class", <<PhpClassName(n)>>, << >>, {}, {})
      BY <2>2, <1>6 DEF PhpEmit, PhpClasses
    <3>. QED
      BY <3>1, <1>4 DEF Sym
  <2>3. CASE kind[n] = "fn"
    <3>1. s = PhpFunc(n, PhpClass[n])
      BY <2>3, <1>6 DEF PhpEmit, PhpClasses
    <3>. QED
      BY <3>1, <2>1, <2>3, <1>1, <1>3
  <2>4. CASE kind[n] = "method"
    <3>1. CASE s = PhpFunc(n, PhpClass[n])
      BY <3>1, <2>1, <2>4, <1>1, <1>3
    <3>2. CASE s # PhpFunc(n, PhpClass[n])
      <4>1. PICK p \in Kids(n) \cap Of({"promoted"}) : s = PhpSym(p, "field", PhpClass[n], {})
        BY <3>2, <2>4, <1>6 DEF PhpEmit, PhpClasses
      <4>2. p \in File /\ p # 1 /\ Up(p) = n /\ kind[p] = "promoted"
        BY CKid DEF Of
      <4>3. PhpSpillOf(p) = {}
        <5>1. \A e \in Kids(n) : kind[e] # "unclosed"
          BY <2>4, CKid, FitsUp DEF NFits
        <5>. QED
          BY <4>2, <5>1 DEF PhpSpillOf, PhpSpilled
      <4>4. PhpParent(p) = PhpParent(n)
        BY <4>2, <4>3, <2>4, PhpParentUp DEF PhpClasses
      <4>. QED
        BY <4>1, <4>2, <4>4, <2>1, <2>4, <1>1, <1>2
    <3>. QED
      BY <3>1, <3>2
  <2>5. CASE kind[n] \in {"prop", "const", "case"}
    <3>1. \E sort \in {"field", "const"} : s = PhpSym(n, sort, PhpClass[n], {})
      BY <2>5, <1>6 DEF PhpEmit, PhpClasses
    <3>. QED
      BY <3>1, <2>1, <2>5, <1>1, <1>2
  <2>6. CASE kind[n] = "define"
    <3>1. s = PhpSym(n, "const", << >>, {})
      BY <2>6, <1>6 DEF PhpEmit, PhpClasses
    <3>. QED
      BY <3>1, <2>6, <1>2, <1>5
  <2>. QED
    BY <1>6, <2>2, <2>3, <2>4, <2>5, <2>6 DEF PhpEmit
<1>7. \A s \in symbols : Named(s)
  BY <1>6
<1> HIDE DEF symbols
<1>8. PhpNamed(symbols)
  BY <1>7 DEF PhpNamed, Named
<1>. QED
  BY <1>8 DEF symbols

-----------------------------------------------------------------------------
(* Java and Python: a symbol with a parent is named after one around it    *)

ParentIn(symbols, s) ==
  {t \in symbols : t.sort # "field" /\ s.at \in Under(t.at) /\ t.qual = SubSeq(s.qual, 1, Len(s.qual) - 1)}

FromParent(symbols, s) ==
  IF s.parent = << >> THEN Len(s.qual) = 1
  ELSE \E t \in ParentIn(symbols, s) : QualLast(t.qual) = s.parent

ChainNamed(symbols) == \A s \in symbols : FromParent(symbols, s)

LEMMA JoinIs ==
  ASSUME NEW S, NEW q \in Seq(S), NEW e \in S
  PROVE  /\ QualJoin(q, e) \in Seq(S) /\ QualJoin(q, e) # << >>
         /\ QualLast(QualJoin(q, e)) = <<e>>
         /\ SubSeq(QualJoin(q, e), 1, Len(QualJoin(q, e)) - 1) = q
         /\ q = << >> => Len(QualJoin(q, e)) = 1
         /\ QualLast(q) = << >> <=> q = << >>
<1>1. /\ QualJoin(q, e) \in Seq(S) /\ Len(QualJoin(q, e)) = Len(q) + 1 /\ Len(q) \in Nat
      /\ \A i \in 1 .. Len(q) : QualJoin(q, e)[i] = q[i]
  BY DEF QualJoin
<1>2. SubSeq(QualJoin(q, e), 1, Len(QualJoin(q, e)) - 1) = q
  <2> DEFINE j == QualJoin(q, e)
             f == SubSeq(j, 1, Len(j) - 1)
  <2>1. j \in Seq(S) /\ Len(j) = Len(q) + 1 /\ Len(j) - 1 = Len(q)
    BY <1>1
  <2>2. f \in Seq(S) /\ Len(f) = Len(q) /\ \A i \in 1 .. Len(q) : f[i] = j[i]
    <3> HIDE DEF j
    <3>. QED
      BY <2>1, <1>1
  <2> HIDE DEF f
  <2>3. f = q
    BY <2>2, <1>1
  <2>. QED
    BY <2>3 DEF f
<1>3. QualLast(QualJoin(q, e)) = <<e>>
  BY LastOfJoin
<1>4. QualLast(q) = << >> <=> q = << >>
  BY DEF QualLast
<1>. QED
  BY <1>1, <1>2, <1>3, <1>4

\* A symbol named with the path of one around it.
LEMMA JoinFrom ==
  ASSUME NEW S, NEW q \in Seq(S), NEW e \in S, NEW symbols, NEW s,
         s.qual = QualJoin(q, e), s.parent = QualLast(q),
         q = << >> \/ \E t \in symbols : t.sort # "field" /\ t.qual = q /\ s.at \in Under(t.at)
  PROVE  FromParent(symbols, s)
<1>1. /\ SubSeq(s.qual, 1, Len(s.qual) - 1) = q
      /\ q = << >> => Len(s.qual) = 1
      /\ QualLast(q) = << >> <=> q = << >>
  BY JoinIs
<1>. QED
  BY <1>1 DEF FromParent, ParentIn

LEMMA UnderIs ==
  ASSUME Shape, NEW n \in File, NEW m \in File
  PROVE  n \in Under(m) <=> Above(m, n)
<1>1. \A k \in File : k \in Nat
  BY TreeShape DEF Shape, File, Nodes
<1>. QED
  BY <1>1 DEF Under, Subtree, Above, InSubtree, File

\* More symbols do no harm.
LEMMA FromMore ==
  ASSUME NEW A, NEW B, A \subseteq B, NEW s, FromParent(A, s)
  PROVE  FromParent(B, s)
BY DEF FromParent, ParentIn

-----------------------------------------------------------------------------
\* What is emitted around a node, or for it, has the path q for a name.
PyNamedBy(q, n) ==
  /\ q \in Seq(AllNames)
  /\ q = << >> \/ \E t \in PyMembers : t.sort # "field" /\ t.qual = q /\ (t.at = n \/ Above(t.at, n))

\* What pythonVisit passes down is a record, whose paths are names.
PyHandedDown(c, n) ==
  \E on \in BOOLEAN : \E class, qual, in :
    /\ c = [on |-> on, class |-> class, qual |-> qual, inFunction |-> in]
    /\ PyNamedBy(class, n) /\ PyNamedBy(qual, n)

LEMMA HandedPaths ==
  ASSUME NEW c, NEW n, PyHandedDown(c, n)
  PROVE  PyNamedBy(c.class, n) /\ PyNamedBy(c.qual, n)
<1>1. PICK on, class, qual, in :
        /\ c = [on |-> on, class |-> class, qual |-> qual, inFunction |-> in]
        /\ PyNamedBy(class, n) /\ PyNamedBy(qual, n)
  BY Zenon DEF PyHandedDown
<1>2. c.class = class /\ c.qual = qual
  BY <1>1
<1>. QED
  BY <1>1, <1>2

LEMMA PyPaths ==
  ASSUME Shape, Rooted
  PROVE  \A n \in File : PyHandedDown(PyCtx[n], n)
<1> DEFINE S == {n \in File : PyHandedDown(PyCtx[n], n)}
<1>1. 1 \in S
  <2>1. 1 \in File
    BY TreeShape DEF Shape, File, Nodes
  <2>2. PyCtx[1] = [on |-> TRUE, class |-> << >>, qual |-> << >>, inFunction |-> FALSE]
    BY <2>1, PyContext, Zenon DEF PyCtxStep
  <2>3. PyNamedBy(<< >>, 1)
    BY DEF PyNamedBy
  <2>. QED
    BY <2>1, <2>2, <2>3, Zenon DEF PyHandedDown
<1>2. ASSUME NEW n \in File, n # 1, Up(n) \in S PROVE n \in S
  <2> DEFINE c == PyCtx[Up(n)]
             q == QualJoin(c.qual, name[n])
  <2>1. PICK on \in BOOLEAN : \E class, qual, in :
          /\ c = [on |-> on, class |-> class, qual |-> qual, inFunction |-> in]
          /\ PyNamedBy(class, Up(n)) /\ PyNamedBy(qual, Up(n))
    BY <1>2, Zenon DEF PyHandedDown
  <2>15. PICK class, qual, in :
          /\ c = [on |-> on, class |-> class, qual |-> qual, inFunction |-> in]
          /\ PyNamedBy(class, Up(n)) /\ PyNamedBy(qual, Up(n))
    BY <2>1, Zenon
  <2>2. \A m : m = Up(n) \/ Above(m, Up(n)) => Above(m, n)
    BY <1>2, AboveUp
  <2>3. PyCtx[n] = PyCtxStep(PyCtx, n)
    BY PyContext
  <2>4. \A path : PyNamedBy(path, Up(n)) => PyNamedBy(path, n)
    BY <2>2 DEF PyNamedBy
  <2>5. n \in Nat /\ name[n] \in AllNames
    BY TreeShape DEF Shape, File, Nodes, AllNames
  <2>6. c.qual \in Seq(AllNames) /\ q \in Seq(AllNames)
    BY <2>15, <2>5, JoinIs DEF PyNamedBy
  <2>7. ASSUME c.on, kind[n] = "def" PROVE PyNamedBy(q, n)
    <3>1. PyDef(n) \in PyMembers
      BY <2>7 DEF PyMembers, PyVisited, Of
    <3>2. PyDef(n).at = n /\ PyDef(n).qual = q /\ PyDef(n).sort # "field"
      BY DEF PyDef, MemberOf, Sym
    <3>. QED
      BY <3>1, <3>2, <2>6 DEF PyNamedBy
  <2>8. ASSUME c.on, kind[n] = "class" PROVE PyNamedBy(q, n)
    <3>1. PyClass(n) \in PyMembers
      BY <2>8 DEF PyMembers, PyVisited, Of
    <3>2. PyClass(n).at = n /\ PyClass(n).qual = q /\ PyClass(n).sort # "field"
      BY DEF PyClass, MemberOf, Sym
    <3>. QED
      BY <3>1, <3>2, <2>6 DEF PyNamedBy
  <2>9. PyNamedBy(class, n) /\ PyNamedBy(qual, n) /\ c.on = on
    BY <2>15, <2>4
  <2>10. CASE ~on
    <3>1. PyCtx[n] = c
      BY <2>3, <2>9, <2>10, <1>2 DEF PyCtxStep
    <3>. QED
      BY <3>1, <2>15, <2>9, Zenon DEF PyHandedDown
  <2>11. CASE on /\ kind[n] = "def"
    <3>1. PyCtx[n] = [c EXCEPT !.qual = q, !.inFunction = TRUE]
      BY <2>3, <2>9, <2>11, <1>2 DEF PyCtxStep
    <3>2. PyCtx[n] = [on |-> on, class |-> class, qual |-> q, inFunction |-> TRUE]
      <4> HIDE DEF c, q
      <4>. QED
        BY <3>1, <2>15, Zenon
    <3> HIDE DEF c, q
    <3>. QED
      BY <3>2, <2>7, <2>9, <2>11, Zenon DEF PyHandedDown
  <2>12. CASE on /\ kind[n] = "class"
    <3>1. PyCtx[n] = [on |-> TRUE, class |-> q, qual |-> q, inFunction |-> FALSE]
      BY <2>3, <2>9, <2>12, <1>2 DEF PyCtxStep
    <3> HIDE DEF c, q
    <3>. QED
      BY <3>1, <2>8, <2>9, <2>12, Zenon DEF PyHandedDown
  <2>13. CASE on /\ kind[n] \in {"deco", "if"}
    <3>1. PyCtx[n] = c
      BY <2>3, <2>9, <2>13, <1>2 DEF PyCtxStep
    <3>. QED
      BY <3>1, <2>15, <2>9, Zenon DEF PyHandedDown
  <2>14. CASE on /\ kind[n] \notin {"def", "class", "deco", "if"}
    <3>1. PyCtx[n] = [c EXCEPT !.on = FALSE]
      BY <2>3, <2>9, <2>14, <1>2 DEF PyCtxStep
    <3>2. PyCtx[n] = [on |-> FALSE, class |-> class, qual |-> qual, inFunction |-> in]
      <4> HIDE DEF c, q
      <4>. QED
        BY <3>1, <2>15, Zenon
    <3> HIDE DEF c, q
    <3>. QED
      BY <3>2, <2>9, Zenon DEF PyHandedDown
  <2>. QED
    BY <2>10, <2>11, <2>12, <2>13, <2>14
<1>3. \A n \in File : n \in S
  <2> HIDE DEF S
  <2>. QED
    BY <1>1, <1>2, FromTheRoot
<1>. QED
  BY <1>3

LEMMA PyMembersNamed ==
  ASSUME Shape, Rooted, prof.lang = "python"
  PROVE  ChainNamed(PyMembers)
<1>1. ASSUME NEW n \in File, n # 1, NEW sort, NEW calls, NEW marks,
             NEW q \in {PyCtx[Up(n)].class, PyCtx[Up(n)].qual}
      PROVE  FromParent(PyMembers, MemberOf(n, sort, q, calls, marks))
  <2> DEFINE s == MemberOf(n, sort, q, calls, marks)
  <2>1. Up(n) \in File /\ \A m : m = Up(n) \/ Above(m, Up(n)) => Above(m, n)
    BY <1>1, UpIs, AboveUp
  <2>2. PyNamedBy(q, Up(n))
    BY <2>1, PyPaths, HandedPaths
  <2>3. s.at = n /\ s.qual = QualJoin(q, name[n]) /\ s.parent = QualLast(q)
    BY DEF MemberOf, Sym
  <2>4. name[n] \in AllNames
    BY TreeShape DEF Shape, File, Nodes, AllNames
  <2>5. q = << >> \/ \E t \in PyMembers : t.sort # "field" /\ t.qual = q /\ s.at \in Under(t.at)
    <3>1. \A m : Above(m, n) => n \in Under(m)
      BY UnderIs DEF Above
    <3>. QED
      BY <3>1, <2>1, <2>2, <2>3 DEF PyNamedBy
  <2>6. q \in Seq(AllNames)
    BY <2>2 DEF PyNamedBy
  <2> HIDE DEF s
  <2>. QED
    BY <2>3, <2>4, <2>5, <2>6, JoinFrom DEF s
<1>2. \A K : "file" \notin K => \A n \in PyVisited(K) : n \in File /\ n # 1
  BY DEF PyVisited, Of, Rooted
<1>3. ASSUME NEW n \in PyVisited({"def"}) PROVE FromParent(PyMembers, PyDef(n))
  BY <1>1, <1>2 DEF PyDef
<1>4. ASSUME NEW n \in PyVisited({"class"}) PROVE FromParent(PyMembers, PyClass(n))
  BY <1>1, <1>2 DEF PyClass
<1>5. ASSUME NEW n \in PyVisited({"assign", "typed"}), NEW s \in PyAssignment(n) PROVE FromParent(PyMembers, s)
  <2>1. \E sort : s = MemberOf(n, sort, PyCtx[Up(n)].class, {}, {})
    BY <1>5 DEF PyAssignment
  <2>. QED
    BY <2>1, <1>1, <1>2
<1>6. ASSUME NEW s \in PyMembers PROVE FromParent(PyMembers, s)
  <2>1. \/ \E n \in PyVisited({"def"}) : s = PyDef(n)
        \/ \E n \in PyVisited({"class"}) : s = PyClass(n)
        \/ \E n \in PyVisited({"assign", "typed"}) : s \in PyAssignment(n)
    BY <1>6 DEF PyMembers
  <2>. QED
    BY <2>1, <1>3, <1>4, <1>5
<1>. QED
  BY <1>6 DEF ChainNamed

LEMMA PyAttributesNamed ==
  ASSUME Shape, Rooted, prof.lang = "python", NEW n \in PyVisited({"class"}),
         NEW members, NEW s \in PyInstanceAttributes(n, members)
  PROVE  FromParent(PyMembers, s)
<1> DEFINE class == QualJoin(PyCtx[Up(n)].qual, name[n])
<1>1. n \in File /\ n # 1 /\ Up(n) \in File
  BY UpIs DEF PyVisited, Of, Rooted
<1>2. PICK i \in PyInits(n) : \E a \in PyEachBlock(i, {"self"}) : s = MemberOf(a, "field", class, {}, {"instance-attr"})
  BY DEF PyInstanceAttributes
<1>3. PICK a \in PyEachBlock(i, {"self"}) : s = MemberOf(a, "field", class, {}, {"instance-attr"})
  BY <1>2
<1>4. i \in File /\ i # 1 /\ (Up(i) = n \/ (Up(Up(i)) = n /\ kind[Up(i)] = "deco")) /\ Up(i) \in File
  BY UpIs DEF PyInits, Of, Rooted
<1>5. Above(n, i)
  <2>1. CASE Up(i) = n
    BY <2>1, <1>4, AboveUp
  <2>2. CASE Up(Up(i)) = n /\ kind[Up(i)] = "deco"
    <3>1. Up(i) # 1
      BY <2>2 DEF Rooted
    <3>2. Above(n, Up(i))
      BY <2>2, <3>1, <1>4, AboveUp
    <3>. QED
      BY <3>2, <1>4, AboveUp
  <2>. QED
    BY <2>1, <2>2, <1>4
<1>6. a \in File /\ InSubtree(lev, i, a)
  BY DEF PyEachBlock, Of
<1>7. Above(n, a)
  <2>1. InSubtree(lev, n, a)
    BY <1>1, <1>4, <1>5, <1>6, AboveTrans DEF Above
  <2>2. n < a
    BY <1>1, <1>4, <1>5, <1>6, TreeShape DEF Above, InSubtree, Shape, File, Nodes
  <2>. QED
    BY <2>1, <2>2, <1>1 DEF Above
<1>8. PyClass(n) \in PyMembers
  BY DEF PyMembers
<1>9. PyClass(n).at = n /\ PyClass(n).qual = class /\ PyClass(n).sort # "field"
  BY DEF PyClass, MemberOf, Sym
<1>10. PyNamedBy(PyCtx[Up(n)].qual, Up(n))
  BY <1>1, PyPaths, HandedPaths
<1>11. \A m \in File : name[m] \in AllNames
  BY TreeShape DEF Shape, File, Nodes, AllNames
<1>12. class \in Seq(AllNames)
  BY <1>1, <1>10, <1>11, JoinIs, Zenon DEF PyNamedBy
<1>13. s.at = a /\ s.qual = QualJoin(class, name[a]) /\ s.parent = QualLast(class)
  BY <1>3 DEF MemberOf, Sym
<1>14. \E t \in PyMembers : t.sort # "field" /\ t.qual = class /\ s.at \in Under(t.at)
  BY <1>1, <1>6, <1>7, <1>8, <1>9, <1>13, UnderIs
<1> HIDE DEF class
<1>. QED
  BY <1>6, <1>11, <1>12, <1>13, <1>14, JoinFrom

LEMMA PyNames ==
  ASSUME Shape, Rooted, prof.lang = "python"
  PROVE  ChainNamed(PyMembers \cup UNION {PyInstanceAttributes(n, PyMembers) : n \in PyVisited({"class"})})
<1> DEFINE all == PyMembers \cup UNION {PyInstanceAttributes(n, PyMembers) : n \in PyVisited({"class"})}
<1>1. \A s \in all : FromParent(PyMembers, s)
  BY PyMembersNamed, PyAttributesNamed DEF ChainNamed
<1>2. PyMembers \subseteq all
  OBVIOUS
<1> HIDE DEF all
<1>3. ChainNamed(all)
  BY <1>1, <1>2, FromMore DEF ChainNamed
<1>. QED
  BY <1>3 DEF all

\* The later passes add symbols of the module.
LEMMA PyMoreNamed ==
  ASSUME ChainNamed(out), NEW more, \A s \in more : s.parent = << >> /\ Len(s.qual) = 1
  PROVE  ChainNamed(out \cup more)
<1>1. \A s \in out : FromParent(out \cup more, s)
  BY FromMore DEF ChainNamed
<1>2. \A s \in more : FromParent(out \cup more, s)
  BY DEF FromParent
<1>. QED
  BY <1>1, <1>2, Zenon DEF ChainNamed

-----------------------------------------------------------------------------
\* JavaCtx says of a node what its definition does, from what c it says of
\* the node above; there is such a function, as for PyCtx.
JavaCtxBelow(c, n) ==
  LET p == Up(n)
      own == QualJoin(c.class, JavaPathName(p))
  IN  IF p = 1 THEN JavaBy("visit", << >>)
      ELSE IF c.by = "" \/ (c.class = << >> /\ kind[p] \notin JavaTypes) THEN JavaBy("", << >>)
      ELSE CASE kind[p] \in JavaTypes -> JavaBy("visit", own)
             [] kind[p] = "body" -> JavaBy("visit", c.class)
             [] kind[n] = "body" /\ kind[p] = "anon" -> JavaBy("body", own)
             [] kind[n] = "body" /\ kind[p] = "constant" -> JavaBy("body", c.class)
             [] OTHER -> JavaBy("nested", c.class)

JavaCtxStep(f, n) == IF n = 1 THEN JavaBy("", << >>) ELSE JavaCtxBelow(f[Up(n)], n)

LEMMA JavaContext ==
  ASSUME Shape
  PROVE  \A n \in File : JavaCtx[n] = JavaCtxStep(JavaCtx, n)
<1> DEFINE Defined(g, k) == /\ g = [n \in File |-> g[n]]
                            /\ \A n \in 1 .. k : g[n] = JavaCtxStep(g, n)
           T == {k \in 0 .. Len(lev) : ~\E g : Defined(g, k)}
<1>1. Len(lev) \in Nat /\ File = 1 .. Len(lev)
  BY TreeShape DEF Shape, File, Nodes
<1>2. \A n \in File : n # 1 => Up(n) \in File /\ Up(n) < n
  BY UpIs
<1>3. T = {}
  <2> SUFFICES ASSUME T # {} PROVE FALSE
    OBVIOUS
  <2>1. T \subseteq Nat
    BY <1>1
  <2>2. PICK k \in T : \A j \in T : k <= j
    <3> HIDE DEF T
    <3>. QED
      BY <2>1, LeastNat, Zenon
  <2>3. k \in 0 .. Len(lev) /\ ~\E g : Defined(g, k)
    OBVIOUS
  <2>4. k # 0
    <3>1. Defined([n \in File |-> 0], 0)
      OBVIOUS
    <3>. QED
      BY <3>1, <2>3, Zenon
  <2>5. k \in File /\ k - 1 \in 0 .. Len(lev)
    BY <2>3, <2>4, <1>1
  <2>6. k - 1 \notin T
    BY <2>1, <2>2, <2>5
  <2>7. PICK g : Defined(g, k - 1)
    BY <2>5, <2>6
  <2> DEFINE h == [n \in File |-> IF n = k THEN JavaCtxStep(g, k) ELSE g[n]]
  <2>8. \A n \in File : n # k => h[n] = g[n]
    OBVIOUS
  <2>9. h[k] = JavaCtxStep(g, k)
    BY <2>5
  <2>10. h = [n \in File |-> h[n]]
    OBVIOUS
  <2> HIDE DEF h
  <2>11. \A n \in 1 .. k : JavaCtxStep(h, n) = JavaCtxStep(g, n)
    <3> SUFFICES ASSUME NEW n \in 1 .. k PROVE JavaCtxStep(h, n) = JavaCtxStep(g, n)
      OBVIOUS
    <3>1. CASE n = 1
      BY <3>1, Zenon DEF JavaCtxStep
    <3>2. CASE n # 1
      <4>1. Up(n) \in File /\ Up(n) # k
        BY <3>2, <2>5, <1>1, <1>2
      <4>2. h[Up(n)] = g[Up(n)]
        BY <4>1, <2>8
      <4>. QED
        BY <4>2, Zenon DEF JavaCtxStep
    <3>. QED
      BY <3>1, <3>2
  <2>12. \A n \in 1 .. k : h[n] = JavaCtxStep(h, n)
    <3> SUFFICES ASSUME NEW n \in 1 .. k PROVE h[n] = JavaCtxStep(h, n)
      OBVIOUS
    <3>1. CASE n = k
      BY <3>1, <2>9, <2>11
    <3>2. CASE n # k
      <4>1. n \in 1 .. k - 1 /\ n \in File
        BY <3>2, <2>5, <1>1
      <4>. QED
        BY <4>1, <3>2, <2>7, <2>8, <2>11
    <3>. QED
      BY <3>1, <3>2
  <2>13. Defined(h, k)
    BY <2>10, <2>12
  <2>. QED
    BY <2>3, <2>13
<1>4. PICK g : Defined(g, Len(lev))
  <2>1. Len(lev) \notin T /\ Len(lev) \in 0 .. Len(lev)
    BY <1>1, <1>3
  <2>. QED
    BY <2>1
<1>5. g = [n \in File |-> JavaCtxStep(g, n)]
  BY <1>1, <1>4
<1>6. JavaCtx = [n \in File |-> JavaCtxStep(JavaCtx, n)]
  BY <1>5, Zenon DEF JavaCtx, JavaCtxStep, JavaCtxBelow
<1>. QED
  BY <1>6

JavaPathNames == {JavaPathName(m) : m \in Nat}

\* What is emitted around a node has the path q for a name.
JavaNamedBy(q, n) ==
  /\ q \in Seq(JavaPathNames)
  /\ q = << >> \/ \E t \in JavaDeclared : t.sort # "field" /\ t.qual = q /\ Above(t.at, n)

JavaHandedDown(c, n) ==
  \E by \in {"", "visit", "body", "nested"} : \E class :
    /\ c = JavaBy(by, class) /\ JavaNamedBy(class, n)
    /\ by = "visit" => Up(n) = 1 \/ kind[Up(n)] \in JavaTypes \cup {"body"}
    /\ by = "visit" /\ kind[Up(n)] \in JavaTypes => class # << >>
    /\ by = "body" => kind[n] = "body"

LEMMA JavaHandedIs ==
  ASSUME NEW c, NEW n, JavaHandedDown(c, n)
  PROVE  /\ c.by \in {"", "visit", "body", "nested"} /\ JavaNamedBy(c.class, n)
         /\ c.by = "visit" => Up(n) = 1 \/ kind[Up(n)] \in JavaTypes \cup {"body"}
         /\ c.by = "visit" /\ kind[Up(n)] \in JavaTypes => c.class # << >>
         /\ c.by = "body" => kind[n] = "body"
<1>1. PICK by \in {"", "visit", "body", "nested"} : \E class :
        /\ c = JavaBy(by, class) /\ JavaNamedBy(class, n)
        /\ by = "visit" => Up(n) = 1 \/ kind[Up(n)] \in JavaTypes \cup {"body"}
        /\ by = "visit" /\ kind[Up(n)] \in JavaTypes => class # << >>
        /\ by = "body" => kind[n] = "body"
  BY Zenon DEF JavaHandedDown
<1>2. PICK class :
        /\ c = JavaBy(by, class) /\ JavaNamedBy(class, n)
        /\ by = "visit" => Up(n) = 1 \/ kind[Up(n)] \in JavaTypes \cup {"body"}
        /\ by = "visit" /\ kind[Up(n)] \in JavaTypes => class # << >>
        /\ by = "body" => kind[n] = "body"
  BY <1>1, Zenon
<1>3. c.by = by /\ c.class = class
  BY <1>2, Zenon DEF JavaBy
<1>. QED
  BY <1>2, <1>3, Zenon

\* What stands around an entered node is entered, and not recovered.
LEMMA JavaEnteredUp ==
  ASSUME Shape, NEW n \in File, n # 1, JavaEntered(n)
  PROVE  JavaEntered(Up(n))
<1>1. \A k \in File : k \in Nat /\ k >= 1
  BY TreeShape DEF Shape, File, Nodes
<1>2. \A m : m \in Way(1, Up(n)) <=> Above(m, n) /\ m # 1
  BY WayUp
<1>3. \A m : Above(m, n) /\ m # 1 => m \in Way(1, n) /\ m # n
  BY <1>1 DEF Above, Way
<1>. QED
  BY <1>2, <1>3 DEF JavaEntered

\* The types and anonymous classes that hand down a path are emitted.
LEMMA JavaEmitsPath ==
  ASSUME Shape, Rooted, NGrammar, prof.lang = "java", NEW p \in File, p # 1, JavaEntered(p),
         JavaHandedDown(JavaCtx[p], p), JavaCtx[p].by # "", kind[p] \in JavaTypes \cup {"anon"}
  PROVE  \E t \in JavaDeclared : /\ t.sort # "field" /\ t.at = p
                                 /\ t.qual = QualJoin(JavaCtx[p].class, JavaPathName(p))
<1> DEFINE c == JavaCtx[p]
<1>1. /\ c.by \in {"visit", "body", "nested"}
      /\ c.by = "visit" => Up(p) = 1 \/ kind[Up(p)] \in JavaTypes \cup {"body"}
      /\ c.by = "body" => kind[p] = "body"
  BY JavaHandedIs, Zenon
<1>2. kind[p] # "body"
  BY Zenon DEF JavaTypes
<1>3. kind[p] = "anon" => Up(p) # 1 /\ kind[Up(p)] \notin JavaTypes \cup {"body"}
  BY FitsUp, Zenon DEF NFits, Rooted
<1>4. \A sort, marks : LET s == JavaSym(p, sort, c.class, {}, marks)
                      IN  s.sort = sort /\ s.at = p /\ s.qual = QualJoin(c.class, JavaPathName(p))
  BY Zenon DEF JavaSym, Sym
<1>5. CASE kind[p] \in JavaTypes
  <2>1. JavaSym(p, "class", c.class, {}, {}) \in JavaEmit(p)
    BY <1>1, <1>2, <1>5, Zenon DEF JavaEmit, JavaVisit, JavaNestedExecutables, JavaTypes, JavaMethods
  <2>2. JavaSym(p, "class", c.class, {}, {}) \in JavaDeclared
    BY <2>1, Zenon DEF JavaDeclared
  <2>. QED
    BY <2>2, <1>4, Zenon
<1>6. CASE kind[p] = "anon"
  <2>1. JavaSym(p, "class", c.class, {}, {"anonymous"}) \in JavaEmit(p)
    BY <1>1, <1>2, <1>3, <1>6, Zenon DEF JavaEmit, JavaNestedExecutables, JavaTypes
  <2>2. JavaSym(p, "class", c.class, {}, {"anonymous"}) \in JavaDeclared
    BY <2>1, Zenon DEF JavaDeclared
  <2> DEFINE s == JavaSym(p, "class", c.class, {}, {"anonymous"})
  <2>3. s.sort = "class" /\ s.at = p /\ s.qual = QualJoin(c.class, JavaPathName(p))
    BY <1>4, Zenon
  <2> HIDE DEF s
  <2>. QED
    BY <2>2, <2>3, Zenon DEF s
<1>. QED
  BY <1>5, <1>6, Zenon

LEMMA JavaPaths ==
  ASSUME Shape, Rooted, NGrammar, prof.lang = "java"
  PROVE  \A n \in File : n # 1 /\ JavaEntered(n) => JavaHandedDown(JavaCtx[n], n)
<1> DEFINE S == {n \in File : n # 1 /\ JavaEntered(n) => JavaHandedDown(JavaCtx[n], n)}
<1>0. \A n : JavaNamedBy(<< >>, n)
  BY DEF JavaNamedBy
<1>1. 1 \in S
  BY TreeShape DEF Shape, File, Nodes
<1>2. ASSUME NEW n \in File, n # 1, Up(n) \in S PROVE n \in S
  <2> SUFFICES ASSUME JavaEntered(n) PROVE JavaHandedDown(JavaCtx[n], n)
    BY <1>2
  <2> DEFINE p == Up(n)
             c == JavaCtx[p]
             own == QualJoin(c.class, JavaPathName(p))
  <2>1. p \in File /\ JavaEntered(p) /\ Above(p, n) /\ \A m : m = p \/ Above(m, p) => Above(m, n)
    BY <1>2, JavaEnteredUp, UpIs, AboveUp
  <2>2. JavaCtx[n] = JavaCtxBelow(c, n)
    BY <1>2, JavaContext, Zenon DEF JavaCtxStep
  <2>3. CASE p = 1
    <3>1. JavaCtx[n] = JavaBy("visit", << >>)
      BY <2>2, <2>3 DEF JavaCtxBelow
    <3>2. kind[p] \notin JavaTypes
      BY <2>3 DEF Rooted, JavaTypes
    <3>. QED
      BY <3>1, <3>2, <2>3, <1>0, Zenon DEF JavaHandedDown
  <2>4. CASE p # 1 /\ (c.by = "" \/ (c.class = << >> /\ kind[p] \notin JavaTypes))
    <3>1. JavaCtx[n] = JavaBy("", << >>)
      BY <2>2, <2>4, Zenon DEF JavaCtxBelow
    <3>. QED
      BY <3>1, <1>0, Zenon DEF JavaHandedDown
  <2>5. CASE p # 1 /\ ~(c.by = "" \/ (c.class = << >> /\ kind[p] \notin JavaTypes))
    <3>1. JavaHandedDown(c, p)
      BY <2>1, <2>5, <1>2, Zenon
    <3>2. /\ c.by # "" /\ JavaNamedBy(c.class, p)
      BY <3>1, <2>5, JavaHandedIs, Zenon
    <3>3. JavaNamedBy(c.class, n)
      BY <3>2, <2>1, Zenon DEF JavaNamedBy
    <3>4. p \in Nat /\ JavaPathName(p) \in JavaPathNames
      BY <2>1, TreeShape DEF Shape, File, Nodes, JavaPathNames
    <3>5. own \in Seq(JavaPathNames) /\ own # << >>
      BY <3>2, <3>4, JoinIs, Zenon DEF JavaNamedBy
    <3>6. kind[p] \in JavaTypes \cup {"anon"} => JavaNamedBy(own, n)
      <4> SUFFICES ASSUME kind[p] \in JavaTypes \cup {"anon"} PROVE JavaNamedBy(own, n)
        OBVIOUS
      <4>1. \E t \in JavaDeclared : t.sort # "field" /\ t.at = p /\ t.qual = own
        BY <3>1, <3>2, <2>1, <2>5, JavaEmitsPath, Zenon
      <4> HIDE DEF own
      <4>. QED
        BY <4>1, <3>5, <2>1 DEF JavaNamedBy
    <3> HIDE DEF own
    <3>7. CASE kind[p] \in JavaTypes
      <4>1. JavaCtx[n] = JavaBy("visit", own)
        BY <3>7, <2>2, <2>5, Zenon DEF JavaCtxBelow, JavaTypes, own
      <4>. QED
        BY <4>1, <3>5, <3>6, <3>7, Zenon DEF JavaHandedDown
    <3>8. CASE kind[p] = "body"
      <4>1. JavaCtx[n] = JavaBy("visit", c.class) /\ kind[p] \notin JavaTypes
        BY <3>8, <2>2, <2>5, Zenon DEF JavaCtxBelow, JavaTypes
      <4>. QED
        BY <4>1, <3>3, <3>8, Zenon DEF JavaHandedDown
    <3>9. CASE kind[n] = "body" /\ kind[p] = "anon"
      <4>1. JavaCtx[n] = JavaBy("body", own)
        BY <3>9, <2>2, <2>5, Zenon DEF JavaCtxBelow, JavaTypes, own
      <4>. QED
        BY <4>1, <3>6, <3>9, Zenon DEF JavaHandedDown
    <3>10. CASE kind[n] = "body" /\ kind[p] = "constant"
      <4>1. JavaCtx[n] = JavaBy("body", c.class)
        BY <3>10, <2>2, <2>5, Zenon DEF JavaCtxBelow, JavaTypes
      <4>. QED
        BY <4>1, <3>3, <3>10, Zenon DEF JavaHandedDown
    <3>11. CASE /\ kind[p] \notin JavaTypes \cup {"body"}
                /\ ~(kind[n] = "body" /\ kind[p] \in {"anon", "constant"})
      <4>1. JavaCtx[n] = JavaBy("nested", c.class)
        BY <3>11, <2>2, <2>5, Zenon DEF JavaCtxBelow
      <4>. QED
        BY <4>1, <3>3, Zenon DEF JavaHandedDown
    <3>. QED
      BY <3>7, <3>8, <3>9, <3>10, <3>11
  <2>. QED
    BY <2>3, <2>4, <2>5, Zenon
<1>3. \A n \in File : n \in S
  <2> HIDE DEF S
  <2>. QED
    BY <1>1, <1>2, FromTheRoot
<1>. QED
  BY <1>3

LEMMA JavaDeclaredNamed ==
  ASSUME Shape, Rooted, NGrammar, prof.lang = "java", NEW s \in JavaDeclared
  PROVE  FromParent(JavaDeclared, s) /\ s.qual \in Seq(JavaPathNames) /\ ~JavaIsOrphan(s)
<1>1. PICK n \in File : JavaEntered(n) /\ s \in JavaEmit(n)
  BY DEF JavaDeclared
<1> DEFINE c == JavaCtx[n]
<1>2. n # 1
  <2> SUFFICES ASSUME n = 1 PROVE FALSE
    OBVIOUS
  <2>1. c = JavaBy("", << >>)
    BY JavaContext, Zenon DEF JavaCtxStep
  <2>2. c.by = ""
    <3> HIDE DEF c
    <3>. QED
      BY <2>1, Zenon DEF JavaBy
  <2>3. JavaEmit(n) = {}
    BY <2>2, Zenon DEF JavaEmit
  <2>. QED
    BY <2>3, <1>1
<1>3. JavaHandedDown(c, n)
  BY <1>1, <1>2, JavaPaths
<1>4. /\ JavaNamedBy(c.class, n)
      /\ c.by = "visit" => Up(n) = 1 \/ kind[Up(n)] \in JavaTypes \cup {"body"}
      /\ c.by = "visit" /\ kind[Up(n)] \in JavaTypes => c.class # << >>
  BY <1>3, JavaHandedIs, Zenon
<1>5. n \in Nat /\ JavaPathName(n) \in JavaPathNames
  BY TreeShape DEF Shape, File, Nodes, JavaPathNames
<1>6. \A sort, calls, marks :
        LET r == JavaSym(n, sort, c.class, calls, marks)
        IN  /\ r.sort = sort /\ r.at = n /\ r.qual = QualJoin(c.class, JavaPathName(n))
            /\ r.parent = QualLast(c.class)
  BY DEF JavaSym, Sym
<1>7. \E sort, calls, marks :
        /\ s = JavaSym(n, sort, c.class, calls, marks)
        /\ sort \in {"method", "constructor", "field"} => c.class # << >>
  <2>1. CASE c.by = "visit"
    <3>1. s \in JavaVisit(n, c.class)
      BY <2>1, <1>1 DEF JavaEmit
    <3>2. ~(kind[n] \in JavaMethods \cup {"ctor", "field", "constant"} /\ c.class = << >>)
      BY <3>1 DEF JavaVisit
    <3>3. CASE kind[n] \in JavaTypes
      BY <3>1, <3>2, <3>3 DEF JavaVisit, JavaTypes, JavaMethods
    <3>4. CASE kind[n] \in JavaMethods
      BY <3>1, <3>2, <3>4 DEF JavaVisit, JavaMethods, JavaTypes
    <3>5. CASE kind[n] = "ctor"
      BY <3>1, <3>2, <3>5 DEF JavaVisit, JavaMethods, JavaTypes
    <3>6. CASE kind[n] = "field"
      BY <3>1, <3>2, <3>6 DEF JavaVisit, JavaFieldDecl, JavaMethods, JavaTypes
    <3>7. CASE kind[n] = "constant"
      BY <3>1, <3>2, <3>7 DEF JavaVisit, JavaMethods, JavaTypes
    <3>8. CASE kind[n] = "component"
      <4>1. kind[Up(n)] \in JavaTypes
        BY <3>8, <1>2, FitsUp DEF NFits, JavaTypes
      <4>2. s \in JavaRecordComponents(n, c.class)
        BY <3>1, <3>2, <3>8 DEF JavaVisit, JavaMethods, JavaTypes
      <4>. QED
        BY <4>1, <4>2, <2>1, <1>4 DEF JavaRecordComponents
    <3>9. CASE kind[n] \notin JavaTypes \cup JavaMethods \cup {"ctor", "field", "constant", "component"}
      BY <3>1, <3>2, <3>9 DEF JavaVisit, JavaTypes, JavaMethods
    <3>. QED
      BY <3>3, <3>4, <3>5, <3>6, <3>7, <3>8, <3>9
  <2>2. CASE c.by = "nested"
    <3>1. s \in JavaNestedExecutables(n, c.class)
      BY <2>2, <1>1 DEF JavaEmit
    <3>2. CASE kind[n] \in JavaTypes
      BY <3>1, <3>2 DEF JavaNestedExecutables, JavaTypes
    <3>3. CASE kind[n] = "anon"
      BY <3>1, <3>3 DEF JavaNestedExecutables, JavaTypes
    <3>4. CASE kind[n] = "lambda"
      BY <3>1, <3>4 DEF JavaNestedExecutables, JavaTypes
    <3>. QED
      BY <3>1, <3>2, <3>3, <3>4 DEF JavaNestedExecutables, JavaTypes
  <2>. QED
    BY <2>1, <2>2, <1>1 DEF JavaEmit
<1>8. PICK sort, calls, marks :
        /\ s = JavaSym(n, sort, c.class, calls, marks)
        /\ sort \in {"method", "constructor", "field"} => c.class # << >>
  BY <1>7
<1>9. /\ s.sort = sort /\ s.at = n /\ s.qual = QualJoin(c.class, JavaPathName(n))
      /\ s.parent = QualLast(c.class) /\ c.class \in Seq(JavaPathNames)
  BY <1>4, <1>6, <1>8 DEF JavaNamedBy
<1>10. c.class = << >> \/ \E t \in JavaDeclared : t.sort # "field" /\ t.qual = c.class /\ s.at \in Under(t.at)
  <2>1. \A m : Above(m, n) => n \in Under(m)
    BY UnderIs DEF Above
  <2>. QED
    BY <2>1, <1>4, <1>9 DEF JavaNamedBy
<1>11. s.qual \in Seq(JavaPathNames) /\ (QualLast(c.class) = << >> <=> c.class = << >>)
  BY <1>5, <1>9, JoinIs, Zenon
<1>12. ~JavaIsOrphan(s)
  BY <1>8, <1>9, <1>11 DEF JavaIsOrphan
<1> HIDE DEF c
<1>. QED
  BY <1>5, <1>9, <1>10, <1>11, <1>12, JoinFrom

\* The symbols of a pass over a Java file have their parents, and none is an orphan.
JavaNamed(symbols) == ChainNamed(symbols) /\ \A s \in symbols : ~JavaIsOrphan(s)

JavaAccessorNames == JavaPathNames \cup {Getter(e) : e \in JavaPathNames}

LEMMA LombokNamed ==
  ASSUME Shape, Rooted, NGrammar, prof.lang = "java", NEW n, NEW s \in LombokAccessors(n, JavaDeclared)
  PROVE  FromParent(JavaDeclared, s) /\ s.parent # << >>
<1> DEFINE class == JavaPathName(n)
           path(f) == SubSeq(f.qual, 1, Len(f.qual) - 1)
           getter(f) == Getter(f.qual[Len(f.qual)])
<1>1. PICK f \in JavaDeclared :
        /\ f.parent = <<class>>
        /\ s = Sym(f.at, "method", Append(path(f), getter(f)), <<class>>, {}, {"lombok"})
  BY DEF LombokAccessors
<1>2. s.at = f.at /\ s.qual = Append(path(f), getter(f)) /\ s.parent = <<class>>
  BY <1>1 DEF Sym
<1>3. FromParent(JavaDeclared, f) /\ f.qual \in Seq(JavaPathNames)
  BY JavaDeclaredNamed
<1>4. PICK t \in ParentIn(JavaDeclared, f) : QualLast(t.qual) = f.parent
  BY <1>1, <1>3 DEF FromParent
<1>5. t \in JavaDeclared /\ t.sort # "field" /\ f.at \in Under(t.at) /\ t.qual = path(f)
  BY <1>4 DEF ParentIn
<1>6. t.qual \in Seq(JavaPathNames) /\ t.qual # << >>
  <2>1. t.qual \in Seq(JavaPathNames)
    BY <1>5, JavaDeclaredNamed
  <2>2. t.qual # << >>
    BY <1>1, <1>4 DEF QualLast
  <2>. QED
    BY <2>1, <2>2
<1>7. Len(f.qual) \in 1 .. Len(f.qual)
  <2>1. Len(f.qual) # 0
    BY <1>3, <1>5, <1>6
  <2>. QED
    BY <1>3, <2>1
<1>8. getter(f) \in JavaAccessorNames
  <2>1. f.qual[Len(f.qual)] \in JavaPathNames
    BY <1>3, <1>7
  <2>. QED
    BY <2>1 DEF JavaAccessorNames
<1>9. t.qual \in Seq(JavaAccessorNames)
  BY <1>6 DEF JavaAccessorNames
<1> HIDE DEF class, path, getter
<1>10. s.qual = QualJoin(t.qual, getter(f)) /\ s.parent = QualLast(t.qual)
  BY <1>1, <1>2, <1>4, <1>5 DEF QualJoin
<1>. QED
  BY <1>2, <1>5, <1>8, <1>9, <1>10, JoinFrom

LEMMA JavaNames ==
  ASSUME Shape, Rooted, NGrammar, prof.lang = "java"
  PROVE  JavaNamed(JavaDeclared \cup UNION {LombokAccessors(s.at, JavaDeclared) :
                                               s \in {s \in JavaDeclared : kind[s.at] \in JavaTypes}})
<1> DEFINE more == UNION {LombokAccessors(s.at, JavaDeclared) :
                            s \in {s \in JavaDeclared : kind[s.at] \in JavaTypes}}
           all == JavaDeclared \cup more
<1>1. ASSUME NEW s \in more PROVE FromParent(JavaDeclared, s) /\ ~JavaIsOrphan(s)
  <2>1. PICK n : s \in LombokAccessors(n, JavaDeclared)
    OBVIOUS
  <2>. QED
    BY <2>1, LombokNamed DEF JavaIsOrphan
<1>2. \A s \in all : FromParent(JavaDeclared, s) /\ ~JavaIsOrphan(s)
  BY <1>1, JavaDeclaredNamed
<1>3. JavaDeclared \subseteq all
  OBVIOUS
<1> HIDE DEF all
<1>4. JavaNamed(all)
  BY <1>2, <1>3, FromMore DEF JavaNamed, ChainNamed
<1>. QED
  BY <1>4 DEF all

\* No symbol is an orphan, so the last pass changes none.
LEMMA JavaReattachNames ==
  ASSUME JavaNamed(out)
  PROVE  {JavaReattached(s) : s \in out} = out
BY DEF JavaNamed, JavaReattached

-----------------------------------------------------------------------------
(* C and C++: members of records and constants of enums                    *)

CParentsStep(f, n) ==
  IF kind[n] # "record" THEN {}
  ELSE CASE kind[Up(n)] = "typedef" ->
              IF prof.lang = "c" THEN {<<name[Up(n)]>>, CTag(n)} \ {<< >>} ELSE {}
         [] kind[Up(n)] = "record" /\ (CTag(n) = << >> \/ f[Up(n)] = {}) -> CThrough(n, f[Up(n)])
         [] OTHER -> {CTag(n)} \ {<< >>}

LEMMA CParentsAre ==
  ASSUME Shape, Rooted
  PROVE  \A n \in File : CParents[n] = CParentsStep(CParents, n)
<1> DEFINE Defined(g, k) == /\ g = [n \in File |-> g[n]]
                            /\ \A n \in 1 .. k : g[n] = CParentsStep(g, n)
           T == {k \in 0 .. Len(lev) : ~\E g : Defined(g, k)}
<1>1. Len(lev) \in Nat /\ File = 1 .. Len(lev)
  BY TreeShape DEF Shape, File, Nodes
<1>2. \A n \in File : n # 1 => Up(n) \in File /\ Up(n) < n
  BY UpIs
<1>3. T = {}
  <2> SUFFICES ASSUME T # {} PROVE FALSE
    OBVIOUS
  <2>1. T \subseteq Nat
    BY <1>1
  <2>2. PICK k \in T : \A j \in T : k <= j
    <3> HIDE DEF T
    <3>. QED
      BY <2>1, LeastNat, Zenon
  <2>3. k \in 0 .. Len(lev) /\ ~\E g : Defined(g, k)
    OBVIOUS
  <2>4. k # 0
    <3>1. Defined([n \in File |-> 0], 0)
      OBVIOUS
    <3>. QED
      BY <3>1, <2>3, Zenon
  <2>5. k \in File /\ k - 1 \in 0 .. Len(lev)
    BY <2>3, <2>4, <1>1
  <2>6. k - 1 \notin T
    BY <2>1, <2>2, <2>5
  <2>7. PICK g : Defined(g, k - 1)
    BY <2>5, <2>6
  <2> DEFINE h == [n \in File |-> IF n = k THEN CParentsStep(g, k) ELSE g[n]]
  <2>8. \A n \in File : n # k => h[n] = g[n]
    OBVIOUS
  <2>9. h[k] = CParentsStep(g, k)
    BY <2>5
  <2>10. h = [n \in File |-> h[n]]
    OBVIOUS
  <2> HIDE DEF h
  <2>11. \A n \in 1 .. k : CParentsStep(h, n) = CParentsStep(g, n)
    <3> SUFFICES ASSUME NEW n \in 1 .. k PROVE CParentsStep(h, n) = CParentsStep(g, n)
      OBVIOUS
    <3>1. CASE n = 1
      BY <3>1 DEF CParentsStep, Rooted
    <3>2. CASE n # 1
      <4>1. Up(n) \in File /\ Up(n) # k
        BY <3>2, <2>5, <1>1, <1>2
      <4>2. h[Up(n)] = g[Up(n)]
        BY <4>1, <2>8
      <4>. QED
        BY <4>2 DEF CParentsStep
    <3>. QED
      BY <3>1, <3>2
  <2>12. \A n \in 1 .. k : h[n] = CParentsStep(h, n)
    <3> SUFFICES ASSUME NEW n \in 1 .. k PROVE h[n] = CParentsStep(h, n)
      OBVIOUS
    <3>1. CASE n = k
      BY <3>1, <2>9, <2>11
    <3>2. CASE n # k
      <4>1. n \in 1 .. k - 1 /\ n \in File
        BY <3>2, <2>5, <1>1
      <4>. QED
        BY <4>1, <3>2, <2>7, <2>8, <2>11
    <3>. QED
      BY <3>1, <3>2
  <2>13. Defined(h, k)
    BY <2>10, <2>12
  <2>. QED
    BY <2>3, <2>13
<1>4. PICK g : Defined(g, Len(lev))
  <2>1. Len(lev) \notin T /\ Len(lev) \in 0 .. Len(lev)
    BY <1>1, <1>3
  <2>. QED
    BY <2>1
<1>5. g = [n \in File |-> CParentsStep(g, n)]
  BY <1>1, <1>4
<1>6. CParents = [n \in File |-> CParentsStep(CParents, n)]
  BY <1>5 DEF CParents, CParentsStep
<1>. QED
  BY <1>6

\* In a record, an enum or a typedef there are no classes and no typedefs.
LEMMA CTypesHold ==
  ASSUME Shape, NGrammar, prof.lang \in {"c", "cpp"}, NEW k \in File, kind[k] \in CTypeKinds \cup {"typedef"}
  PROVE  \A n \in File : Above(k, n) => kind[n] \in CTypeKinds
<1> DEFINE S == {n \in File : Above(k, n) => kind[n] \in CTypeKinds}
<1>1. 1 \in S
  <2>1. 1 \in File /\ \A m \in File : m \in Nat /\ m >= 1
    BY TreeShape DEF Shape, File, Nodes
  <2>2. ~Above(k, 1)
    BY <2>1 DEF Above
  <2>. QED
    BY <2>1, <2>2
<1>2. ASSUME NEW n \in File, n # 1, Up(n) \in S PROVE n \in S
  <2>1. Above(k, n) => kind[Up(n)] \in CTypeKinds \cup {"typedef"}
    BY <1>2, AboveUp
  <2>. QED
    BY <2>1, <1>2, FitsUp DEF NFits
<1>3. \A n \in File : n \in S
  <2> HIDE DEF S
  <2>. QED
    BY <1>1, <1>2, FromTheRoot
<1>. QED
  BY <1>3

LEMMA CHasNoClasses ==
  ASSUME Shape, Rooted, NGrammar, prof.lang = "c"
  PROVE  \A n \in File : kind[n] \notin {"class", "tmpl"}
<1> DEFINE S == {n \in File : kind[n] \notin {"class", "tmpl"}}
<1>1. 1 \in S
  BY TreeShape DEF Shape, Rooted, File, Nodes
<1>2. \A n \in File : n # 1 /\ Up(n) \in S => n \in S
  BY FitsUp DEF NFits
<1>3. \A n \in File : n \in S
  <2> HIDE DEF S
  <2>. QED
    BY <1>1, <1>2, FromTheRoot
<1>. QED
  BY <1>3

\* What extractCNodes has CType for, and what stands in it.
CTypeDecl(k) ==
  k \in File /\ k # 1 /\ kind[k] \in {"typedef", "record", "enum"} /\ kind[Up(k)] \in CVisited

CIn(k, n) == n \in File /\ (n = k \/ Above(k, n))

LEMMA CInUp ==
  ASSUME Shape, Rooted, NGrammar, prof.lang \in {"c", "cpp"}, NEW k, CTypeDecl(k), NEW n, CIn(k, n)
  PROVE  /\ n \in File /\ n # 1 /\ Up(n) \in File
         /\ n = k => kind[Up(n)] \in CVisited
         /\ n # k => CIn(k, Up(n)) /\ kind[Up(n)] \in CTypeKinds \cup {"typedef"} /\ kind[n] \in CTypeKinds
         /\ kind[n] = "typedef" => n = k
         /\ (n = k \/ CEntered(Up(n))) => CEmit(n) \subseteq CType(k)
<1>1. n \in File /\ k \in File /\ \A m \in File : m \in Nat /\ m >= 1
  BY TreeShape DEF Shape, File, Nodes, CIn, CTypeDecl
<1>2. n # 1
  BY <1>1 DEF CIn, CTypeDecl, Above
<1>3. Up(n) \in File
  BY <1>1, <1>2, UpIs
<1>4. n = k => kind[Up(n)] \in CVisited
  BY DEF CTypeDecl
<1>5. kind[k] \in CTypeKinds \cup {"typedef"}
  BY DEF CTypeDecl, CTypeKinds
<1>6. n # k => kind[n] \in CTypeKinds
  BY <1>1, <1>5, CTypesHold DEF CIn
<1>7. n # k => CIn(k, Up(n)) /\ kind[Up(n)] \in CTypeKinds \cup {"typedef"}
  <2> SUFFICES ASSUME n # k PROVE CIn(k, Up(n)) /\ kind[Up(n)] \in CTypeKinds \cup {"typedef"}
    OBVIOUS
  <2>1. Up(n) = k \/ Above(k, Up(n))
    BY <1>1, <1>2, AboveUp DEF CIn
  <2>. QED
    BY <2>1, <1>1, <1>3, <1>5, CTypesHold DEF CIn
<1>8. n # k => n \in Under(k)
  BY <1>1, UnderIs DEF CIn
<1>. QED
  BY <1>1, <1>2, <1>3, <1>4, <1>6, <1>7, <1>8 DEF CType, CTypeKinds

-----------------------------------------------------------------------------
\* The records around and at r, and what makes a path of q for its members:
\* top is the innermost with a name, the records in it have none.
CRecords(r) == {x \in Of({"record"}) : x = r \/ Above(x, r)}
CHasName(x) == name[x] # "" \/ kind[Up(x)] = "typedef"
CInner(top, r) == {x \in CRecords(r) : top < x /\ Kids(x) \cap Of({"inst"}) # {}}

CStepOf(symbols, top, r, q, i) ==
  \E f \in symbols : /\ f.sort = "field" /\ kind[f.at] # "proto" /\ f.at \in Under(top)
                     /\ Up(f.at) = r \/ Above(Up(f.at), r)
                     /\ f.qual = <<q[i]>> /\ f.parent = SubSeq(q, 1, i - 1)

CTopOf(symbols, top, q) ==
  \E t \in symbols : /\ t.sort = "class" /\ kind[t.at] # "proto"
                     /\ t.at \in {top, Up(top)} /\ t.qual = <<q[1]>>

CPathOf(symbols, top, r, q) ==
  /\ top \in CRecords(r) /\ CHasName(top) /\ \A x \in CRecords(r) : top < x => ~CHasName(x)
  /\ q \in Seq(AllNames) /\ Len(q) = 1 + Cardinality(CInner(top, r))
  /\ CTopOf(symbols, top, q)
  /\ \A i \in 2 .. Len(q) : CStepOf(symbols, top, r, q, i)

\* A record with a name.
LEMMA CTopPath ==
  ASSUME Shape, NEW symbols, NEW r \in File, kind[r] = "record", CHasName(r), NEW e \in AllNames,
         CTopOf(symbols, r, <<e>>)
  PROVE  CPathOf(symbols, r, r, <<e>>)
<1>1. \A x \in CRecords(r) : x \in Nat /\ x <= r /\ r \in Nat
  BY TreeShape DEF Shape, File, Nodes, CRecords, Of, Above
<1>2. CInner(r, r) = {} /\ \A x \in CRecords(r) : ~(r < x)
  BY <1>1 DEF CInner
<1>3. Cardinality(CInner(r, r)) = 0
  BY <1>2, FS_EmptySet
<1>4. r \in CRecords(r)
  BY DEF CRecords, Of
<1>5. <<e>> \in Seq(AllNames) /\ Len(<<e>>) = 1
  OBVIOUS
<1>. QED
  BY <1>2, <1>3, <1>4, <1>5 DEF CPathOf

\* An unnamed record in one with a path.
LEMMA CUnnamedPath ==
  ASSUME Shape, NEW symbols, NEW r \in File, r # 1, kind[r] = "record", ~CHasName(r), NEW top, NEW q,
         CPathOf(symbols, top, Up(r), q), Kids(r) \cap Of({"inst"}) = {}
  PROVE  CPathOf(symbols, top, r, q)
<1>1. \A x : Above(x, r) <=> x = Up(r) \/ Above(x, Up(r))
  BY AboveUp
<1>2. CRecords(r) = CRecords(Up(r)) \cup {r}
  BY <1>1 DEF CRecords, Of
<1>3. CInner(top, r) = CInner(top, Up(r))
  BY <1>2 DEF CInner
<1>. QED
  BY <1>1, <1>2, <1>3, Zenon DEF CPathOf, CStepOf

LEMMA CInstPath ==
  ASSUME Shape, NEW symbols, NEW r \in File, r # 1, kind[r] = "record", ~CHasName(r), NEW top, NEW q,
         CPathOf(symbols, top, Up(r), q), NEW i \in Kids(r) \cap Of({"inst"}),
         Sym(i, "field", <<name[i]>>, q, {}, {}) \in symbols
  PROVE  CPathOf(symbols, top, r, QualJoin(q, name[i]))
<1> DEFINE p == QualJoin(q, name[i])
<1>1. \A x : Above(x, r) <=> x = Up(r) \/ Above(x, Up(r))
  BY AboveUp
<1>2. CRecords(r) = CRecords(Up(r)) \cup {r}
  BY <1>1 DEF CRecords, Of
<1>3. \A n \in File : n \in Nat /\ name[n] \in AllNames
  BY TreeShape DEF Shape, File, Nodes, AllNames
<1>4. top \in CRecords(Up(r)) /\ top \in File /\ top < r
  <2>1. top \in CRecords(Up(r)) /\ top \in File
    BY DEF CPathOf, CRecords, Of
  <2>2. Above(top, r)
    BY <2>1, <1>1 DEF CRecords
  <2>. QED
    BY <2>1, <2>2 DEF Above
<1>5. i \in File /\ i # 1 /\ Up(i) = r /\ kind[i] = "inst"
  BY CKid DEF Of
<1>6. i \in Under(top)
  <2>1. Above(top, r) /\ r \in File
    BY <1>1, <1>4 DEF CRecords
  <2>2. Above(top, i)
    BY <2>1, <1>5, AboveUp
  <2>. QED
    BY <2>2, <1>4, <1>5, UnderIs
<1>7. /\ CInner(top, r) = CInner(top, Up(r)) \cup {r} /\ r \notin CInner(top, Up(r))
      /\ IsFiniteSet(CInner(top, Up(r)))
  <2>1. CInner(top, r) = CInner(top, Up(r)) \cup {r}
    BY <1>2, <1>4 DEF CInner
  <2>2. r \notin CRecords(Up(r))
    <3>1. Up(r) < r
      BY UpIs
    <3>2. Up(r) \in Nat /\ r \in Nat
      BY <1>3, UpIs
    <3>. QED
      BY <3>1, <3>2 DEF CRecords, Above
  <2>3. IsFiniteSet(File)
    BY TreeShape, FS_Interval DEF Shape, File, Nodes
  <2>4. CInner(top, Up(r)) \in SUBSET File
    BY DEF CInner, CRecords, Of
  <2>5. IsFiniteSet(CInner(top, Up(r)))
    BY <2>3, <2>4, FS_Subset
  <2>. QED
    BY <2>1, <2>2, <2>5 DEF CInner
<1>8. /\ Cardinality(CInner(top, r)) = Cardinality(CInner(top, Up(r))) + 1
      /\ Cardinality(CInner(top, Up(r))) \in Nat
  BY <1>7, FS_AddElement, FS_CardinalityType
<1>9. q \in Seq(AllNames) /\ Len(q) = 1 + Cardinality(CInner(top, Up(r))) /\ Len(q) \in Nat
  BY DEF CPathOf
<1>10. /\ p \in Seq(AllNames) /\ Len(p) = Len(q) + 1 /\ p[Len(q) + 1] = name[i]
       /\ \A j \in 1 .. Len(q) : p[j] = q[j]
       /\ SubSeq(p, 1, Len(q)) = q
  <2>1. name[i] \in AllNames
    BY <1>3, <1>5
  <2>2. p \in Seq(AllNames) /\ Len(p) = Len(q) + 1 /\ p[Len(q) + 1] = name[i]
    BY <2>1, <1>9 DEF QualJoin
  <2>3. \A j \in 1 .. Len(q) : p[j] = q[j]
    BY <2>1, <1>9 DEF QualJoin
  <2>4. SubSeq(p, 1, Len(p) - 1) = q
    BY <2>1, <1>9, JoinIs, Zenon
  <2>5. Len(p) - 1 = Len(q)
    BY <2>2, <1>9
  <2>. QED
    BY <2>2, <2>3, <2>4, <2>5
<1>11. \A j \in 2 .. Len(q) : SubSeq(p, 1, j - 1) = SubSeq(q, 1, j - 1)
  <2> SUFFICES ASSUME NEW j \in 2 .. Len(q) PROVE SubSeq(p, 1, j - 1) = SubSeq(q, 1, j - 1)
    OBVIOUS
  <2> HIDE DEF p
  <2>1. j - 1 \in Nat /\ j - 1 <= Len(q) /\ 1 <= j - 1
    BY <1>9
  <2>2. /\ SubSeq(p, 1, j - 1) \in Seq(AllNames) /\ Len(SubSeq(p, 1, j - 1)) = j - 1
        /\ \A m \in 1 .. j - 1 : SubSeq(p, 1, j - 1)[m] = p[m]
    BY <2>1, <1>9, <1>10
  <2>3. /\ SubSeq(q, 1, j - 1) \in Seq(AllNames) /\ Len(SubSeq(q, 1, j - 1)) = j - 1
        /\ \A m \in 1 .. j - 1 : SubSeq(q, 1, j - 1)[m] = q[m]
    BY <2>1, <1>9
  <2>. QED
    BY <2>1, <2>2, <2>3, <1>9, <1>10
<1>12. CTopOf(symbols, top, p)
  <2>1. p[1] = q[1]
    BY <1>8, <1>9, <1>10
  <2> HIDE DEF p
  <2>. QED
    BY <2>1 DEF CPathOf, CTopOf
<1>13. ASSUME NEW j \in 2 .. Len(p) PROVE CStepOf(symbols, top, r, p, j)
  <2>1. CASE j \in 2 .. Len(q)
    <3>1. CStepOf(symbols, top, Up(r), q, j)
      BY <2>1 DEF CPathOf
    <3>2. p[j] = q[j] /\ SubSeq(p, 1, j - 1) = SubSeq(q, 1, j - 1)
      BY <2>1, <1>9, <1>10, <1>11
    <3> HIDE DEF p
    <3>. QED
      BY <3>1, <3>2, <1>1 DEF CStepOf
  <2>2. CASE j = Len(q) + 1
    <3> DEFINE f == Sym(i, "field", <<name[i]>>, q, {}, {})
    <3>1. f \in symbols /\ f.sort = "field" /\ f.at = i /\ f.qual = <<name[i]>> /\ f.parent = q
      BY DEF Sym
    <3>2. j - 1 = Len(q) /\ p[j] = name[i]
      BY <2>2, <1>9, <1>10
    <3>3. SubSeq(p, 1, j - 1) = q
      BY <3>2, <1>10
    <3> HIDE DEF f, p
    <3>. QED
      BY <3>1, <3>2, <3>3, <1>5, <1>6 DEF CStepOf
  <2>3. j \in 2 .. Len(q) \/ j = Len(q) + 1
    BY <1>9, <1>10
  <2>. QED
    BY <2>1, <2>2, <2>3
<1> HIDE DEF p
<1>14. Len(p) = 1 + Cardinality(CInner(top, r))
  BY <1>8, <1>9, <1>10
<1>15. top \in CRecords(r) /\ CHasName(top) /\ \A x \in CRecords(r) : top < x => ~CHasName(x)
  BY <1>2 DEF CPathOf
<1>16. CPathOf(symbols, top, r, p)
  BY <1>10, <1>12, <1>13, <1>14, <1>15 DEF CPathOf
<1>. QED
  BY <1>16 DEF p

-----------------------------------------------------------------------------
\* What a typedef is of.
LEMMA CTypedefOf ==
  ASSUME Shape, NGrammar, prof.lang \in {"c", "cpp"}, NEW n \in File, n # 1, kind[Up(n)] = "typedef"
  PROVE  CTypedefSort(Up(n)) = IF kind[n] = "enum" THEN "enum" ELSE "class"
<1>1. Up(n) \in File /\ IsParent(lev, n, Up(n))
  BY UpIs
<1>2. n \in Kids(Up(n))
  BY <1>1 DEF Kids
<1>3. n = FirstKid(Up(n))
  BY FitsUp DEF NFits, FirstKid
<1>. QED
  BY <1>2, <1>3 DEF CTypedefSort

\* The symbol of a tag, and of a typedef with it.
LEMMA CTagSymbol ==
  ASSUME NEW n, NEW sort, name[n] # "", kind[Up(n)] = "typedef" => name[n] # name[Up(n)]
  PROVE  \E t \in CTypeSym(n, sort) : t.at = n /\ t.sort = sort /\ t.qual = CTag(n) /\ t.parent = << >>
<1> DEFINE t == Sym(n, sort, CTag(n), << >>, {}, {})
<1>1. t.at = n /\ t.sort = sort /\ t.qual = CTag(n) /\ t.parent = << >>
  BY Zenon DEF Sym
<1>2. t \in CTypeSym(n, sort)
  BY Zenon DEF CTypeSym, CTag
<1> HIDE DEF t
<1>. QED
  BY <1>1, <1>2, Zenon

LEMMA CTypedefSymbol ==
  ASSUME NEW n, kind[n] = "typedef"
  PROVE  \E t \in CEmit(n) : /\ t.at = n /\ t.sort = CTypedefSort(n)
                             /\ t.qual = <<name[n]>> /\ t.parent = << >>
<1> DEFINE t == Sym(n, CTypedefSort(n), <<name[n]>>, << >>, {}, {})
<1>1. t.at = n /\ t.sort = CTypedefSort(n) /\ t.qual = <<name[n]>> /\ t.parent = << >>
  BY DEF Sym
<1>2. CEmit(n) = {t}
  BY DEF CEmit
<1> HIDE DEF t
<1>. QED
  BY <1>1, <1>2

\* Every parent that a record gives its members is the path of one.
LEMMA CRecordPaths ==
  ASSUME Shape, Rooted, NGrammar, prof.lang = "c", NEW k, CTypeDecl(k)
  PROVE  \A r \in File : CIn(k, r) /\ kind[r] = "record" =>
           \A q \in CParents[r] : \E top : CPathOf(CType(k), top, r, q)
<1> DEFINE Paths(r) == \A q \in CParents[r] : \E top : CPathOf(CType(k), top, r, q)
           S == {r \in File : CIn(k, r) /\ kind[r] = "record" => Paths(r)}
<1>1. 1 \in S
  BY TreeShape DEF Shape, Rooted, File, Nodes
<1>2. ASSUME NEW r \in File, r # 1, Up(r) \in S, CIn(k, r), kind[r] = "record" PROVE Paths(r)
  <2>1. /\ Up(r) \in File /\ r # 1
        /\ r = k => kind[Up(r)] \in CVisited
        /\ r # k => CIn(k, Up(r))
        /\ (r = k \/ CEntered(Up(r))) => CEmit(r) \subseteq CType(k)
    BY <1>2, CInUp
  <2>2. name[r] \in AllNames /\ name[Up(r)] \in AllNames
    BY <2>1, TreeShape DEF Shape, File, Nodes, AllNames
  <2>3. CParents[r] = CParentsStep(CParents, r)
    BY CParentsAre
  <2>4. CEmit(r) = CTypeSym(r, "class")
    BY <1>2 DEF CEmit
  <2>5. ASSUME name[r] # "", kind[Up(r)] = "typedef" => name[r] # name[Up(r)],
               r = k \/ CEntered(Up(r))
        PROVE  CPathOf(CType(k), r, r, CTag(r))
    <3>1. PICK t \in CTypeSym(r, "class") : t.at = r /\ t.sort = "class" /\ t.qual = CTag(r)
      BY <2>5, CTagSymbol, Zenon
    <3>2. t \in CType(k)
      BY <2>1, <2>4, <2>5, <3>1, Zenon
    <3>3. CTag(r) = <<name[r]>>
      BY <2>5, Zenon DEF CTag
    <3>4. CTopOf(CType(k), r, <<name[r]>>)
      BY <1>2, <3>1, <3>2, <3>3 DEF CTopOf
    <3>5. CHasName(r)
      BY <2>5, Zenon DEF CHasName
    <3>. QED
      BY <1>2, <2>2, <3>3, <3>4, <3>5, CTopPath
  <2>6. CASE kind[Up(r)] = "typedef"
    <3>1. Up(r) = k /\ k \in File
      BY <1>2, <2>1, <2>6, CInUp DEF CVisited, CTypeDecl
    <3>2. CParents[r] = {<<name[Up(r)]>>, CTag(r)} \ {<< >>}
      BY <1>2, <2>3, <2>6 DEF CParentsStep
    <3>3. CPathOf(CType(k), r, r, <<name[Up(r)]>>)
      <4>1. PICK t \in CEmit(k) : t.at = k /\ t.sort = CTypedefSort(k) /\ t.qual = <<name[k]>>
        BY <2>6, <3>1, CTypedefSymbol, Zenon
      <4>2. CTypedefSort(k) = "class"
        BY <1>2, <2>6, <3>1, CTypedefOf
      <4>3. CEmit(k) \subseteq CType(k)
        BY <3>1, CInUp DEF CIn
      <4>4. CTopOf(CType(k), r, <<name[Up(r)]>>)
        BY <2>6, <3>1, <4>1, <4>2, <4>3 DEF CTopOf
      <4>5. CHasName(r)
        BY <2>6 DEF CHasName
      <4>. QED
        BY <1>2, <2>2, <4>4, <4>5, CTopPath
    <3>4. ASSUME NEW q \in CParents[r], q # <<name[Up(r)]>> PROVE CPathOf(CType(k), r, r, q)
      <4>1. q = CTag(r) /\ name[r] # "" /\ name[r] # name[Up(r)]
        BY <3>2, <3>4, Zenon DEF CTag
      <4>2. CEntered(Up(r))
        BY <2>6 DEF CEntered
      <4>. QED
        BY <2>5, <4>1, <4>2, Zenon
    <3>. QED
      BY <3>3, <3>4
  <2>7. CASE kind[Up(r)] = "record" /\ CParents[Up(r)] = {}
    <3>1. CParents[r] = CThrough(r, {})
      BY <1>2, <2>3, <2>7 DEF CParentsStep
    <3>2. CThrough(r, {}) = {}
      BY DEF CThrough
    <3>. QED
      BY <3>1, <3>2
  <2>8. CASE kind[Up(r)] = "record" /\ CTag(r) = << >>
    <3>1. CParents[r] = CThrough(r, CParents[Up(r)])
      BY <1>2, <2>3, <2>8 DEF CParentsStep
    <3>2. r # k /\ CIn(k, Up(r))
      BY <2>1, <2>8 DEF CVisited
    <3>3. Paths(Up(r))
      BY <1>2, <2>8, <3>2
    <3>4. ~CHasName(r)
      BY <2>8, Zenon DEF CHasName, CTag
    <3>5. SUFFICES ASSUME NEW q \in CParents[r] PROVE \E top : CPathOf(CType(k), top, r, q)
      OBVIOUS
    <3>6. CASE Kids(r) \cap Of({"inst"}) = {}
      <4>1. q \in CParents[Up(r)]
        BY <3>1, <3>5, <3>6 DEF CThrough
      <4>2. PICK top : CPathOf(CType(k), top, Up(r), q)
        BY <3>3, <4>1
      <4>3. CPathOf(CType(k), top, r, q)
        BY <1>2, <3>4, <3>6, <4>2, CUnnamedPath
      <4>. QED
        BY <4>3
    <3>7. CASE Kids(r) \cap Of({"inst"}) # {}
      <4>1. PICK p \in CParents[Up(r)], i \in Kids(r) \cap Of({"inst"}) : q = QualJoin(p, name[i])
        BY <3>1, <3>5, <3>7 DEF CThrough
      <4>2. PICK top : CPathOf(CType(k), top, Up(r), p)
        BY <3>3, <4>1
      <4>3. i \in File /\ i # 1 /\ Up(i) = r /\ kind[i] = "inst"
        BY CKid DEF Of
      <4>4. CIn(k, i)
        <5>1. Above(k, r)
          BY <1>2, <3>2 DEF CIn
        <5>2. Above(k, i)
          BY <4>3, <5>1, AboveUp
        <5>. QED
          BY <4>3, <5>2 DEF CIn
      <4>5. CEntered(Up(i))
        BY <3>5, <4>3 DEF CEntered
      <4>6. CEmit(i) \subseteq CType(k)
        BY <4>4, <4>5, CInUp
      <4>7. Sym(i, "field", <<name[i]>>, p, {}, {}) \in CEmit(i)
        BY <4>1, <4>3 DEF CEmit
      <4>8. CPathOf(CType(k), top, r, QualJoin(p, name[i]))
        BY <1>2, <3>4, <4>2, <4>6, <4>7, CInstPath
      <4>. QED
        BY <4>1, <4>8
    <3>. QED
      BY <3>6, <3>7
  <2>9. CASE /\ kind[Up(r)] # "typedef"
             /\ ~(kind[Up(r)] = "record" /\ (CTag(r) = << >> \/ CParents[Up(r)] = {}))
    <3>1. CParents[r] = {CTag(r)} \ {<< >>}
      BY <1>2, <2>3, <2>9 DEF CParentsStep
    <3>2. CEntered(Up(r)) \/ CParents[r] = {}
      BY <2>9, <3>1 DEF CEntered
    <3>3. CParents[r] # {} => name[r] # ""
      BY <3>1, Zenon DEF CTag
    <3>. QED
      BY <2>5, <2>9, <3>1, <3>2, <3>3, Zenon
  <2>. QED
    BY <2>6, <2>7, <2>8, <2>9
<1>3. \A r \in File : r # 1 /\ Up(r) \in S => r \in S
  BY <1>2
<1>4. \A r \in File : r \in S
  <2> HIDE DEF S
  <2>. QED
    BY <1>1, <1>3, FromTheRoot
<1>. QED
  BY <1>4

-----------------------------------------------------------------------------
(* CFieldOfRecord and CConstOfEnum, of a list of symbols                   *)

CFieldIn(symbols, s) ==
  LET of == IF kind[s.at] = "inst" THEN Up(s.at) ELSE s.at
  IN  /\ of \in File /\ of # 1
      /\ \E top : CPathOf(symbols, top, Up(of), s.parent)

CConstIn(symbols, s) ==
  LET e == Up(s.at) IN
  CASE kind[Up(e)] = "record" -> s.parent = CTag(e)
    [] name[e] = "" /\ kind[Up(e)] \notin {"record", "typedef"} ->
         s.parent = IF kind[Up(e)] = "class" THEN CppPath(Up(e)) ELSE << >>
    [] OTHER -> \E t \in symbols : /\ t.sort = "enum" /\ kind[t.at] # "proto" /\ t.at \in {e, Up(e)}
                                   /\ t.parent \o t.qual = s.parent

CNamed(symbols, s) ==
  /\ s.sort = "const" => CConstIn(symbols, s)
  /\ prof.lang = "c" /\ s.sort = "field" => CFieldIn(symbols, s)

SameNamed(s, t) == s.at = t.at /\ s.sort = t.sort /\ s.qual = t.qual /\ s.parent = t.parent

\* B has all but prototypes of what A has, up to marks and calls.
CCovers(A, B) == \A t \in A : kind[t.at] # "proto" => \E u \in B : SameNamed(u, t)

LEMMA CPathMore ==
  ASSUME NEW A, NEW B, CCovers(A, B), NEW top, NEW r, NEW q, CPathOf(A, top, r, q)
  PROVE  CPathOf(B, top, r, q)
<1>1. CTopOf(B, top, q)
  BY DEF CPathOf, CTopOf, CCovers, SameNamed
<1>2. ASSUME NEW i \in 2 .. Len(q) PROVE CStepOf(B, top, r, q, i)
  <2>1. CStepOf(A, top, r, q, i)
    BY DEF CPathOf
  <2>2. PICK f \in A : /\ f.sort = "field" /\ kind[f.at] # "proto" /\ f.at \in Under(top)
                       /\ Up(f.at) = r \/ Above(Up(f.at), r)
                       /\ f.qual = <<q[i]>> /\ f.parent = SubSeq(q, 1, i - 1)
    BY <2>1 DEF CStepOf
  <2>3. PICK u \in B : SameNamed(u, f)
    BY <2>2 DEF CCovers
  <2>. QED
    BY <2>2, <2>3 DEF CStepOf, SameNamed
<1>. QED
  BY <1>1, <1>2 DEF CPathOf

LEMMA CNamedMore ==
  ASSUME NEW A, NEW B, CCovers(A, B), NEW s, NEW v, SameNamed(v, s), CNamed(A, s)
  PROVE  CNamed(B, v)
<1>1. v.at = s.at /\ v.sort = s.sort /\ v.parent = s.parent
  BY DEF SameNamed
<1>2. s.sort = "const" => CConstIn(B, v)
  <2>1. s.sort = "const" => CConstIn(A, s)
    BY DEF CNamed
  <2> SUFFICES ASSUME CConstIn(A, s) PROVE CConstIn(B, v)
    BY <2>1
  <2> DEFINE e == Up(s.at)
  <2>3. Up(v.at) = e /\ v.parent = s.parent
    BY <1>1
  <2> HIDE DEF e
  <2>4. CASE kind[Up(e)] = "record"
    BY <2>3, <2>4 DEF CConstIn, e
  <2>5. CASE name[e] = "" /\ kind[Up(e)] \notin {"record", "typedef"}
    BY <2>3, <2>5, Zenon DEF CConstIn, e
  <2>6. CASE kind[Up(e)] # "record" /\ ~(name[e] = "" /\ kind[Up(e)] \notin {"record", "typedef"})
    <3>1. \E t \in A : /\ t.sort = "enum" /\ kind[t.at] # "proto" /\ t.at \in {e, Up(e)}
                       /\ t.parent \o t.qual = s.parent
      BY <2>6, Zenon DEF CConstIn, e
    <3>2. PICK t \in A : /\ t.sort = "enum" /\ kind[t.at] # "proto" /\ t.at \in {e, Up(e)}
                         /\ t.parent \o t.qual = s.parent
      BY <3>1, Zenon
    <3>3. PICK u \in B : SameNamed(u, t)
      BY <3>2 DEF CCovers
    <3>4. /\ u.sort = "enum" /\ kind[u.at] # "proto" /\ u.at \in {e, Up(e)}
          /\ u.parent \o u.qual = v.parent
      BY <2>3, <3>2, <3>3, Zenon DEF SameNamed
    <3>5. \E w \in B : /\ w.sort = "enum" /\ kind[w.at] # "proto" /\ w.at \in {e, Up(e)}
                       /\ w.parent \o w.qual = v.parent
      BY <3>4, Zenon
    <3>. QED
      BY <2>3, <2>6, <3>5, Zenon DEF CConstIn
  <2>. QED
    BY <2>4, <2>5, <2>6, Zenon
<1>3. prof.lang = "c" /\ s.sort = "field" => CFieldIn(B, v)
  <2>1. prof.lang = "c" /\ s.sort = "field" => CFieldIn(A, s)
    BY DEF CNamed
  <2>. QED
    BY <2>1, <1>1, CPathMore DEF CFieldIn
<1>. QED
  BY <1>1, <1>2, <1>3 DEF CNamed

\* A path is what CFieldOfRecord asks for.
LEMMA CFieldNamed ==
  ASSUME Shape, NEW s, CFieldIn(out, s)
  PROVE  CFieldOfRecord(s)
<1> DEFINE of == IF kind[s.at] = "inst" THEN Up(s.at) ELSE s.at
           around == Around(of, {"record"})
           named == {r \in around : name[r] # "" \/ kind[Up(r)] = "typedef"}
           record == Last(named)
           inner == {r \in around \ named : Kids(r) \cap Of({"inst"}) # {}}
<1>1. /\ of \in File /\ of # 1
      /\ \E top : CPathOf(out, top, Up(of), s.parent)
  BY DEF CFieldIn
<1> HIDE DEF of
<1>2. PICK top : CPathOf(out, top, Up(of), s.parent)
  BY <1>1
<1>3. Up(of) \in File /\ \A m : Above(m, of) <=> m = Up(of) \/ Above(m, Up(of))
  BY <1>1, UpIs, AboveUp
<1>4. around = CRecords(Up(of))
  <2>1. around = {m \in Of({"record"}) : Above(m, of)}
    BY DEF Around, Above, Of
  <2>. QED
    BY <2>1, <1>3 DEF CRecords
<1>5. named = {r \in CRecords(Up(of)) : CHasName(r)}
  BY <1>4 DEF CHasName
<1>6. /\ top \in CRecords(Up(of)) /\ CHasName(top)
      /\ \A x \in CRecords(Up(of)) : top < x => ~CHasName(x)
  BY <1>2 DEF CPathOf
<1>7. \A n \in CRecords(Up(of)) : n \in File /\ n \in Nat
  BY TreeShape DEF Shape, File, Nodes, CRecords, Of
<1>8. record = top /\ named # {}
  <2>1. named \subseteq File
    BY <1>5, <1>7, Zenon
  <2>2. top \in named
    BY <1>5, <1>6, Zenon
  <2>3. \A m \in named : m <= top
    <3>1. \A m \in named : m \in CRecords(Up(of)) /\ CHasName(m)
      BY <1>5, Zenon
    <3>2. \A m \in named : m \in Nat /\ ~(top < m)
      BY <1>6, <1>7, <3>1, Zenon
    <3>3. top \in Nat
      BY <1>6, <1>7
    <3> HIDE DEF named
    <3>. QED
      BY <3>2, <3>3
  <2> HIDE DEF named
  <2>. QED
    BY <2>1, <2>2, <2>3, LastIs
<1>9. {r \in inner : r > record} = CInner(top, Up(of))
  BY <1>4, <1>5, <1>6, <1>7, <1>8, Zenon DEF CInner
<1>10. Len(s.parent) = 1 + Cardinality({r \in inner : r > record})
  <2> HIDE DEF inner, record
  <2>. QED
    BY <1>2, <1>9, Zenon DEF CPathOf
<1>11. \E t \in out : t.sort = "class" /\ t.at \in {record, Up(record)} /\ t.qual = <<s.parent[1]>>
  BY <1>2, <1>8, Zenon DEF CPathOf, CTopOf
<1>12. ASSUME NEW i \in 2 .. Len(s.parent)
       PROVE  \E f \in out : /\ f.sort = "field" /\ f.at \in Under(record) /\ of \in Under(Up(f.at))
                             /\ f.qual = <<s.parent[i]>> /\ f.parent = SubSeq(s.parent, 1, i - 1)
  <2>1. CStepOf(out, top, Up(of), s.parent, i)
    BY <1>2 DEF CPathOf
  <2>2. PICK f \in out : /\ f.sort = "field" /\ kind[f.at] # "proto" /\ f.at \in Under(top)
                         /\ Up(f.at) = Up(of) \/ Above(Up(f.at), Up(of))
                         /\ f.qual = <<s.parent[i]>> /\ f.parent = SubSeq(s.parent, 1, i - 1)
    BY <2>1 DEF CStepOf
  <2>3. Above(Up(f.at), of)
    BY <1>3, <2>2
  <2>4. of \in Under(Up(f.at))
    BY <1>1, <2>3, UnderIs DEF Above
  <2>. QED
    BY <1>8, <2>2, <2>4, Zenon
<1> HIDE DEF named, record, inner, around
<1>13. /\ named # {} /\ Len(s.parent) = 1 + Cardinality({r \in inner : r > record})
       /\ \E t \in out : t.sort = "class" /\ t.at \in {record, Up(record)} /\ t.qual = <<s.parent[1]>>
       /\ \A i \in 2 .. Len(s.parent) :
            \E f \in out : /\ f.sort = "field" /\ f.at \in Under(record) /\ of \in Under(Up(f.at))
                           /\ f.qual = <<s.parent[i]>> /\ f.parent = SubSeq(s.parent, 1, i - 1)
  BY <1>8, <1>10, <1>11, <1>12, Zenon
<1>. QED
  BY <1>13, Zenon DEF CFieldOfRecord, of, around, named, record, inner

-----------------------------------------------------------------------------
\* What is declared at a record, an enum or a typedef.
LEMMA CTypeNamed ==
  ASSUME Shape, Rooted, NGrammar, prof.lang \in {"c", "cpp"}, NEW k, CTypeDecl(k), NEW s \in CType(k)
  PROVE  CNamed(CType(k), s)
<1>1. PICK n : /\ n = k \/ (n \in Under(k) /\ CEntered(Up(n)))
               /\ s \in CEmit(n)
  BY DEF CType
<1>2. k \in File /\ kind[k] \in {"typedef", "record", "enum"} /\ kind[Up(k)] \in CVisited
  BY DEF CTypeDecl
<1>3. n \in File /\ CIn(k, n)
  <2>1. n # k => n \in File
    BY <1>1 DEF Under, Subtree, File, Nodes
  <2>. QED
    BY <1>1, <1>2, <2>1, UnderIs DEF CIn
<1>4. /\ n # 1 /\ Up(n) \in File
      /\ n = k => kind[Up(n)] \in CVisited
      /\ n # k => CIn(k, Up(n)) /\ kind[Up(n)] \in CTypeKinds \cup {"typedef"} /\ kind[n] \in CTypeKinds
      /\ kind[n] = "typedef" => n = k
      /\ CEmit(n) \subseteq CType(k)
  BY <1>1, <1>3, CInUp
<1>5. \A sort : \A r \in CTypeSym(n, sort) : r.sort = sort /\ r.at = n
  BY DEF CTypeSym, Sym
<1>6. \A parent : \A r \in CEnumMembers(n, parent, {}) :
         r.sort = "const" /\ r.at \in Kids(n) /\ r.parent = parent
  BY DEF CEnumMembers, Sym
<1>7. CTypedefSort(n) \in {"type", "enum", "class"}
  BY DEF CTypedefSort
<1>8. ASSUME kind[n] = "enum", s.sort = "const" PROVE CConstIn(CType(k), s)
  <2> DEFINE P == IF kind[Up(n)] = "typedef" /\ CTag(n) = << >> THEN <<name[Up(n)]>> ELSE CTag(n)
  <2>1. s \in CEnumMembers(n, P, {})
    <3>1. CEmit(n) = (IF kind[Up(n)] = "record" THEN {} ELSE CTypeSym(n, "enum")) \cup CEnumMembers(n, P, {})
      BY <1>8 DEF CEmit
    <3>. QED
      BY <1>1, <1>5, <1>8, <3>1
  <2>2. s.at \in Kids(n) /\ s.parent = P
    BY <1>6, <2>1
  <2>3. Up(s.at) = n
    BY <1>3, <2>2, CKid
  <2>4. CASE kind[Up(n)] = "record"
    BY <2>2, <2>3, <2>4 DEF CConstIn
  <2>5. CASE name[n] = "" /\ kind[Up(n)] \notin {"record", "typedef"}
    <3>1. kind[Up(n)] # "class"
      BY <1>4 DEF CVisited, CTypeKinds
    <3>2. P = << >>
      BY <2>5, Zenon DEF CTag
    <3>. QED
      BY <2>2, <2>3, <2>5, <3>1, <3>2, Zenon DEF CConstIn
  <2>6. CASE kind[Up(n)] # "record" /\ ~(name[n] = "" /\ kind[Up(n)] \notin {"record", "typedef"})
    <3>1. SUFFICES \E t \in CType(k) : /\ t.sort = "enum" /\ kind[t.at] # "proto" /\ t.at \in {n, Up(n)}
                                       /\ t.parent \o t.qual = s.parent
      BY <2>3, <2>6, Zenon DEF CConstIn
    <3>2. << >> \o CTag(n) = CTag(n) /\ << >> \o <<name[Up(n)]>> = <<name[Up(n)]>>
      <4>1. name[n] \in AllNames /\ name[Up(n)] \in AllNames
        BY <1>3, <1>4, TreeShape DEF Shape, File, Nodes, AllNames
      <4>2. <<name[n]>> \in Seq(AllNames) /\ <<name[Up(n)]>> \in Seq(AllNames) /\ << >> \in Seq(AllNames)
        BY <4>1
      <4>. QED
        BY <4>2 DEF CTag
    <3>3. CASE kind[Up(n)] = "typedef" /\ (name[n] = "" \/ name[n] = name[Up(n)])
      <4>1. Up(n) = k
        BY <1>3, <1>4, <3>3, CInUp, Zenon DEF CVisited
      <4>2. PICK t \in CEmit(k) : /\ t.at = k /\ t.sort = CTypedefSort(k) /\ t.qual = <<name[k]>>
                                  /\ t.parent = << >>
        BY <3>3, <4>1, CTypedefSymbol, Zenon
      <4>3. CTypedefSort(k) = "enum"
        BY <1>3, <1>4, <1>8, <3>3, <4>1, CTypedefOf, Zenon
      <4>4. CEmit(k) \subseteq CType(k)
        BY <1>2, CInUp DEF CIn
      <4>5. P = <<name[k]>>
        BY <3>3, <4>1, Zenon DEF CTag
      <4>. QED
        BY <2>2, <3>2, <3>3, <4>1, <4>2, <4>3, <4>4, <4>5, Zenon
    <3>4. CASE ~(kind[Up(n)] = "typedef" /\ (name[n] = "" \/ name[n] = name[Up(n)]))
      <4>1. name[n] # "" /\ P = CTag(n)
        BY <2>6, <3>4, Zenon DEF CTag
      <4>2. PICK t \in CTypeSym(n, "enum") : /\ t.at = n /\ t.sort = "enum" /\ t.qual = CTag(n)
                                             /\ t.parent = << >>
        BY <3>4, <4>1, CTagSymbol, Zenon
      <4>3. t \in CType(k)
        BY <1>4, <1>8, <2>6, <4>2, Zenon DEF CEmit
      <4>. QED
        BY <1>8, <2>2, <3>2, <4>1, <4>2, <4>3, Zenon
    <3>. QED
      BY <3>3, <3>4, Zenon
  <2>. QED
    BY <2>4, <2>5, <2>6, Zenon
<1>9. \A x \in File : kind[x] # "record" => CParents[x] = {}
  BY CParentsAre, Zenon DEF CParentsStep
<1>10. ASSUME kind[n] = "var" PROVE s.sort = "field" /\ (prof.lang = "c" => CFieldIn(CType(k), s))
  <2>1. PICK q \in CParents[Up(n)] : s = Sym(n, "field", <<name[n]>>, q, {}, {})
    BY <1>1, <1>10 DEF CEmit
  <2>2. s.at = n /\ s.parent = q /\ s.sort = "field"
    BY <2>1 DEF Sym
  <2>3. n # k /\ kind[Up(n)] = "record"
    BY <1>2, <1>4, <1>9, <1>10, <2>1
  <2>4. prof.lang = "c" => \E top : CPathOf(CType(k), top, Up(n), q)
    BY <1>4, <2>1, <2>3, CRecordPaths
  <2>. QED
    BY <1>3, <1>4, <1>10, <2>2, <2>4 DEF CFieldIn
<1>11. ASSUME kind[n] = "inst" PROVE s.sort = "field" /\ (prof.lang = "c" => CFieldIn(CType(k), s))
  <2>1. PICK q \in CParents[Up(Up(n))] : s = Sym(n, "field", <<name[n]>>, q, {}, {})
    BY <1>1, <1>11 DEF CEmit
  <2>2. s.at = n /\ s.parent = q /\ s.sort = "field"
    BY <2>1 DEF Sym
  <2>3. n # k /\ CIn(k, Up(n))
    BY <1>2, <1>4, <1>11
  <2>4. Up(n) # 1 /\ Up(Up(n)) \in File
    BY <2>3, CInUp
  <2>5. kind[Up(Up(n))] = "record"
    BY <1>9, <2>1, <2>4
  <2>6. CIn(k, Up(Up(n)))
    BY <2>3, <2>5, CInUp DEF CVisited
  <2>7. prof.lang = "c" => \E top : CPathOf(CType(k), top, Up(Up(n)), q)
    BY <2>1, <2>4, <2>5, <2>6, CRecordPaths
  <2>. QED
    BY <1>4, <1>11, <2>2, <2>4, <2>7 DEF CFieldIn
<1>12. CASE kind[n] = "typedef"
  <2>1. s.sort = CTypedefSort(n)
    BY <1>1, <1>12 DEF CEmit, Sym
  <2>. QED
    BY <2>1, <1>7 DEF CNamed
<1>13. CASE kind[n] = "record"
  <2>1. s.sort = "class"
    BY <1>1, <1>5, <1>13 DEF CEmit
  <2>. QED
    BY <2>1 DEF CNamed
<1>14. CASE kind[n] = "enum"
  <2>1. s.sort \in {"enum", "const"}
    BY <1>1, <1>5, <1>6, <1>14 DEF CEmit
  <2>. QED
    BY <2>1, <1>8, <1>14 DEF CNamed
<1>15. kind[n] \in {"typedef", "record", "enum", "var", "inst"}
  BY <1>1 DEF CEmit
<1>. QED
  BY <1>10, <1>11, <1>12, <1>13, <1>14, <1>15 DEF CNamed

-----------------------------------------------------------------------------
\* The constants of a class.
LEMMA CConstMore ==
  ASSUME NEW A, NEW B, A \subseteq B, NEW s, CConstIn(A, s)
  PROVE  CConstIn(B, s)
BY Zenon DEF CConstIn

LEMMA CMemberConsts ==
  ASSUME Shape, NEW n \in File, kind[n] = "class", NEW k \in Kids(n), kind[k] # "class",
         NEW s \in CppMember(k, CppPath(n)), s.sort = "const"
  PROVE  CConstIn(CppMember(k, CppPath(n)), s)
<1>1. k \in File /\ Up(k) = n
  BY CKid
<1>2. \A owner, marks : CppFunc(k, owner, marks).sort # "const"
  BY DEF CppFunc, Sym
<1>3. kind[k] = "enum"
  <2>1. kind[k] \in {"fn", "proto", "friend", "enum", "var"}
    BY DEF CppMember
  <2>2. kind[k] = "fn" => s = CppFunc(k, CppPath(n), {CppSection(k)})
    BY DEF CppMember
  <2>3. kind[k] = "proto" => s = CppFunc(k, CppPath(n), {CppSection(k), "declaration"})
    BY DEF CppMember
  <2>4. kind[k] = "friend" => s = CppFunc(k, << >>, {"friend"})
    BY DEF CppMember
  <2>5. kind[k] = "var" => s.sort = "field"
    BY DEF CppMember, Sym
  <2>. QED
    BY <1>2, <2>1, <2>2, <2>3, <2>4, <2>5
<1>4. CppMember(k, CppPath(n)) = CppEnum(k, CppPath(n))
  BY <1>3 DEF CppMember
<1>5. \A parent, marks : \A r \in CEnumMembers(k, parent, marks) : r.at \in Kids(k) /\ r.parent = parent
  BY DEF CEnumMembers, Sym
<1>6. \A i \in Kids(k) : Up(i) = k
  BY <1>1, CKid
<1>7. CASE name[k] = ""
  <2>1. s \in CEnumMembers(k, CppPath(n), {CppSection(k)})
    BY <1>4, <1>7, Zenon DEF CppEnum
  <2>2. Up(s.at) = k /\ s.parent = CppPath(n)
    BY <1>5, <1>6, <2>1
  <2>. QED
    BY <1>1, <1>7, <2>2, Zenon DEF CConstIn
<1>8. CASE name[k] # ""
  <2> DEFINE t == Sym(k, "enum", <<name[k]>>, CppPath(n), {}, {CppSection(k)})
  <2>1. t.at = k /\ t.sort = "enum" /\ t.parent = CppPath(n) /\ t.qual = <<name[k]>>
    BY DEF Sym
  <2>2. CppEnum(k, CppPath(n)) = {t} \cup CEnumMembers(k, QualJoin(CppPath(n), name[k]), {CppSection(k)})
    BY <1>8, Zenon DEF CppEnum
  <2> HIDE DEF t
  <2>3. s \in CEnumMembers(k, QualJoin(CppPath(n), name[k]), {CppSection(k)})
    BY <1>4, <2>1, <2>2
  <2>4. Up(s.at) = k /\ s.parent = QualJoin(CppPath(n), name[k])
    BY <1>5, <1>6, <2>3
  <2>5. t.parent \o t.qual = QualJoin(CppPath(n), name[k])
    <3>1. name[k] \in AllNames
      BY <1>1, TreeShape DEF Shape, File, Nodes, AllNames
    <3>2. CppPath(n) \in Seq(AllNames)
      BY CPathIs
    <3>3. CppPath(n) \o <<name[k]>> = Append(CppPath(n), name[k])
      BY <3>1, <3>2
    <3>. QED
      BY <2>1, <3>3 DEF QualJoin
  <2>6. t \in CppMember(k, CppPath(n))
    BY <1>4, <2>2
  <2>. QED
    BY <1>1, <1>3, <1>8, <2>1, <2>4, <2>5, <2>6, Zenon DEF CConstIn
<1>. QED
  BY <1>7, <1>8, Zenon

LEMMA CClassConsts ==
  ASSUME Shape, NEW n \in File, kind[n] = "class", NEW s \in CppClass[n], s.sort = "const"
  PROVE  CConstIn(CppClass[n], s)
<1> DEFINE Bad(k, r) == r.sort = "const" /\ ~CConstIn(CppClass[k], r)
           T == {k \in File : kind[k] = "class" /\ \E r \in CppClass[k] : Bad(k, r)}
<1>1. IsTree(lev) /\ \A k \in File : k \in Nat /\ k >= 1
  BY TreeShape DEF Shape, File, Nodes
<1> SUFFICES ASSUME T # {} PROVE FALSE
  OBVIOUS
<1>2. PICK d \in T : \A k \in T : k <= d
  <2>1. T \subseteq Nodes(lev)
    BY DEF File
  <2> HIDE DEF T
  <2>. QED
    BY <2>1, <1>1, LastNode
<1>3. d \in File /\ kind[d] = "class"
  OBVIOUS
<1>4. PICK r \in CppClass[d] : Bad(d, r)
  OBVIOUS
<1>5. CppClass[d] = CppClassStep(CppClass, d)
  BY <1>3, CppClassIs
<1>6. PICK k \in Kids(d) : r \in (IF kind[k] = "class" THEN CppClass[k] ELSE CppMember(k, CppPath(d)))
  BY <1>4, <1>5 DEF CppClassStep, Sym
<1>7. CASE kind[k] = "class"
  <2>1. k \in File /\ d < k
    BY <1>3, CKid
  <2>2. CppClass[k] \subseteq CppClass[d]
    BY <1>5, <1>7 DEF CppClassStep
  <2>3. Bad(k, r)
    BY <1>4, <2>2, CConstMore
  <2>4. k \in T
    BY <2>1, <2>3, <1>6, <1>7
  <2> HIDE DEF T
  <2>. QED
    BY <2>1, <2>4, <1>1, <1>2, <1>3
<1>8. CASE kind[k] # "class"
  <2>1. CppMember(k, CppPath(d)) \subseteq CppClass[d]
    BY <1>5, <1>8 DEF CppClassStep
  <2>2. CConstIn(CppMember(k, CppPath(d)), r)
    BY <1>3, <1>4, <1>6, <1>8, CMemberConsts
  <2>. QED
    BY <1>4, <2>1, <2>2, CConstMore
<1>. QED
  BY <1>7, <1>8

-----------------------------------------------------------------------------
(* The regions                                                             *)

AllCNamed(symbols) == \A s \in symbols : CNamed(symbols, s)

LEMMA CDefinitionNamed ==
  ASSUME Shape, Rooted, NGrammar, prof.lang \in {"c", "cpp"}, NEW k \in File
  PROVE  AllCNamed(CppDefinition(k))
<1>1. \A n, owner, marks : CppFunc(n, owner, marks).sort \notin {"const", "field"}
  BY DEF CppFunc, Sym
<1>2. CASE kind[k] \in {"fn", "outfn"}
  <2>1. \A s \in CppDefinition(k) : \E owner : s = CppFunc(k, owner, {})
    BY <1>2 DEF CppDefinition
  <2>. QED
    BY <1>1, <2>1 DEF AllCNamed, CNamed
<1>3. CASE kind[k] = "class"
  <2>1. CppDefinition(k) = CppClass[k]
    BY <1>3 DEF CppDefinition
  <2>2. prof.lang # "c"
    BY <1>3, CHasNoClasses
  <2>. QED
    BY <1>3, <2>1, <2>2, CClassConsts DEF AllCNamed, CNamed
<1>4. CASE kind[k] \notin {"fn", "outfn", "class"}
  BY <1>4 DEF CppDefinition, AllCNamed
<1>. QED
  BY <1>2, <1>3, <1>4

LEMMA CAllMore ==
  ASSUME NEW F, \A A \in F : AllCNamed(A)
  PROVE  AllCNamed(UNION F)
<1> SUFFICES ASSUME NEW A \in F, NEW s \in A PROVE CNamed(UNION F, s)
  BY Zenon DEF AllCNamed
<1>1. CNamed(A, s)
  BY DEF AllCNamed
<1>2. CCovers(A, UNION F) /\ SameNamed(s, s)
  BY DEF CCovers, SameNamed
<1>. QED
  BY <1>1, <1>2, CNamedMore

\* The symbols of what stands in a region, if those of the regions in it are.
LEMMA CDeclNamed ==
  ASSUME Shape, Rooted, NGrammar, prof.lang \in {"c", "cpp"}, NEW d \in File, kind[d] \in CVisited,
         \A m \in File : d < m /\ kind[m] \in CVisited => AllCNamed(CppVisit[m]),
         NEW k \in Kids(d)
  PROVE  AllCNamed(CppDecl(CppVisit, k))
<1>1. k \in File /\ k # 1 /\ Up(k) = d /\ d < k
  BY CKid
<1>2. \A n \in File : n \in Nat
  BY TreeShape DEF Shape, File, Nodes
<1>3. CASE kind[k] \in {"fn", "outfn", "class"}
  <2>1. CppDecl(CppVisit, k) = CppDefinition(k)
    BY <1>3 DEF CppDecl
  <2>. QED
    BY <1>1, <2>1, CDefinitionNamed
<1>4. CASE kind[k] = "tmpl"
  <2> DEFINE F == {CppDefinition(m) : m \in Kids(k)}
  <2>1. CppDecl(CppVisit, k) = UNION F
    BY <1>4 DEF CppDecl
  <2>2. \A m \in Kids(k) : AllCNamed(CppDefinition(m))
    BY <1>1, CKid, CDefinitionNamed
  <2>3. \A A \in F : AllCNamed(A)
    BY <2>2
  <2> HIDE DEF F
  <2>. QED
    BY <2>1, <2>3, CAllMore
<1>5. CASE kind[k] = "proto"
  <2>1. \A s \in CppDecl(CppVisit, k) : s.sort \notin {"const", "field"}
    BY <1>5 DEF CppDecl, CppFunc, Sym
  <2>. QED
    BY <2>1 DEF AllCNamed, CNamed
<1>6. CASE kind[k] = "var"
  <2>1. \A s \in CppDecl(CppVisit, k) : s.sort = "variable"
    BY <1>6 DEF CppDecl, Sym
  <2>. QED
    BY <2>1 DEF AllCNamed, CNamed
<1>7. CASE kind[k] \in {"typedef", "record", "enum"}
  <2>1. CTypeDecl(k)
    BY <1>1, <1>7 DEF CTypeDecl
  <2>2. CppDecl(CppVisit, k) = CType(k)
    BY <1>7 DEF CppDecl
  <2>. QED
    BY <2>1, <2>2, CTypeNamed DEF AllCNamed
<1>8. CASE kind[k] = "ns"
  <2> DEFINE t == Sym(k, "namespace", <<name[k]>>, << >>, {}, {})
             F == {{t}, CppVisit[k]}
  <2>1. t.sort = "namespace"
    BY DEF Sym
  <2>2. CppDecl(CppVisit, k) = {t} \cup CppVisit[k]
    BY <1>8 DEF CppDecl
  <2> HIDE DEF t
  <2>3. AllCNamed({t})
    BY <2>1 DEF AllCNamed, CNamed
  <2>4. AllCNamed(CppVisit[k])
    BY <1>1, <1>8 DEF CVisited
  <2>5. \A A \in F : AllCNamed(A)
    BY <2>3, <2>4
  <2>6. CppDecl(CppVisit, k) = UNION F
    BY <2>2
  <2> HIDE DEF F
  <2>. QED
    BY <2>5, <2>6, CAllMore
<1>9. CASE kind[k] \in {"cond", "alt"}
  <2>1. CppDecl(CppVisit, k) = CppVisit[k]
    BY <1>9 DEF CppDecl
  <2>. QED
    BY <1>1, <1>9, <2>1 DEF CVisited
<1>10. CASE kind[k] = "off"
  <2> DEFINE F == {CppVisit[m] : m \in Kids(k) \cap Of({"alt"})}
  <2>1. CppDecl(CppVisit, k) = UNION F
    BY <1>10 DEF CppDecl
  <2>2. ASSUME NEW m \in Kids(k) \cap Of({"alt"}) PROVE AllCNamed(CppVisit[m])
    <3>1. m \in File /\ k < m /\ kind[m] = "alt"
      BY <1>1, CKid DEF Of
    <3>2. d < m
      BY <1>1, <1>2, <3>1
    <3>. QED
      BY <3>1, <3>2 DEF CVisited
  <2>3. \A A \in F : AllCNamed(A)
    BY <2>2
  <2> HIDE DEF F
  <2>. QED
    BY <2>1, <2>3, CAllMore
<1>11. CASE kind[k] \notin {"fn", "outfn", "class", "tmpl", "proto", "var", "typedef", "record", "enum",
                            "ns", "cond", "alt", "off"}
  BY <1>11 DEF CppDecl, AllCNamed
<1>. QED
  BY <1>3, <1>4, <1>5, <1>6, <1>7, <1>8, <1>9, <1>10, <1>11

LEMMA CVisibleSame ==
  \A s, symbols : CppVisible(s, symbols) = s \/ SameNamed(CppVisible(s, symbols), s)
BY DEF CppVisible, Sym, SameNamed

LEMMA CVisitNamed ==
  ASSUME Shape, Rooted, NGrammar, prof.lang \in {"c", "cpp"}, NEW n \in File, kind[n] \in CVisited
  PROVE  AllCNamed(CppVisit[n])
<1> DEFINE T == {k \in File : kind[k] \in CVisited /\ ~AllCNamed(CppVisit[k])}
<1>1. IsTree(lev) /\ \A k \in File : k \in Nat /\ k >= 1
  BY TreeShape DEF Shape, File, Nodes
<1> SUFFICES ASSUME T # {} PROVE FALSE
  OBVIOUS
<1>2. PICK d \in T : \A k \in T : k <= d
  <2>1. T \subseteq Nodes(lev)
    BY DEF File
  <2> HIDE DEF T
  <2>. QED
    BY <2>1, <1>1, LastNode
<1>3. d \in File /\ kind[d] \in CVisited /\ ~AllCNamed(CppVisit[d])
  OBVIOUS
<1>4. \A m \in File : d < m /\ kind[m] \in CVisited => AllCNamed(CppVisit[m])
  <2> SUFFICES ASSUME NEW m \in File, d < m, m \in T PROVE FALSE
    OBVIOUS
  <2>1. ~(m <= d)
    BY <1>1, <1>3
  <2> HIDE DEF T
  <2>. QED
    BY <2>1, <1>2
<1> HIDE DEF T
<1> DEFINE F == {CppDecl(CppVisit, k) : k \in Kids(d)}
           kept == CppKept(d, UNION F)
<1>5. AllCNamed(UNION F)
  <2>1. \A k \in Kids(d) : AllCNamed(CppDecl(CppVisit, k))
    BY <1>3, <1>4, CDeclNamed
  <2>2. \A A \in F : AllCNamed(A)
    BY <2>1
  <2> HIDE DEF F
  <2>. QED
    BY <2>2, CAllMore
<1>6. CppVisit[d] = IF prof.lang = "cpp" THEN {CppVisible(s, kept) : s \in kept} ELSE kept
  BY <1>3, CppVisitIs, Zenon DEF CppVisitStep
<1>7. kept \subseteq UNION F /\ \A t \in UNION F : kind[t.at] # "proto" => t \in kept
  BY DEF CppKept
<1> HIDE DEF kept, F
<1>8. \A s : SameNamed(CppVisible(s, kept), s)
  BY CVisibleSame DEF SameNamed
<1>9. CCovers(UNION F, CppVisit[d])
  BY <1>6, <1>7, <1>8 DEF CCovers, SameNamed
<1>10. \A v \in CppVisit[d] : \E s \in UNION F : SameNamed(v, s)
  BY <1>6, <1>7, <1>8 DEF SameNamed
<1>11. AllCNamed(CppVisit[d])
  <2> SUFFICES ASSUME NEW v \in CppVisit[d] PROVE CNamed(CppVisit[d], v)
    BY DEF AllCNamed
  <2>1. PICK s \in UNION F : SameNamed(v, s)
    BY <1>10
  <2>2. CNamed(UNION F, s)
    BY <1>5, <2>1 DEF AllCNamed
  <2>. QED
    BY <2>1, <2>2, <1>9, CNamedMore
<1>. QED
  BY <1>3, <1>11

-----------------------------------------------------------------------------
(* Rust: the items that macros displace                                    *)

RustBodied == {"mod", "trait", "struct"} \cup RustImpls

\* The node a is around p, or it, with only macros between.
RustHosts(a, p) ==
  InSubtree(lev, a, p) /\ kind[a] # "macro" /\ \A m \in Way(a, p) : kind[m] = "macro"

LEMMA RustHostIs ==
  ASSUME Shape, NEW p \in File, NEW a \in File, RustHosts(a, p)
  PROVE  RustHost(p) = a
<1>1. \A n \in File : n \in Nat
  BY TreeShape DEF Shape, File, Nodes
<1>2. ASSUME NEW b \in File, RustHosts(b, p), a < b PROVE FALSE
  <2>1. b \in Way(a, p)
    BY <1>1, <1>2 DEF Way, RustHosts, InSubtree
  <2>. QED
    BY <2>1, <1>2 DEF RustHosts
<1>3. ASSUME NEW b \in File, RustHosts(b, p), b < a PROVE FALSE
  <2>1. a \in Way(b, p)
    BY <1>1, <1>3 DEF Way, RustHosts, InSubtree
  <2>. QED
    BY <2>1, <1>3 DEF RustHosts
<1>4. \A b \in File : RustHosts(b, p) => b = a
  BY <1>1, <1>2, <1>3
<1>5. RustHost(p) = CHOOSE b \in File : RustHosts(b, p)
  BY DEF RustHost, RustHosts
<1>. QED
  BY <1>4, <1>5

\* What is around a placed node is placed.
LEMMA RustPlacedUp ==
  ASSUME Shape, NEW n \in File, NEW m \in File, InSubtree(lev, n, m), RustPlaced(m)
  PROVE  RustPlaced(n)
<1> SUFFICES ASSUME NEW d \in RustDisplaced, InSubtree(lev, d, n) PROVE FALSE
  BY DEF RustPlaced
<1>1. d \in File
  BY DEF RustDisplaced, Of
<1>2. InSubtree(lev, d, m)
  BY <1>1, AboveTrans
<1>. QED
  BY <1>2 DEF RustPlaced

\* No placed item with a body has a trait or an impl for a host.
LEMMA RustHostOf ==
  ASSUME Shape, NEW n \in File, n # 1, kind[n] \in RustBodied, RustPlaced(n), NEW a \in File, RustHosts(a, Up(n))
  PROVE  kind[a] \notin RustImpls \cup {"trait"}
<1> SUFFICES ASSUME kind[a] \in RustImpls \cup {"trait"} PROVE FALSE
  OBVIOUS
<1>1. Up(n) \in File
  BY UpIs
<1>2. RustHost(Up(n)) = a
  BY <1>1, RustHostIs
<1>3. n \in RustDisplaced
  BY <1>2 DEF RustDisplaced, RustBodied, Of
<1>4. InSubtree(lev, n, n)
  <2>1. n \in Nat
    BY TreeShape DEF Shape, File, Nodes
  <2>. QED
    BY <2>1 DEF InSubtree
<1>. QED
  BY <1>3, <1>4 DEF RustPlaced

-----------------------------------------------------------------------------
(* Rust: sequences of names and types                                      *)

RustNames == AllNames \X {0, 1}

RustBases(q) == [i \in DOMAIN q |-> RustBase(q[i])]

LEMMA RustNameIs ==
  /\ \A n \in Nat : RustName(n) \in RustNames /\ RustBase(RustName(n)) \in RustNames
  /\ \A n \in Nat : kind[n] # "implpath" => RustBase(RustName(n)) = RustName(n)
  /\ \A e \in RustNames : RustBase(e) \in RustNames /\ RustBase(RustBase(e)) = RustBase(e)
BY DEF RustName, RustBase, RustNames, AllNames

LEMMA RustBasesIs ==
  ASSUME NEW q \in Seq(RustNames)
  PROVE  /\ RustBases(q) \in Seq(RustNames) /\ Len(RustBases(q)) = Len(q)
         /\ \A i \in 1 .. Len(q) : RustBases(q)[i] = RustBase(q[i])
<1>1. \A i \in 1 .. Len(q) : RustBase(q[i]) \in RustNames
  BY RustNameIs
<1>2. RustBases(q) = [i \in 1 .. Len(q) |-> RustBase(q[i])] /\ Len(q) \in Nat
  BY DEF RustBases
<1>. QED
  BY <1>1, <1>2

\* Two sequences are the same if they have the same elements.
LEMMA SameSeq ==
  ASSUME NEW S, NEW a \in Seq(S), NEW b \in Seq(S), Len(a) = Len(b), \A i \in 1 .. Len(a) : a[i] = b[i]
  PROVE  a = b
OBVIOUS

LEMMA ConcatIs ==
  ASSUME NEW S, NEW a \in Seq(S), NEW b \in Seq(S)
  PROVE  /\ a \o b \in Seq(S) /\ Len(a \o b) = Len(a) + Len(b)
         /\ \A i \in 1 .. Len(a) : (a \o b)[i] = a[i]
         /\ \A i \in 1 .. Len(b) : (a \o b)[Len(a) + i] = b[i]
         /\ a \o << >> = a /\ << >> \o a = a
OBVIOUS

LEMMA ConcatThree ==
  ASSUME NEW S, NEW a \in Seq(S), NEW b \in Seq(S), NEW c \in Seq(S)
  PROVE  (a \o b) \o c = a \o (b \o c)
<1> DEFINE l == (a \o b) \o c
           r == a \o (b \o c)
<1>1. /\ l \in Seq(S) /\ r \in Seq(S) /\ Len(l) = Len(a) + Len(b) + Len(c)
      /\ Len(r) = Len(a) + Len(b) + Len(c)
  BY ConcatIs
<1>2. \A i \in 1 .. Len(a) + Len(b) + Len(c) : l[i] = r[i]
  OBVIOUS
<1> HIDE DEF l, r
<1>3. l = r
  BY <1>1, <1>2, SameSeq
<1>. QED
  BY <1>3 DEF l, r

LEMMA RustBasesConcat ==
  ASSUME NEW a \in Seq(RustNames), NEW b \in Seq(RustNames)
  PROVE  RustBases(a \o b) = RustBases(a) \o RustBases(b)
<1> DEFINE l == RustBases(a \o b)
           r == RustBases(a) \o RustBases(b)
<1>1. a \o b \in Seq(RustNames) /\ Len(a \o b) = Len(a) + Len(b) /\ Len(a) \in Nat /\ Len(b) \in Nat
  BY ConcatIs
<1>2. /\ RustBases(a) \in Seq(RustNames) /\ Len(RustBases(a)) = Len(a)
      /\ RustBases(b) \in Seq(RustNames) /\ Len(RustBases(b)) = Len(b)
      /\ l \in Seq(RustNames) /\ Len(l) = Len(a) + Len(b)
  BY <1>1, RustBasesIs, Zenon
<1>3. r \in Seq(RustNames) /\ Len(r) = Len(a) + Len(b)
  BY <1>2, ConcatIs
<1>4. ASSUME NEW i \in 1 .. Len(a) + Len(b) PROVE l[i] = r[i]
  <2>1. l[i] = RustBase((a \o b)[i])
    BY <1>1, RustBasesIs, Zenon
  <2>2. CASE i \in 1 .. Len(a)
    <3>1. (a \o b)[i] = a[i] /\ r[i] = RustBases(a)[i]
      BY <1>2, <2>2, ConcatIs
    <3>. QED
      BY <2>1, <2>2, <3>1, RustBasesIs
  <2>3. CASE i \notin 1 .. Len(a)
    <3>1. i - Len(a) \in 1 .. Len(b) /\ Len(a) + (i - Len(a)) = i
      BY <1>1, <2>3
    <3>2. (a \o b)[i] = b[i - Len(a)] /\ r[i] = RustBases(b)[i - Len(a)]
      BY <1>2, <3>1, ConcatIs
    <3>. QED
      BY <2>1, <3>1, <3>2, RustBasesIs
  <2>. QED
    BY <2>2, <2>3, Zenon
<1> HIDE DEF l, r
<1>5. l = r
  BY <1>2, <1>3, <1>4, SameSeq
<1>. QED
  BY <1>5 DEF l, r

LEMMA RustBasesOne ==
  ASSUME NEW e \in RustNames
  PROVE  /\ RustBases(<<e>>) = <<RustBase(e)>> /\ RustBases(<< >>) = << >>
         /\ <<e>> \in Seq(RustNames) /\ << >> \in Seq(RustNames) /\ Len(<<e>>) = 1
<1>1. <<e>> \in Seq(RustNames) /\ << >> \in Seq(RustNames)
  OBVIOUS
<1>2. RustBases(<<e>>) \in Seq(RustNames) /\ Len(RustBases(<<e>>)) = 1 /\ RustBases(<<e>>)[1] = RustBase(e)
  <2>1. Len(<<e>>) = 1 /\ 1 \in 1 .. Len(<<e>>) /\ <<e>>[1] = e
    OBVIOUS
  <2>2. /\ RustBases(<<e>>) \in Seq(RustNames) /\ Len(RustBases(<<e>>)) = Len(<<e>>)
        /\ \A i \in 1 .. Len(<<e>>) : RustBases(<<e>>)[i] = RustBase(<<e>>[i])
    BY <1>1, RustBasesIs, Zenon
  <2>. QED
    BY <2>1, <2>2
<1>3. RustBases(<< >>) \in Seq(RustNames) /\ Len(RustBases(<< >>)) = 0
  BY <1>1, RustBasesIs, Zenon
<1>. QED
  BY <1>1, <1>2, <1>3

-----------------------------------------------------------------------------
(* Rust: paths and types                                                   *)

\* The path of what stands in a node.
RustIn(n) == IF kind[n] \in RustScopes THEN RustPath(n) \o <<RustBase(RustName(n))>> ELSE RustPath(n)

LEMMA RustPathUp ==
  ASSUME Shape, Rooted
  PROVE  /\ \A n \in File : RustPath(n) \in Seq(RustNames) /\ RustIn(n) \in Seq(RustNames)
         /\ RustPath(1) = << >> /\ RustIn(1) = << >>
         /\ \A n \in File : n # 1 => RustPath(n) = RustIn(Up(n))
<1> DEFINE t == [m \in Nat |-> RustBase(RustName(m))]
<1>1. \A m \in Nat : t[m] \in RustNames
  BY RustNameIs
<1>2. ASSUME NEW n \in File PROVE RustPath(n) = MappedTo(n, RustScopes, t)
  <2>1. NodesTo(n, RustScopes) \in Seq(Nat)
    <3>1. /\ NodesTo(n, RustScopes) = Ordered(Around(n, RustScopes)) /\ IsFiniteSet(Around(n, RustScopes))
          /\ Around(n, RustScopes) \subseteq Nat
      BY NodesToIs
    <3>2. Ordered(Around(n, RustScopes)) \in Seq(Around(n, RustScopes))
      BY <3>1, OrderedIs
    <3>. QED
      BY <3>1, <3>2
  <2> DEFINE s == NodesTo(n, RustScopes)
  <2>2. RustPath(n) = [i \in DOMAIN s |-> RustBase(RustName(s[i]))]
    BY DEF RustPath
  <2>3. MappedTo(n, RustScopes, t) = [i \in DOMAIN s |-> t[s[i]]]
    BY DEF MappedTo
  <2>4. \A i \in DOMAIN s : s[i] \in Nat
    BY <2>1
  <2> HIDE DEF s
  <2>. QED
    BY <2>2, <2>3, <2>4
<1> HIDE DEF t
<1>3. \A n \in File : RustPath(n) \in Seq(RustNames)
  BY <1>1, <1>2, MappedUp, Zenon
<1>4. \A n \in File : n \in Nat /\ 1 \in File
  BY TreeShape DEF Shape, File, Nodes
<1>5. RustPath(1) = << >>
  <2>1. 1 \in File
    BY TreeShape DEF Shape, File, Nodes
  <2>2. MappedTo(1, RustScopes, t) = << >>
    BY <1>1, <2>1, MappedUp, Zenon DEF MappedStep
  <2>. QED
    BY <1>2, <2>1, <2>2
<1>6. RustIn(1) = << >>
  BY <1>5 DEF RustIn, Rooted, RustScopes, RustImpls
<1>7. ASSUME NEW n \in File PROVE RustIn(n) \in Seq(RustNames)
  <2>1. <<RustBase(RustName(n))>> \in Seq(RustNames) /\ RustPath(n) \in Seq(RustNames)
    BY <1>3, <1>4, RustNameIs
  <2>. QED
    BY <2>1, ConcatIs DEF RustIn
<1>8. ASSUME NEW n \in File, n # 1 PROVE RustPath(n) = RustIn(Up(n))
  <2>1. Up(n) \in File /\ Up(n) \in Nat
    BY <1>4, <1>8, UpIs
  <2>5. MappedStep(n, RustScopes, t)
    BY <1>1, MappedUp, Zenon
  <2>2. CASE kind[Up(n)] \notin RustScopes
    <3>1. MappedTo(n, RustScopes, t) = MappedTo(Up(n), RustScopes, t)
      BY <1>8, <2>2, <2>5 DEF MappedStep
    <3>. QED
      BY <1>2, <2>1, <2>2, <3>1 DEF RustIn
  <2>3. CASE kind[Up(n)] \in RustScopes
    <3>1. MappedTo(n, RustScopes, t) = Append(MappedTo(Up(n), RustScopes, t), t[Up(n)])
      BY <1>8, <2>3, <2>5 DEF MappedStep
    <3>2. RustPath(n) = Append(RustPath(Up(n)), t[Up(n)])
      BY <1>2, <2>1, <3>1
    <3>3. t[Up(n)] = RustBase(RustName(Up(n)))
      BY <2>1 DEF t
    <3>4. RustPath(Up(n)) \in Seq(RustNames) /\ RustBase(RustName(Up(n))) \in RustNames
      BY <1>3, <2>1, RustNameIs
    <3>5. Append(RustPath(Up(n)), RustBase(RustName(Up(n)))) = RustPath(Up(n)) \o <<RustBase(RustName(Up(n)))>>
      BY <3>4
    <3>. QED
      BY <2>3, <3>2, <3>3, <3>5 DEF RustIn
  <2>. QED
    BY <2>2, <2>3
<1>. QED
  BY <1>3, <1>5, <1>6, <1>7, <1>8

-----------------------------------------------------------------------------
(* Rust: the type that an item belongs to                                  *)

RustTypeStep(f, n) ==
  IF kind[n] \in RustImpls \cup {"trait"} THEN <<RustName(n)>>
  ELSE IF kind[n] \in {"mod", "macro"} THEN f[Up(n)]
  ELSE << >>

LEMMA RustTypeIs ==
  ASSUME Shape, Rooted
  PROVE  \A n \in File : RustType[n] = RustTypeStep(RustType, n)
<1> DEFINE Defined(g, k) == /\ g = [n \in File |-> g[n]]
                            /\ \A n \in 1 .. k : g[n] = RustTypeStep(g, n)
           T == {k \in 0 .. Len(lev) : ~\E g : Defined(g, k)}
<1>1. Len(lev) \in Nat /\ File = 1 .. Len(lev)
  BY TreeShape DEF Shape, File, Nodes
<1>2. \A n \in File : n # 1 => Up(n) \in File /\ Up(n) < n
  BY UpIs
<1>3. T = {}
  <2> SUFFICES ASSUME T # {} PROVE FALSE
    OBVIOUS
  <2>1. T \subseteq Nat
    BY <1>1
  <2>2. PICK k \in T : \A j \in T : k <= j
    <3> HIDE DEF T
    <3>. QED
      BY <2>1, LeastNat, Zenon
  <2>3. k \in 0 .. Len(lev) /\ ~\E g : Defined(g, k)
    OBVIOUS
  <2>4. k # 0
    <3>1. Defined([n \in File |-> 0], 0)
      OBVIOUS
    <3>. QED
      BY <3>1, <2>3, Zenon
  <2>5. k \in File /\ k - 1 \in 0 .. Len(lev)
    BY <2>3, <2>4, <1>1
  <2>6. k - 1 \notin T
    BY <2>1, <2>2, <2>5
  <2>7. PICK g : Defined(g, k - 1)
    BY <2>5, <2>6
  <2> DEFINE h == [n \in File |-> IF n = k THEN RustTypeStep(g, k) ELSE g[n]]
  <2>8. \A n \in File : n # k => h[n] = g[n]
    OBVIOUS
  <2>9. h[k] = RustTypeStep(g, k)
    BY <2>5
  <2>10. h = [n \in File |-> h[n]]
    OBVIOUS
  <2> HIDE DEF h
  <2>11. \A n \in 1 .. k : RustTypeStep(h, n) = RustTypeStep(g, n)
    <3> SUFFICES ASSUME NEW n \in 1 .. k PROVE RustTypeStep(h, n) = RustTypeStep(g, n)
      OBVIOUS
    <3>1. CASE n = 1
      BY <3>1 DEF RustTypeStep, Rooted
    <3>2. CASE n # 1
      <4>1. Up(n) \in File /\ Up(n) # k
        BY <3>2, <2>5, <1>1, <1>2
      <4>2. h[Up(n)] = g[Up(n)]
        BY <4>1, <2>8
      <4>. QED
        BY <4>2 DEF RustTypeStep
    <3>. QED
      BY <3>1, <3>2
  <2>12. \A n \in 1 .. k : h[n] = RustTypeStep(h, n)
    <3> SUFFICES ASSUME NEW n \in 1 .. k PROVE h[n] = RustTypeStep(h, n)
      OBVIOUS
    <3>1. CASE n = k
      BY <3>1, <2>9, <2>11
    <3>2. CASE n # k
      <4>1. n \in 1 .. k - 1 /\ n \in File
        BY <3>2, <2>5, <1>1
      <4>. QED
        BY <4>1, <3>2, <2>7, <2>8, <2>11
    <3>. QED
      BY <3>1, <3>2
  <2>13. Defined(h, k)
    BY <2>10, <2>12
  <2>. QED
    BY <2>3, <2>13
<1>4. PICK g : Defined(g, Len(lev))
  <2>1. Len(lev) \notin T /\ Len(lev) \in 0 .. Len(lev)
    BY <1>1, <1>3
  <2>. QED
    BY <2>1
<1>5. g = [n \in File |-> RustTypeStep(g, n)]
  BY <1>1, <1>4
<1>6. RustType = [n \in File |-> RustTypeStep(RustType, n)]
  BY <1>5 DEF RustType, RustTypeStep
<1>. QED
  BY <1>6

\* An item belongs to one type, or to none.
LEMMA RustTypeSort ==
  ASSUME Shape, Rooted, NEW n \in File
  PROVE  RustType[n] \in Seq(RustNames) /\ Len(RustType[n]) <= 1
<1> DEFINE Good(k) == RustType[k] \in Seq(RustNames) /\ Len(RustType[k]) <= 1
           T == {k \in File : ~Good(k)}
<1>1. File \subseteq Nat
  BY TreeShape DEF Shape, File, Nodes
<1> SUFFICES ASSUME T # {} PROVE FALSE
  OBVIOUS
<1>2. PICK d \in T : \A k \in T : d <= k
  <2>1. T \subseteq Nat
    BY <1>1, Zenon
  <2> HIDE DEF T
  <2>. QED
    BY <2>1, LeastNat, Zenon
<1>3. d \in File /\ ~Good(d) /\ d \in Nat
  BY <1>1
<1>7. \A k \in File : k < d => Good(k)
  <2>1. \A k \in File : ~Good(k) => d <= k
    BY <1>2
  <2>2. \A k \in File : k \in Nat
    BY <1>1
  <2> HIDE DEF Good, T
  <2>. QED
    BY <2>1, <2>2, <1>3
<1> HIDE DEF T
<1>4. RustType[d] = RustTypeStep(RustType, d)
  BY <1>3, RustTypeIs
<1>5. CASE kind[d] \in {"mod", "macro"}
  <2>1. d # 1
    BY <1>5 DEF Rooted
  <2>2. Up(d) \in File /\ Up(d) < d
    BY <1>3, <2>1, UpIs
  <2>3. Good(Up(d))
    BY <2>2, <1>7
  <2>4. RustType[d] = RustType[Up(d)]
    BY <1>4, <1>5 DEF RustTypeStep, RustImpls
  <2>. QED
    BY <1>3, <2>3, <2>4
<1>6. CASE kind[d] \notin {"mod", "macro"}
  <2>1. RustType[d] = << >> \/ RustType[d] = <<RustName(d)>>
    BY <1>4, <1>6 DEF RustTypeStep
  <2>2. RustName(d) \in RustNames
    BY <1>1, <1>3, RustNameIs
  <2>3. /\ << >> \in Seq(RustNames) /\ Len(<< >>) <= 1
        /\ <<RustName(d)>> \in Seq(RustNames) /\ Len(<<RustName(d)>>) <= 1
    BY <2>2, RustBasesOne
  <2>. QED
    BY <1>3, <2>1, <2>3, Zenon
<1>. QED
  BY <1>5, <1>6

\* What is placed and has a type is in an impl or a trait, with only macros between.
LEMMA RustTyped ==
  ASSUME Shape, Rooted, NEW n \in File, RustPlaced(n), RustType[n] # << >>
  PROVE  \E a \in File : RustHosts(a, n) /\ kind[a] \in RustImpls \cup {"trait"}
<1> DEFINE Good(k) == RustPlaced(k) => RustType[k] = << >> \/ \E a \in File : RustHosts(a, k) /\ kind[a] \in RustImpls \cup {"trait"}
           T == {k \in File : ~Good(k)}
<1>1. File \subseteq Nat
  BY TreeShape DEF Shape, File, Nodes
<1> SUFFICES ASSUME T # {} PROVE FALSE
  OBVIOUS
<1>2. PICK d \in T : \A k \in T : d <= k
  <2>1. T \subseteq Nat
    BY <1>1, Zenon
  <2> HIDE DEF T
  <2>. QED
    BY <2>1, LeastNat
<1>3. d \in File /\ ~Good(d) /\ d \in Nat
  BY <1>1
<1>9. RustPlaced(d)
  BY <1>3
<1>8. \A k \in File : k < d => Good(k)
  <2> SUFFICES ASSUME NEW k \in File, k < d, ~Good(k) PROVE FALSE
    OBVIOUS
  <2>1. d <= k
    BY <1>2
  <2>2. k \in Nat
    BY <1>1
  <2>. QED
    BY <2>1, <2>2, <1>3
<1> HIDE DEF T
<1>4. RustType[d] = RustTypeStep(RustType, d)
  BY <1>3, RustTypeIs
<1>5. CASE kind[d] \in {"mod", "macro"}
  <2>1. d # 1
    BY <1>5 DEF Rooted
  <2>2. Up(d) \in File /\ Up(d) < d /\ IsParent(lev, d, Up(d))
    BY <1>3, <2>1, UpIs
  <2>3. Good(Up(d))
    BY <2>2, <1>8
  <2>4. RustType[d] = RustType[Up(d)]
    BY <1>4, <1>5 DEF RustTypeStep, RustImpls
  <2>5. PICK a \in File : RustHosts(a, Up(d)) /\ kind[a] \in RustImpls \cup {"trait"}
    <3>1. InSubtree(lev, Up(d), d)
      BY <1>3, <2>1, AboveUp DEF Above
    <3>2. RustPlaced(Up(d))
      BY <3>1, <2>2, <1>3, <1>9, RustPlacedUp
    <3>. QED
      BY <3>2, <1>3, <2>3, <2>4
  <2>6. CASE kind[d] = "mod"
    BY <2>1, <2>5, <2>6, <1>3, <1>9, RustHostOf DEF RustBodied
  <2>7. CASE kind[d] = "macro"
    <3>1. InSubtree(lev, a, d) /\ kind[a] # "macro"
      <4>1. InSubtree(lev, a, Up(d)) /\ kind[a] # "macro"
        BY <2>5 DEF RustHosts
      <4>2. InSubtree(lev, Up(d), d)
        BY <1>3, <2>1, AboveUp DEF Above
      <4>. QED
        BY <4>1, <4>2, <1>3, <2>2, AboveTrans, Zenon
    <3>2. ASSUME NEW m \in Way(a, d) PROVE kind[m] = "macro"
      <4>4. m \in a + 1 .. d /\ InSubtree(lev, m, d) /\ a \in Nat
        BY <3>2, <1>1, <2>5 DEF Way
      <4>5. m \in Nat /\ m > a /\ m <= d
        BY <4>4, <1>3
      <4>1. m \in File /\ InSubtree(lev, m, d) /\ m > a /\ m <= d
        BY <4>4, <4>5, <1>3, <2>5, TreeShape DEF Shape, File, Nodes
      <4>2. CASE m = d
        BY <2>7, <4>2
      <4>3. CASE m # d
        <5>1. Above(m, d)
          BY <4>1, <4>3, <4>5, <1>3 DEF Above
        <5>2. m = Up(d) \/ Above(m, Up(d))
          BY <5>1, <1>3, <2>1, AboveUp
        <5>3. m \in Way(a, Up(d))
          BY <4>1, <4>4, <4>5, <5>2, <1>1, <2>2 DEF Way, Above, InSubtree
        <5>. QED
          BY <5>3, <2>5 DEF RustHosts
      <4>. QED
        BY <4>2, <4>3
    <3>3. RustHosts(a, d)
      BY <3>1, <3>2 DEF RustHosts
    <3>. QED
      BY <3>3, <2>5, <1>3
  <2>. QED
    BY <1>5, <2>6, <2>7
<1>6. CASE kind[d] \in RustImpls \cup {"trait"}
  <2>1. RustHosts(d, d)
    BY <1>1, <1>3, <1>6 DEF RustHosts, InSubtree, Way, RustImpls
  <2>. QED
    BY <2>1, <1>3, <1>6
<1>7. CASE kind[d] \notin {"mod", "macro"} \cup RustImpls \cup {"trait"}
  BY <1>3, <1>4, <1>7 DEF RustTypeStep
<1>. QED
  BY <1>5, <1>6, <1>7

\* Placed modules, traits, structs and impls belong to no type.
LEMMA RustTypeless ==
  ASSUME Shape, Rooted, NEW n \in File, n # 1, kind[n] \in RustBodied, RustPlaced(n)
  PROVE  RustType[Up(n)] = << >>
<1>1. Up(n) \in File /\ RustPlaced(Up(n))
  BY UpIs, AboveUp, RustPlacedUp DEF Above
<1> SUFFICES ASSUME RustType[Up(n)] # << >> PROVE FALSE
  OBVIOUS
<1>2. PICK a \in File : RustHosts(a, Up(n)) /\ kind[a] \in RustImpls \cup {"trait"}
  BY <1>1, RustTyped
<1>. QED
  BY <1>1, <1>2, RustHostOf

-----------------------------------------------------------------------------
(* Rust: the names of the symbols that rustVisit finds                     *)

RustHouses == {"fn", "mod"}
RustPlain == {"struct", "trait", "const"}

\* A symbol with no function or module between it and n: under its own name,
\* of the type the path P is.
RustDirect(n, s, P) ==
  /\ \A x \in Around(s.at, RustHouses) : x = n \/ Above(x, n)
  /\ s.qual = <<RustName(s.at)>>
  /\ RustBases(s.parent) = P /\ Len(P) <= 1
  /\ P = << >> => s.sort \in RustPlain \cup {"function", "module"}

\* One with a function or module between: under a path.
RustDeep(s, P) ==
  /\ Around(s.at, RustHouses) # {}
  /\ Len(s.qual) >= 2
  /\ RustBases(s.qual) = P \o <<RustName(s.at)>>
  /\ P # << >>
  /\ s.sort \notin RustPlain => s.parent # << >> /\ RustBase(s.parent[1]) = P[Len(P)]

\* R is the path of what n stands in, without the type that n belongs to.
RustRight(n, s) ==
  /\ kind[s.at] # "implpath"
  /\ s.qual \in Seq(RustNames) /\ s.parent \in Seq(RustNames)
  /\ \A R \in Seq(RustNames) :
       RustIn(n) = R \o RustBases(RustType[n]) =>
         \E P \in Seq(RustNames) : RustPath(s.at) = R \o P /\ (RustDirect(n, s, P) \/ RustDeep(s, P))

RustWell(n, s) == s.at \in File /\ Above(n, s.at) /\ (RustPlaced(s.at) => RustRight(n, s))

LEMMA RustJoin ==
  ASSUME NEW a \in Seq(RustNames), NEW b \in Seq(RustNames)
  PROVE  /\ a \o b \in Seq(RustNames) /\ Len(a \o b) = Len(a) + Len(b) /\ Len(a) \in Int /\ Len(b) \in Int
         /\ RustBases(a \o b) = RustBases(a) \o RustBases(b)
         /\ b # << >> => b[Len(b)] \in RustNames /\ (a \o b)[Len(a \o b)] = b[Len(b)] /\ a \o b # << >>
         /\ b = << >> => a \o b = a
<1>1. a \o b \in Seq(RustNames) /\ Len(a \o b) = Len(a) + Len(b) /\ Len(a) \in Int /\ Len(b) \in Int
  OBVIOUS
<1>2. RustBases(a \o b) = RustBases(a) \o RustBases(b)
  BY RustBasesConcat
<1>3. b # << >> => b[Len(b)] \in RustNames /\ (a \o b)[Len(a \o b)] = b[Len(b)] /\ a \o b # << >>
  <2> SUFFICES ASSUME b # << >>
               PROVE  b[Len(b)] \in RustNames /\ (a \o b)[Len(a \o b)] = b[Len(b)] /\ a \o b # << >>
    OBVIOUS
  <2>1. Len(b) # 0 /\ Len(b) \in 1 .. Len(b)
    BY <1>1
  <2>2. b[Len(b)] \in RustNames /\ (a \o b)[Len(a) + Len(b)] = b[Len(b)]
    BY <2>1
  <2>3. Len(a \o b) # 0
    BY <1>1, <2>1
  <2>. QED
    BY <1>1, <2>2, <2>3
<1>4. b = << >> => a \o b = a
  OBVIOUS
<1>. QED
  BY <1>1, <1>2, <1>3, <1>4

LEMMA RustJoinOne ==
  ASSUME NEW a \in Seq(RustNames), NEW e \in RustNames
  PROVE  /\ a \o <<e>> \in Seq(RustNames) /\ Len(a \o <<e>>) = Len(a) + 1 /\ Len(a) \in Int
         /\ RustBases(a \o <<e>>) = RustBases(a) \o <<RustBase(e)>>
         /\ (a \o <<e>>)[Len(a \o <<e>>)] = e /\ a \o <<e>> # << >>
<1>1. <<e>> \in Seq(RustNames) /\ Len(<<e>>) = 1 /\ RustBases(<<e>>) = <<RustBase(e)>>
  BY RustBasesOne
<1>2. <<e>> # << >> /\ <<e>>[1] = e
  OBVIOUS
<1> DEFINE b == <<e>>
<1>3. b \in Seq(RustNames) /\ Len(b) = 1 /\ RustBases(b) = <<RustBase(e)>> /\ b # << >> /\ b[1] = e
  BY <1>1, <1>2
<1> HIDE DEF b
<1>4. /\ a \o b \in Seq(RustNames) /\ Len(a \o b) = Len(a) + 1 /\ Len(a) \in Int
      /\ RustBases(a \o b) = RustBases(a) \o <<RustBase(e)>>
      /\ (a \o b)[Len(a \o b)] = e /\ a \o b # << >>
  <2>1. /\ a \o b \in Seq(RustNames) /\ Len(a \o b) = Len(a) + Len(b) /\ Len(a) \in Int
        /\ RustBases(a \o b) = RustBases(a) \o RustBases(b)
        /\ b # << >> => (a \o b)[Len(a \o b)] = b[Len(b)] /\ a \o b # << >>
    BY <1>3, RustJoin, Zenon
  <2>. QED
    BY <2>1, <1>3
<1>. QED
  BY <1>4, Zenon DEF b

LEMMA RustJoinThree ==
  ASSUME NEW a \in Seq(RustNames), NEW b \in Seq(RustNames), NEW e \in RustNames
  PROVE  a \o (b \o <<e>>) = (a \o b) \o <<e>>
<1> DEFINE c == <<e>>
<1>1. c \in Seq(RustNames)
  OBVIOUS
<1> HIDE DEF c
<1>2. (a \o b) \o c = a \o (b \o c)
  BY <1>1, ConcatThree
<1>. QED
  BY <1>2 DEF c

\* What rustVisit makes of the symbols in a function or a module.
LEMMA RustWraps ==
  ASSUME Shape, NEW k \in File, kind[k] \in RustHouses, NEW s,
         s.at \in File, Above(k, s.at), kind[s.at] # "implpath",
         s.qual \in Seq(RustNames), s.parent \in Seq(RustNames),
         NEW P \in Seq(RustNames), RustDirect(k, s, P) \/ RustDeep(s, P),
         NEW type \in Seq(RustNames), NEW parented, {"function", "module"} \subseteq parented
  PROVE  LET t == RustScoped(k, type \o <<RustName(k)>>, parented, s) IN
           /\ t.at = s.at /\ t.sort = s.sort /\ t.qual \in Seq(RustNames) /\ t.parent \in Seq(RustNames)
           /\ RustDeep(t, (RustBases(type) \o <<RustBase(RustName(k))>>) \o P)
<1> DEFINE own == RustName(k)
           base == RustBase(own)
           me == RustName(s.at)
           way == RustBases(type) \o <<base>>
           scope == type \o <<own>>
           t == RustScoped(k, scope, parented, s)
           sq == s.qual
           sp == s.parent
           tq == t.qual
           tp == t.parent
<1>1. /\ own \in RustNames /\ base \in RustNames /\ me \in RustNames /\ RustBase(me) = me
      /\ RustBase(base) = base
  <2>1. k \in Nat /\ s.at \in Nat
    BY TreeShape DEF Shape, File, Nodes
  <2>. QED
    BY <2>1, RustNameIs
<1>2. /\ t.at = s.at /\ t.sort = s.sort
      /\ tq = IF sp # << >> /\ Len(sq) = 1 THEN scope \o <<RustBase(sp[1])>> \o sq ELSE scope \o sq
      /\ tp = IF sp = << >> /\ s.sort \in parented THEN <<own>> ELSE sp
  BY DEF RustScoped, RustScopeQualify, Sym
<1>12. Len(sq) \in Int /\ Len(sp) \in Int /\ sq \in Seq(RustNames) /\ sp \in Seq(RustNames)
  OBVIOUS
<1> HIDE DEF own, base, me, t, sq, sp, tq, tp
<1>3. /\ RustBases(type) \in Seq(RustNames) /\ Len(RustBases(type)) = Len(type)
      /\ way \in Seq(RustNames) /\ Len(way) = Len(RustBases(type)) + 1 /\ way[Len(way)] = base
      /\ Len(RustBases(type)) \in Int
  <2>1. RustBases(type) \in Seq(RustNames) /\ Len(RustBases(type)) = Len(type)
    BY RustBasesIs
  <2>3. /\ way \in Seq(RustNames) /\ Len(way) = Len(RustBases(type)) + 1 /\ way[Len(way)] = base
        /\ Len(RustBases(type)) \in Int
    BY <1>1, <2>1, RustJoinOne
  <2>. QED
    BY <2>1, <2>3
<1> HIDE DEF way
<1>4. scope \in Seq(RustNames) /\ RustBases(scope) = way /\ Len(scope) = Len(type) + 1 /\ scope = type \o <<own>>
  <2>1. scope = type \o <<own>>
    OBVIOUS
  <2>2. /\ type \o <<own>> \in Seq(RustNames) /\ Len(type \o <<own>>) = Len(type) + 1
        /\ RustBases(type \o <<own>>) = RustBases(type) \o <<RustBase(own)>>
    BY <1>1, RustJoinOne, Zenon
  <2>3. RustBase(own) = base
    BY DEF base
  <2>4. way = RustBases(type) \o <<base>>
    BY DEF way
  <2>. QED
    BY <2>1, <2>2, <2>3, <2>4, Zenon
<1> HIDE DEF scope
<1>5. tp \in Seq(RustNames)
  <2>1. <<own>> \in Seq(RustNames)
    BY <1>1
  <2>. QED
    BY <1>2, <1>12, <2>1
<1>6. Around(t.at, RustHouses) # {}
  <2>1. k \in Around(s.at, RustHouses)
    BY DEF Around, Of, Above
  <2>. QED
    BY <1>2, <2>1
<1>7. way \o P \in Seq(RustNames) /\ way \o P # << >> /\ Len(way \o P) = Len(way) + Len(P) /\ Len(P) \in Int
  <2>1. way \o P \in Seq(RustNames) /\ Len(way \o P) = Len(way) + Len(P) /\ Len(P) \in Int
    BY <1>3, RustJoin, Zenon
  <2>2. Len(way \o P) # 0
    BY <1>3, <2>1
  <2>. QED
    BY <2>1, <2>2
<1>8. /\ <<me>> \in Seq(RustNames) /\ RustBases(<<me>>) = <<me>> /\ Len(<<me>>) = 1
  BY <1>1, RustBasesOne
<1>9. CASE P = << >> /\ RustDirect(k, s, P)
  <2>1. sq = <<me>> /\ s.sort \in RustPlain \cup {"function", "module"} /\ RustBases(sp) = << >>
    BY <1>9 DEF RustDirect, me, sq, sp
  <2>2. sp = << >>
    <3>1. Len(sp) = Len(RustBases(sp)) /\ Len(<< >>) = 0
      BY <1>12, RustBasesIs
    <3>. QED
      BY <1>12, <2>1, <3>1
  <2>3. tq = scope \o <<me>>
    BY <1>2, <2>1, <2>2
  <2>4. tq \in Seq(RustNames) /\ Len(tq) = Len(scope) + 1 /\ RustBases(tq) = way \o <<me>>
    <3>1. /\ scope \o <<me>> \in Seq(RustNames) /\ Len(scope \o <<me>>) = Len(scope) + 1
          /\ RustBases(scope \o <<me>>) = RustBases(scope) \o <<RustBase(me)>>
      BY <1>1, <1>4, RustJoinOne, Zenon
    <3>. QED
      BY <1>1, <1>4, <2>3, <3>1, Zenon
  <2>5. way \o P = way
    BY <1>3, <1>9, RustJoin
  <2>6. Len(tq) >= 2
    BY <1>3, <1>4, <2>4
  <2>7. s.sort \notin RustPlain => tp # << >> /\ RustBase(tp[1]) = way[Len(way)]
    <3> SUFFICES ASSUME s.sort \notin RustPlain PROVE tp # << >> /\ RustBase(tp[1]) = way[Len(way)]
      OBVIOUS
    <3>1. s.sort \in parented
      BY <2>1
    <3>2. tp = <<own>>
      BY <1>2, <2>2, <3>1
    <3>3. RustBase(own) = base
      BY DEF base
    <3>4. <<own>>[1] = own /\ <<own>> # << >>
      OBVIOUS
    <3>. QED
      BY <3>2, <3>3, <3>4, <1>3
  <2>8. RustDeep(t, way)
    <3>1. RustBases(tq) = way \o <<RustName(t.at)>>
      BY <1>2, <2>4, Zenon DEF me
    <3>. QED
      BY <1>2, <1>6, <1>7, <2>5, <2>6, <2>7, <3>1, Zenon DEF RustDeep, tq, tp
  <2>. QED
    BY <1>2, <1>5, <2>4, <2>5, <2>8, Zenon DEF way, base, own, scope, t, tq, tp
<1>10. CASE P # << >> /\ RustDirect(k, s, P)
  <2>1. sq = <<me>> /\ RustBases(sp) = P /\ Len(P) = 1
    <3>1. sq = <<me>> /\ RustBases(sp) = P /\ Len(P) <= 1
      BY <1>10 DEF RustDirect, me, sq, sp
    <3>2. Len(P) # 0
      BY <1>10
    <3>. QED
      BY <3>1, <3>2, <1>7
  <2>2. Len(sp) = 1 /\ sp # << >> /\ sp[1] \in RustNames /\ P[1] = RustBase(sp[1])
    <3>1. Len(sp) = 1 /\ P[1] = RustBase(sp[1])
      BY <1>12, <2>1, RustBasesIs
    <3>2. sp # << >>
      <4> SUFFICES ASSUME sp = << >> PROVE FALSE
        OBVIOUS
      <4>. QED
        BY <3>1
    <3>3. sp[1] \in RustNames
      <4>1. 1 \in 1 .. Len(sp)
        BY <3>1
      <4>. QED
        BY <4>1, <1>12
    <3>. QED
      BY <3>1, <3>2, <3>3
  <2> DEFINE p == RustBase(sp[1])
  <2>3. P = <<p>> /\ p \in RustNames /\ RustBase(p) = p
    <3>1. p \in RustNames /\ RustBase(p) = p
      BY <2>2, RustNameIs
    <3>2. P[1] = p
      BY <2>2
    <3> HIDE DEF p
    <3>. QED
      BY <3>1, <3>2, <2>1
  <2>4. tq = (scope \o <<p>>) \o <<me>>
    BY <1>2, <1>8, <2>1, <2>2
  <2>5. tp = sp
    BY <1>2, <2>2
  <2>51. RustBase(sp[1]) = p
    OBVIOUS
  <2> HIDE DEF p
  <2>6. <<p>> \in Seq(RustNames) /\ RustBases(<<p>>) = <<p>> /\ Len(<<p>>) = 1
    BY <2>3, RustBasesOne
  <2>7. /\ scope \o <<p>> \in Seq(RustNames) /\ RustBases(scope \o <<p>>) = way \o P
        /\ Len(scope \o <<p>>) = Len(scope) + 1
    <3>1. /\ scope \o <<p>> \in Seq(RustNames) /\ Len(scope \o <<p>>) = Len(scope) + 1
          /\ RustBases(scope \o <<p>>) = RustBases(scope) \o <<RustBase(p)>>
      BY <1>4, <2>3, RustJoinOne, Zenon
    <3>. QED
      BY <1>4, <2>3, <3>1, Zenon
  <2>8. tq \in Seq(RustNames) /\ Len(tq) = Len(scope) + 2 /\ RustBases(tq) = (way \o P) \o <<me>>
    <3> DEFINE w == scope \o <<p>>
    <3>1. w \in Seq(RustNames) /\ RustBases(w) = way \o P /\ Len(w) = Len(scope) + 1 /\ tq = w \o <<me>>
      BY <2>4, <2>7, Zenon
    <3>2. Len(scope) \in Int
      BY <1>4
    <3> HIDE DEF w
    <3>3. /\ w \o <<me>> \in Seq(RustNames) /\ Len(w \o <<me>>) = Len(w) + 1
          /\ RustBases(w \o <<me>>) = RustBases(w) \o <<me>>
      <4>1. me \in RustNames /\ RustBase(me) = me
        BY <1>1
      <4>2. w \in Seq(RustNames)
        BY <3>1
      <4> HIDE DEF me
      <4>3. RustBases(w \o <<me>>) = RustBases(w) \o <<RustBase(me)>>
        BY <4>1, <4>2, RustJoinOne, Zenon
      <4>4. w \o <<me>> \in Seq(RustNames) /\ Len(w \o <<me>>) = Len(w) + 1
        BY <4>1, <4>2, RustJoinOne, Zenon
      <4>. QED
        BY <4>1, <4>3, <4>4
    <3>4. tq \in Seq(RustNames) /\ Len(tq) = Len(w) + 1
      BY <3>1, <3>3
    <3>5. RustBases(tq) = (way \o P) \o <<me>>
      BY <3>1, <3>3, <1>1, Zenon
    <3>6. Len(tq) = Len(scope) + 2
      <4>1. Len(tq) = (Len(scope) + 1) + 1
        BY <3>1, <3>4
      <4> DEFINE i == Len(scope)
      <4>2. i \in Int /\ Len(tq) = (i + 1) + 1
        BY <3>2, <4>1
      <4> HIDE DEF i
      <4>3. Len(tq) = i + 2
        BY <4>2
      <4>. QED
        BY <4>3 DEF i
    <3>. QED
      BY <3>4, <3>5, <3>6
  <2>9. (way \o P)[Len(way \o P)] = p
    <3>1. (way \o P)[Len(way) + 1] = P[1] /\ Len(way \o P) = Len(way) + 1
      BY <1>3, <1>7, <2>1, ConcatIs
    <3>. QED
      BY <3>1, <2>3
  <2>10. RustDeep(t, way \o P)
    <3>1. RustBases(tq) = (way \o P) \o <<RustName(t.at)>>
      BY <1>2, <2>8, Zenon DEF me
    <3>2. Len(tq) >= 2
      BY <1>3, <1>4, <2>8
    <3>. QED
      BY <1>6, <1>7, <2>2, <2>5, <2>51, <2>9, <3>1, <3>2 DEF RustDeep, tq, tp
  <2>. QED
    BY <1>2, <1>5, <2>8, <2>10, Zenon DEF way, base, own, scope, t, tq, tp
<1>11. CASE RustDeep(s, P)
  <2>1. /\ Len(sq) >= 2 /\ RustBases(sq) = P \o <<me>> /\ P # << >>
        /\ s.sort \notin RustPlain => sp # << >> /\ RustBase(sp[1]) = P[Len(P)]
    BY <1>11 DEF RustDeep, me, sq, sp
  <2>2. tq = scope \o sq
    <3>1. Len(sq) # 1
      <4> SUFFICES ASSUME Len(sq) = 1 PROVE FALSE
        OBVIOUS
      <4>. QED
        BY <2>1, <1>12
    <3>. QED
      BY <1>2, <3>1
  <2>3. /\ tq \in Seq(RustNames) /\ Len(tq) = Len(scope) + Len(sq)
        /\ RustBases(tq) = way \o (P \o <<me>>)
    <3>1. /\ scope \o sq \in Seq(RustNames) /\ Len(scope \o sq) = Len(scope) + Len(sq)
          /\ RustBases(scope \o sq) = RustBases(scope) \o RustBases(sq)
      BY <1>4, <1>12, RustJoin, Zenon
    <3>. QED
      BY <1>4, <2>1, <2>2, <3>1, Zenon
  <2>4. way \o (P \o <<me>>) = (way \o P) \o <<me>>
    <3>1. way \in Seq(RustNames) /\ P \in Seq(RustNames) /\ me \in RustNames
      BY <1>1, <1>3
    <3> HIDE DEF me, way
    <3>. QED
      BY <3>1, RustJoinThree, Zenon
  <2>5. Len(tq) >= 2
    BY <1>3, <1>4, <1>12, <2>1, <2>3
  <2>6. (way \o P)[Len(way \o P)] = P[Len(P)]
    <3>1. Len(P) \in 1 .. Len(P)
      BY <1>7, <2>1
    <3>. QED
      BY <3>1, <1>3, <1>7, ConcatIs
  <2>7. s.sort \notin RustPlain => tp # << >> /\ RustBase(tp[1]) = P[Len(P)]
    BY <1>2, <2>1
  <2>8. RustDeep(t, way \o P)
    <3>1. RustBases(tq) = (way \o P) \o <<RustName(t.at)>>
      BY <1>2, <2>3, <2>4, Zenon DEF me
    <3>. QED
      BY <1>2, <1>6, <1>7, <2>5, <2>6, <2>7, <3>1, Zenon DEF RustDeep, tq, tp
  <2>. QED
    BY <1>2, <1>5, <2>3, <2>8, Zenon DEF way, base, own, scope, t, tq, tp
<1>. QED
  BY <1>9, <1>10, <1>11

-----------------------------------------------------------------------------
(* Rust: the names of the symbols of one item                              *)

LEMMA RustBasesNone ==
  RustBases(<< >>) = << >> /\ << >> \in Seq(RustNames)
<1>1. << >> \in Seq(RustNames)
  OBVIOUS
<1>2. RustBases(<< >>) \in Seq(RustNames) /\ Len(RustBases(<< >>)) = 0
  BY <1>1, RustBasesIs, Zenon
<1>. QED
  BY <1>1, <1>2

LEMMA RustJoined ==
  ASSUME NEW a \in Seq(RustNames), NEW b \in Seq(RustNames), NEW c \in Seq(RustNames)
  PROVE  (a \o b) \o c = a \o (b \o c)
BY ConcatThree

LEMMA RustKid ==
  ASSUME Shape, Rooted, NEW d \in File, NEW k \in Kids(d)
  PROVE  /\ k \in File /\ k # 1 /\ Up(k) = d /\ d < k /\ IsParent(lev, k, d) /\ k \in Nat
         /\ \A x : Above(x, k) <=> x = d \/ Above(x, d)
         /\ \A m \in File : Above(k, m) => Above(d, m)
         /\ Above(d, k) /\ RustPath(k) = RustIn(d)
         /\ RustPath(k) \in Seq(RustNames)
<1>1. k \in File /\ IsParent(lev, k, d)
  BY DEF Kids
<1>2. k \in Nat /\ d \in Nat /\ d >= 1 /\ d < k
  BY <1>1, TreeShape DEF Shape, File, Nodes, IsParent
<1>3. k # 1 /\ Up(k) = d
  BY <1>1, <1>2, UpUnique
<1>4. /\ \A x : Above(x, k) <=> x = d \/ Above(x, d)
      /\ Above(d, k)
  BY <1>1, <1>3, AboveUp
<1>5. ASSUME NEW m \in File, Above(k, m) PROVE Above(d, m)
  <2>1. InSubtree(lev, d, k) /\ InSubtree(lev, k, m) /\ k < m
    BY <1>4, <1>5 DEF Above
  <2>2. InSubtree(lev, d, m)
    BY <2>1, <1>1, AboveTrans
  <2>3. m \in Nat
    BY TreeShape DEF Shape, File, Nodes
  <2>. QED
    BY <1>2, <2>1, <2>2, <2>3 DEF Above
<1>6. RustPath(k) = RustIn(d) /\ RustPath(k) \in Seq(RustNames)
  BY <1>1, <1>3, RustPathUp
<1>. QED
  BY <1>1, <1>2, <1>3, <1>4, <1>5, <1>6

\* The symbol of an item itself.
LEMMA RustOwnWell ==
  ASSUME Shape, Rooted, NEW d \in File, NEW k \in Kids(d), kind[k] # "implpath",
         NEW q, q.at = k, q.qual = <<RustName(k)>>, q.parent = RustType[d],
         RustType[d] = << >> => q.sort \in RustPlain \cup {"function", "module"}
  PROVE  RustWell(d, q)
<1> DEFINE type == RustType[d]
<1>1. /\ k \in File /\ k \in Nat /\ Above(d, k) /\ RustPath(k) = RustIn(d)
      /\ \A x : Above(x, k) <=> x = d \/ Above(x, d)
  BY RustKid
<1>2. type \in Seq(RustNames) /\ Len(type) <= 1
  BY RustTypeSort
<1>3. RustName(k) \in RustNames
  BY <1>1, RustNameIs
<1>4. q.qual \in Seq(RustNames) /\ q.parent \in Seq(RustNames)
  BY <1>2, <1>3, RustBasesOne
<1>5. RustBases(type) \in Seq(RustNames) /\ Len(RustBases(type)) <= 1 /\ (RustBases(type) = << >> => type = << >>)
  <2>1. RustBases(type) \in Seq(RustNames) /\ Len(RustBases(type)) = Len(type)
    BY <1>2, RustBasesIs
  <2>2. RustBases(type) = << >> => Len(type) = 0
    BY <2>1
  <2>. QED
    BY <1>2, <2>1, <2>2
<1>6. \A x \in Around(q.at, RustHouses) : x = d \/ Above(x, d)
  <2>1. \A x \in Around(k, RustHouses) : Above(x, k)
    BY DEF Around, Of, Above
  <2>. QED
    BY <1>1, <2>1
<1>7. RustDirect(d, q, RustBases(type))
  BY <1>5, <1>6 DEF RustDirect
<1> HIDE DEF type
<1>8. ASSUME NEW R \in Seq(RustNames), RustIn(d) = R \o RustBases(type)
      PROVE  \E P \in Seq(RustNames) : RustPath(q.at) = R \o P /\ (RustDirect(d, q, P) \/ RustDeep(q, P))
  BY <1>1, <1>5, <1>7, <1>8, Zenon
<1>. QED
  BY <1>1, <1>4, <1>8, Zenon DEF RustWell, RustRight, type

\* A field or variant.
LEMMA RustFieldWell ==
  ASSUME Shape, Rooted, NGrammar, prof.lang = "rust", NEW d \in File, NEW k \in Kids(d), kind[k] = "struct",
         RustPlaced(k),
         NEW f \in Kids(k), NEW q, q.at = f, q.qual = <<RustName(f)>>, q.parent = <<RustName(k)>>
  PROVE  RustWell(d, q)
<1>1. /\ k \in File /\ k # 1 /\ k \in Nat /\ Up(k) = d /\ Above(d, k) /\ RustPath(k) = RustIn(d)
      /\ \A x : Above(x, k) <=> x = d \/ Above(x, d)
      /\ \A m \in File : Above(k, m) => Above(d, m)
  BY RustKid
<1>2. /\ f \in File /\ f \in Nat /\ Above(k, f) /\ RustPath(f) = RustIn(k) /\ IsParent(lev, f, k)
      /\ \A x : Above(x, f) <=> x = k \/ Above(x, k)
  BY <1>1, RustKid
<1>3. kind[f] # "implpath"
  BY <1>1, <1>2 DEF NGrammar, NFits
<1>4. RustName(f) \in RustNames /\ RustName(k) \in RustNames /\ RustBase(RustName(k)) \in RustNames
  BY <1>1, <1>2, RustNameIs
<1> DEFINE P == <<RustBase(RustName(k))>>
<1>5. /\ q.qual \in Seq(RustNames) /\ q.parent \in Seq(RustNames)
      /\ RustBases(q.parent) = P /\ P \in Seq(RustNames) /\ Len(P) = 1
  BY <1>4, RustBasesOne
<1>6. \A x \in Around(q.at, RustHouses) : x = d \/ Above(x, d)
  <2>1. \A x \in Around(f, RustHouses) : Above(x, f) /\ kind[x] \in RustHouses
    BY DEF Around, Of, Above
  <2>2. kind[k] \notin RustHouses
    BY DEF RustHouses
  <2>. QED
    BY <1>1, <1>2, <2>1, <2>2
<1>7. RustPath(f) = RustPath(k) \o P
  BY <1>2 DEF RustIn, RustScopes
<1>8. RustDirect(d, q, P)
  <2>1. P # << >>
    OBVIOUS
  <2> HIDE DEF P
  <2>. QED
    BY <1>5, <1>6, <2>1 DEF RustDirect
<1>9. RustType[d] = << >>
  BY <1>1, RustTypeless DEF RustBodied
<1>10. ASSUME NEW R \in Seq(RustNames), RustIn(d) = R \o RustBases(RustType[d]) PROVE RustPath(f) = R \o P
  <2>1. RustIn(d) = R
    BY <1>9, <1>10, RustBasesNone, RustJoin
  <2>. QED
    BY <1>1, <1>7, <2>1
<1> HIDE DEF P
<1>. QED
  BY <1>1, <1>2, <1>3, <1>5, <1>8, <1>10, Zenon DEF RustWell, RustRight

\* What is in the body of an impl or a trait, or in the text of a macro.
LEMMA RustThroughWell ==
  ASSUME Shape, Rooted, NEW d \in File, NEW k \in Kids(d), RustPlaced(k),
         kind[k] \in {"macro", "trait"} \cup RustImpls, NEW q, RustWell(k, q)
  PROVE  RustWell(d, q)
<1> DEFINE type == RustType[d]
<1>1. /\ k \in File /\ k # 1 /\ k \in Nat /\ Up(k) = d /\ Above(d, k) /\ RustPath(k) = RustIn(d)
      /\ \A x : Above(x, k) <=> x = d \/ Above(x, d)
      /\ \A m \in File : Above(k, m) => Above(d, m)
  BY RustKid
<1>6. q.at \in File /\ Above(d, q.at)
  BY <1>1, Zenon DEF RustWell
<1> SUFFICES ASSUME RustPlaced(q.at) PROVE RustRight(d, q)
  BY <1>6, Zenon DEF RustWell
<1>2. RustRight(k, q)
  BY Zenon DEF RustWell
<1>3. ASSUME NEW R \in Seq(RustNames), RustIn(d) = R \o RustBases(type)
      PROVE  RustIn(k) = R \o RustBases(RustType[k])
  <2>1. CASE kind[k] = "macro"
    <3>1. RustIn(k) = RustPath(k)
      BY <2>1 DEF RustIn, RustScopes, RustImpls
    <3>2. RustType[k] = RustType[d]
      BY <1>1, <2>1, RustTypeIs, Zenon DEF RustTypeStep, RustImpls
    <3>. QED
      BY <1>1, <1>3, <3>1, <3>2
  <2>2. CASE kind[k] # "macro"
    <3>1. type = << >>
      BY <1>1, <2>2, RustTypeless DEF RustBodied
    <3>2. RustIn(d) = R
      BY <1>3, <3>1, RustBasesNone, RustJoin
    <3>3. RustType[k] = <<RustName(k)>>
      BY <1>1, <2>2, RustTypeIs, Zenon DEF RustTypeStep
    <3>4. RustBases(RustType[k]) = <<RustBase(RustName(k))>>
      BY <1>1, <3>3, RustNameIs, RustBasesOne
    <3>5. RustIn(k) = RustPath(k) \o <<RustBase(RustName(k))>>
      BY <2>2 DEF RustIn, RustScopes
    <3>. QED
      BY <1>1, <3>2, <3>4, <3>5
  <2>. QED
    BY <2>1, <2>2
<1>4. ASSUME NEW P, RustDirect(k, q, P) PROVE RustDirect(d, q, P)
  <2>1. kind[k] \notin RustHouses
    BY DEF RustHouses, RustImpls
  <2>2. \A x \in Around(q.at, RustHouses) : kind[x] \in RustHouses
    BY DEF Around, Of
  <2>3. \A x \in Around(q.at, RustHouses) : x = d \/ Above(x, d)
    BY <1>1, <1>4, <2>1, <2>2 DEF RustDirect
  <2>. QED
    BY <1>4, <2>3 DEF RustDirect
<1>5. ASSUME NEW R \in Seq(RustNames), RustIn(d) = R \o RustBases(type)
      PROVE  \E P \in Seq(RustNames) : RustPath(q.at) = R \o P /\ (RustDirect(d, q, P) \/ RustDeep(q, P))
  <2>1. RustIn(k) = R \o RustBases(RustType[k])
    BY <1>3, <1>5, Zenon
  <2>2. PICK P \in Seq(RustNames) : RustPath(q.at) = R \o P /\ (RustDirect(k, q, P) \/ RustDeep(q, P))
    BY <2>1, <1>2, Zenon DEF RustRight
  <2>. QED
    BY <2>2, <1>4, Zenon
<1>. QED
  BY <1>2, <1>5, Zenon DEF RustRight

\* What is in a function or a module.
LEMMA RustWrapWell ==
  ASSUME Shape, Rooted, NEW d \in File, NEW k \in Kids(d), RustPlaced(k),
         kind[k] \in RustHouses, NEW s, RustWell(k, s), NEW parented, {"function", "module"} \subseteq parented
  PROVE  RustWell(d, RustScoped(k, RustType[d] \o <<RustName(k)>>, parented, s))
<1> DEFINE type == RustType[d]
           t == RustScoped(k, type \o <<RustName(k)>>, parented, s)
           base == RustBase(RustName(k))
<1>1. /\ k \in File /\ k # 1 /\ k \in Nat /\ Up(k) = d /\ RustPath(k) = RustIn(d)
      /\ \A m \in File : Above(k, m) => Above(d, m)
      /\ RustPath(k) \in Seq(RustNames)
  BY RustKid
<1>13. s.at \in File /\ Above(k, s.at) /\ Above(d, s.at) /\ t.at = s.at
  BY <1>1 DEF RustWell, RustScoped, Sym
<1> SUFFICES ASSUME RustPlaced(s.at) PROVE RustRight(d, t)
  BY <1>13 DEF RustWell
<1>14. RustRight(k, s)
  BY Zenon DEF RustWell
<1>2. kind[s.at] # "implpath" /\ s.qual \in Seq(RustNames) /\ s.parent \in Seq(RustNames)
  BY <1>14, Zenon DEF RustRight
<1>3. type \in Seq(RustNames) /\ RustBases(type) \in Seq(RustNames)
  BY RustTypeSort, RustBasesIs
<1>4. RustType[k] = << >>
  <2>1. CASE kind[k] = "mod"
    <3>1. RustType[k] = RustType[d]
      BY <1>1, <2>1, RustTypeIs, Zenon DEF RustTypeStep, RustImpls
    <3>. QED
      BY <1>1, <2>1, <3>1, RustTypeless DEF RustBodied
  <2>2. CASE kind[k] = "fn"
    BY <1>1, <2>2, RustTypeIs, Zenon DEF RustTypeStep, RustImpls
  <2>. QED
    BY <2>1, <2>2 DEF RustHouses
<1>5. base \in RustNames
  BY <1>1, RustNameIs
<1>6. RustIn(k) = RustPath(k) \o <<base>> /\ RustIn(k) \in Seq(RustNames)
  BY <1>1, RustPathUp, Zenon DEF RustIn, RustScopes, RustHouses
<1>7. PICK P \in Seq(RustNames) : RustPath(s.at) = RustIn(k) \o P /\ (RustDirect(k, s, P) \/ RustDeep(s, P))
  <2>1. RustIn(k) = RustIn(k) \o RustBases(RustType[k])
    BY <1>4, <1>6, RustBasesNone, RustJoin
  <2>. QED
    BY <1>6, <1>14, <2>1, Zenon DEF RustRight
<1> DEFINE way == RustBases(type) \o <<base>>
<1>8. way \in Seq(RustNames)
  BY <1>3, <1>5, RustJoinOne
<1>9. /\ t.at = s.at /\ t.sort = s.sort /\ t.qual \in Seq(RustNames) /\ t.parent \in Seq(RustNames)
      /\ RustDeep(t, way \o P)
  BY <1>1, <1>2, <1>3, <1>7, <1>13, RustWraps, Zenon
<1>10. way \o P \in Seq(RustNames)
  BY <1>8, RustJoin
<1>11. ASSUME NEW R \in Seq(RustNames), RustIn(d) = R \o RustBases(type)
       PROVE  RustPath(t.at) = R \o (way \o P)
  <2>1. RustIn(k) = (R \o RustBases(type)) \o <<base>>
    BY <1>1, <1>6, <1>11
  <2>2. (R \o RustBases(type)) \o <<base>> = R \o way
    BY <1>3, <1>5, RustJoinThree, Zenon
  <2>3. (R \o way) \o P = R \o (way \o P)
    BY <1>8, RustJoined, Zenon
  <2>. QED
    BY <1>7, <1>9, <2>1, <2>2, <2>3, Zenon
<1> HIDE DEF t, way, base
<1>12. RustRight(d, t)
  BY <1>2, <1>9, <1>10, <1>11, Zenon DEF RustRight
<1>. QED
  BY <1>12 DEF t

-----------------------------------------------------------------------------
(* Rust: the names of the symbols of a file                                *)

LEMMA RustSymIs ==
  ASSUME NEW n, NEW sort, NEW parent, NEW calls
  PROVE  LET s == RustSym(n, sort, parent, calls)
         IN  s.at = n /\ s.sort = sort /\ s.qual = <<RustName(n)>> /\ s.parent = parent
BY DEF RustSym, Sym

\* What a displaced item declares is displaced.
LEMMA RustDisplacedWell ==
  ASSUME Shape, Rooted, NEW d \in File, NEW k \in Kids(d), ~RustPlaced(k),
         \A r \in RustVisit[k] : RustWell(k, r),
         NEW q \in RustItem(RustVisit, RustType[d], k)
  PROVE  RustWell(d, q)
<1>1. /\ k \in File /\ k \in Nat /\ Above(d, k)
      /\ \A m \in File : Above(k, m) => Above(d, m)
  BY RustKid
<1>2. \A r \in RustVisit[k] : r.at \in File /\ Above(k, r.at)
  BY DEF RustWell
<1>3. \A f \in Kids(k) : f \in File /\ Above(k, f)
  BY <1>1, RustKid
<1>4. \/ q.at = k
      \/ \E r \in RustVisit[k] : q.at = r.at
      \/ q.at \in Kids(k)
  BY DEF RustItem, RustFn, RustSym, RustScoped, RustStruct, Sym
<1>5. q.at \in File /\ (q.at = k \/ Above(k, q.at))
  BY <1>1, <1>2, <1>3, <1>4
<1>6. InSubtree(lev, k, q.at)
  BY <1>1, <1>5 DEF Above, InSubtree
<1>7. ~RustPlaced(q.at)
  BY <1>1, <1>5, <1>6, RustPlacedUp
<1>. QED
  BY <1>1, <1>5, <1>7 DEF RustWell

LEMMA RustItemWell ==
  ASSUME Shape, Rooted, NGrammar, prof.lang = "rust", NEW d \in File, NEW k \in Kids(d), RustPlaced(k),
         \A r \in RustVisit[k] : RustWell(k, r),
         NEW q \in RustItem(RustVisit, RustType[d], k)
  PROVE  RustWell(d, q)
<1> DEFINE type == RustType[d]
<1>1. k \in File /\ k # 1 /\ Up(k) = d /\ k \in Nat
  BY RustKid
<1>2. kind[k] \in RustBodied => type = << >>
  BY <1>1, RustTypeless
<1>3. \A sort : (type = << >> => sort \in RustPlain \cup {"function", "module"}) /\ kind[k] # "implpath" =>
        \A calls : RustWell(d, RustSym(k, sort, type, calls))
  <2> SUFFICES ASSUME NEW sort, NEW calls, kind[k] # "implpath",
                      type = << >> => sort \in RustPlain \cup {"function", "module"}
               PROVE  RustWell(d, RustSym(k, sort, type, calls))
    OBVIOUS
  <2> DEFINE s == RustSym(k, sort, type, calls)
  <2>1. s.at = k /\ s.sort = sort /\ s.qual = <<RustName(k)>> /\ s.parent = type
    BY RustSymIs
  <2> HIDE DEF s
  <2>2. RustWell(d, s)
    BY <2>1, RustOwnWell
  <2>. QED
    BY <2>2 DEF s
<1>4. CASE kind[k] = "fn"
  <2>1. RustItem(RustVisit, type, k) =
          {RustFn(k, type)} \cup {RustScoped(k, type \o <<RustName(k)>>, RustSorts, s) : s \in RustVisit[k]}
    BY <1>4 DEF RustItem, RustImpls
  <2>2. RustWell(d, RustFn(k, type))
    <3> DEFINE sort == IF type = << >> THEN "function" ELSE IF name[k] = "new" THEN "constructor" ELSE "method"
    <3>1. RustFn(k, type) = RustSym(k, sort, type, RustCallSites(k))
      BY DEF RustFn
    <3>2. type = << >> => sort \in RustPlain \cup {"function", "module"}
      OBVIOUS
    <3> HIDE DEF sort
    <3>3. kind[k] # "implpath"
      BY <1>4
    <3>4. RustWell(d, RustSym(k, sort, type, RustCallSites(k)))
      BY <1>3, <3>2, <3>3, Zenon
    <3>. QED
      BY <3>1, <3>4, Zenon
  <2>3. \A s \in RustVisit[k] : RustWell(d, RustScoped(k, type \o <<RustName(k)>>, RustSorts, s))
    <3>1. {"function", "module"} \subseteq RustSorts /\ kind[k] \in RustHouses
      BY <1>4 DEF RustSorts, RustHouses
    <3>. QED
      BY <3>1, RustWrapWell
  <2>. QED
    BY <2>1, <2>2, <2>3
<1>5. CASE kind[k] = "mod"
  <2>1. RustItem(RustVisit, type, k) =
          {RustSym(k, "module", << >>, {})}
            \cup {RustScoped(k, <<RustName(k)>>, {"function", "module"}, s) : s \in RustVisit[k]}
    BY <1>5 DEF RustItem, RustImpls
  <2>2. type = << >>
    BY <1>2, <1>5 DEF RustBodied
  <2>3. RustWell(d, RustSym(k, "module", << >>, {}))
    BY <1>3, <1>5, <2>2, Zenon
  <2>4. type \o <<RustName(k)>> = <<RustName(k)>>
    <3>1. RustName(k) \in RustNames
      BY <1>1, RustNameIs
    <3>. QED
      BY <2>2, <3>1
  <2>5. \A s \in RustVisit[k] : RustWell(d, RustScoped(k, type \o <<RustName(k)>>, {"function", "module"}, s))
    <3>1. kind[k] \in RustHouses
      BY <1>5 DEF RustHouses
    <3>. QED
      BY <3>1, RustWrapWell
  <2>6. \A s \in RustVisit[k] : RustWell(d, RustScoped(k, <<RustName(k)>>, {"function", "module"}, s))
    BY <2>4, <2>5, Zenon
  <2>. QED
    BY <2>1, <2>3, <2>6
<1>6. CASE kind[k] \in {"macro", "trait"} \cup RustImpls
  <2>1. \A r \in RustVisit[k] : RustWell(d, r)
    BY <1>6, RustThroughWell
  <2>2. kind[k] # "trait" => RustItem(RustVisit, type, k) \subseteq RustVisit[k]
    BY <1>6 DEF RustItem, RustImpls
  <2>3. kind[k] = "trait" =>
          RustItem(RustVisit, type, k) = {RustSym(k, "trait", << >>, {})} \cup RustVisit[k]
    BY <1>6 DEF RustItem, RustImpls
  <2>4. kind[k] = "trait" => RustWell(d, RustSym(k, "trait", << >>, {}))
    BY <1>2, <1>3 DEF RustBodied, RustPlain
  <2>. QED
    BY <2>1, <2>2, <2>3, <2>4
<1>7. CASE kind[k] = "struct"
  <2>1. RustItem(RustVisit, type, k) = RustStruct(k)
    BY <1>7 DEF RustItem, RustImpls
  <2>2. RustWell(d, RustSym(k, "struct", << >>, {}))
    BY <1>2, <1>3, <1>7 DEF RustBodied, RustPlain
  <2>3. ASSUME NEW f \in Kids(k) PROVE RustWell(d, RustSym(f, "field", <<RustName(k)>>, {}))
    <3> DEFINE s == RustSym(f, "field", <<RustName(k)>>, {})
    <3>1. s.at = f /\ s.qual = <<RustName(f)>> /\ s.parent = <<RustName(k)>>
      BY RustSymIs
    <3> HIDE DEF s
    <3>2. RustWell(d, s)
      BY <1>7, <3>1, RustFieldWell
    <3>. QED
      BY <3>2 DEF s
  <2>. QED
    BY <2>1, <2>2, <2>3 DEF RustStruct
<1>8. CASE kind[k] = "const"
  <2>1. RustItem(RustVisit, type, k) = {RustSym(k, "const", type, {})}
    BY <1>8 DEF RustItem, RustImpls
  <2>2. RustWell(d, RustSym(k, "const", type, {}))
    BY <1>3, <1>8 DEF RustPlain
  <2>. QED
    BY <2>1, <2>2
<1>9. CASE kind[k] = "sig"
  <2>1. type # << >> /\ RustItem(RustVisit, type, k) = {RustSym(k, "method", type, {})}
    BY <1>9 DEF RustItem, RustImpls
  <2>2. RustWell(d, RustSym(k, "method", type, {}))
    BY <1>3, <1>9, <2>1, Zenon
  <2>. QED
    BY <2>1, <2>2
<1>10. CASE kind[k] \notin {"fn", "mod", "macro", "trait", "struct", "const", "sig"} \cup RustImpls
  BY <1>10 DEF RustItem, RustImpls
<1>. QED
  BY <1>4, <1>5, <1>6, <1>7, <1>8, <1>9, <1>10

LEMMA RustVisitWell ==
  ASSUME Shape, Rooted, NGrammar, prof.lang = "rust", NEW n \in File, NEW s \in RustVisit[n]
  PROVE  RustWell(n, s)
<1> DEFINE T == {k \in File : \E r \in RustVisit[k] : ~RustWell(k, r)}
<1>1. IsTree(lev) /\ \A k \in File : k \in Nat /\ k >= 1
  BY TreeShape DEF Shape, File, Nodes
<1> SUFFICES ASSUME T # {} PROVE FALSE
  OBVIOUS
<1>2. PICK d \in T : \A k \in T : k <= d
  <2>1. T \subseteq Nodes(lev)
    BY DEF File
  <2> HIDE DEF T
  <2>. QED
    BY <2>1, <1>1, LastNode
<1>3. d \in File
  OBVIOUS
<1>4. PICK q \in RustVisit[d] : ~RustWell(d, q)
  OBVIOUS
<1>5. PICK k \in Kids(d) : q \in RustItem(RustVisit, RustType[d], k)
  BY <1>3, <1>4, RustVisitIs DEF RustVisitStep
<1>6. k \in File /\ d < k
  BY <1>3, RustKid
<1>7. k \notin T
  <2> HIDE DEF T
  <2>. QED
    BY <1>1, <1>2, <1>3, <1>6
<1>8. \A r \in RustVisit[k] : RustWell(k, r)
  BY <1>6, <1>7
<1>. QED
  BY <1>3, <1>4, <1>5, <1>8, RustItemWell, RustDisplacedWell

\* The names of a Rust file.
RustNamed(symbols) ==
  \A s \in {s \in symbols : RustPlaced(s.at)} :
    /\ [i \in DOMAIN s.qual |-> RustBase(s.qual[i])] =
         IF Around(s.at, RustHouses) = {} THEN <<RustName(s.at)>> ELSE QualJoin(RustPath(s.at), RustName(s.at))
    /\ s.sort \notin RustPlain /\ RustPath(s.at) # << >> =>
         s.parent # << >> /\ RustBase(s.parent[1]) = RustPath(s.at)[Len(RustPath(s.at))]

LEMMA RustNames1 ==
  ASSUME Shape, Rooted, NGrammar, prof.lang = "rust"
  PROVE  RustNamed(RustVisit[1])
<1>1. 1 \in File /\ kind[1] = "file" /\ \A x \in File : x \in Nat /\ x >= 1
  BY TreeShape DEF Shape, Rooted, File, Nodes
<1>2. RustType[1] = << >>
  BY <1>1, RustTypeIs, Zenon DEF RustTypeStep, RustImpls
<1>3. RustIn(1) = << >> \o RustBases(RustType[1]) /\ << >> \in Seq(RustNames)
  <2>1. RustIn(1) = << >>
    BY RustPathUp
  <2>. QED
    BY <1>2, <2>1, RustBasesNone, RustJoin
<1> SUFFICES ASSUME NEW s \in RustVisit[1], RustPlaced(s.at)
             PROVE  /\ RustBases(s.qual) = IF Around(s.at, RustHouses) = {} THEN <<RustName(s.at)>>
                                           ELSE QualJoin(RustPath(s.at), RustName(s.at))
                    /\ s.sort \notin RustPlain /\ RustPath(s.at) # << >> =>
                         s.parent # << >> /\ RustBase(s.parent[1]) = RustPath(s.at)[Len(RustPath(s.at))]
  BY Zenon DEF RustNamed, RustBases
<1>4. s.at \in File /\ RustRight(1, s)
  BY <1>1, RustVisitWell DEF RustWell
<1>5. PICK P \in Seq(RustNames) : RustPath(s.at) = << >> \o P /\ (RustDirect(1, s, P) \/ RustDeep(s, P))
  BY <1>3, <1>4, Zenon DEF RustRight
<1>6. RustPath(s.at) = P
  <2>1. << >> \o P = P
    OBVIOUS
  <2>. QED
    BY <1>5, <2>1
<1> DEFINE me == RustName(s.at)
<1>7. me \in RustNames /\ RustBase(me) = me
  BY <1>1, <1>4, RustNameIs DEF RustRight
<1>8. CASE RustDirect(1, s, P)
  <2>1. Around(s.at, RustHouses) = {}
    <3>1. \A x \in Around(s.at, RustHouses) : x \in File /\ kind[x] \in RustHouses /\ (x = 1 \/ Above(x, 1))
      BY <1>8 DEF RustDirect, Around, Of
    <3>2. \A x : ~Above(x, 1)
      BY <1>1 DEF Above
    <3>. QED
      BY <1>1, <3>1, <3>2 DEF RustHouses
  <2>2. RustBases(s.qual) = <<me>>
    BY <1>7, <1>8, RustBasesOne DEF RustDirect
  <2>3. P # << >> => s.parent # << >> /\ RustBase(s.parent[1]) = P[Len(P)]
    <3> DEFINE p == s.parent
    <3>1. p \in Seq(RustNames) /\ RustBases(p) = P /\ Len(P) <= 1
      BY <1>4, <1>8 DEF RustRight, RustDirect
    <3> HIDE DEF p
    <3>2. /\ Len(RustBases(p)) = Len(p) /\ Len(p) \in Int
          /\ \A i \in 1 .. Len(p) : RustBases(p)[i] = RustBase(p[i])
      BY <3>1, RustBasesIs
    <3>3. ASSUME P # << >> PROVE p # << >> /\ RustBase(p[1]) = P[Len(P)]
      <4>1. Len(p) # 0
        BY <3>1, <3>2, <3>3
      <4>2. Len(p) = 1
        BY <3>1, <3>2, <4>1
      <4>3. P[1] = RustBase(p[1]) /\ Len(P) = 1
        BY <3>1, <3>2, <4>2
      <4>4. p # << >>
        <5> SUFFICES ASSUME p = << >> PROVE FALSE
          OBVIOUS
        <5>. QED
          BY <4>2
      <4>. QED
        BY <4>3, <4>4
    <3>. QED
      BY <3>3 DEF p
  <2>. QED
    BY <1>6, <2>1, <2>2, <2>3
<1>9. CASE RustDeep(s, P)
  <2>1. P \o <<me>> = Append(P, me)
    BY <1>7
  <2>. QED
    BY <1>6, <1>9, <2>1 DEF RustDeep, QualJoin
<1>. QED
  BY <1>5, <1>8, <1>9

\* rustImplTraits changes no name.
LEMMA RustTraitsNamed ==
  ASSUME NEW symbols, RustNamed(symbols), NEW more,
         \A s \in more : \E r \in symbols : s.at = r.at /\ s.sort = r.sort /\ s.qual = r.qual /\ s.parent = r.parent
  PROVE  RustNamed(more)
<1> SUFFICES ASSUME NEW s \in more, RustPlaced(s.at)
             PROVE  /\ RustBases(s.qual) = IF Around(s.at, RustHouses) = {} THEN <<RustName(s.at)>>
                                           ELSE QualJoin(RustPath(s.at), RustName(s.at))
                    /\ s.sort \notin RustPlain /\ RustPath(s.at) # << >> =>
                         s.parent # << >> /\ RustBase(s.parent[1]) = RustPath(s.at)[Len(RustPath(s.at))]
  BY Zenon DEF RustNamed, RustBases
<1>1. PICK r \in symbols : s.at = r.at /\ s.sort = r.sort /\ s.qual = r.qual /\ s.parent = r.parent
  OBVIOUS
<1>2. /\ RustBases(r.qual) = IF Around(r.at, RustHouses) = {} THEN <<RustName(r.at)>>
                             ELSE QualJoin(RustPath(r.at), RustName(r.at))
      /\ r.sort \notin RustPlain /\ RustPath(r.at) # << >> =>
           r.parent # << >> /\ RustBase(r.parent[1]) = RustPath(r.at)[Len(RustPath(r.at))]
  BY <1>1 DEF RustNamed, RustBases
<1>. QED
  BY <1>1, <1>2

-----------------------------------------------------------------------------
(* The names of a finished file                                            *)

GoMethodsNamed(symbols) ==
  \A s \in symbols : kind[s.at] = "method" => s.parent = <<name[GoReceiverType(s.at)]>>

\* NamedAfterItsParent, of a list of symbols.
WellNamed(symbols) ==
  /\ prof.lang \in {"csharp", "kotlin", "swift"} => NamedByType(symbols)
  /\ prof.lang = "go" => GoMethodsNamed(symbols)
  /\ prof.lang = "objc" => ObjcNamed(symbols)
  /\ prof.lang = "php" => PhpNamed(symbols)
  /\ prof.lang = "java" => JavaNamed(symbols)
  /\ prof.lang = "python" => ChainNamed(symbols)
  /\ prof.lang \in {"c", "cpp"} => AllCNamed(symbols)
  /\ prof.lang = "rust" => RustNamed(symbols)

NamedLanguages == {"csharp", "kotlin", "swift", "go", "java", "objc", "php", "python", "c", "cpp", "rust"}

\* What the names are compared with does not change while the file does not.
LEMMA SameNames ==
  ASSUME UNCHANGED fileVars
  PROVE  /\ \A n : TypePath(n)' = TypePath(n)
         /\ \A n : GoReceiverType(n)' = GoReceiverType(n)
         /\ \A n : Up(n)' = Up(n)
         /\ \A n : PhpAround(n)' = PhpAround(n)
         /\ \A n : Under(n)' = Under(n)
         /\ \A n, K : Around(n, K)' = Around(n, K)
         /\ \A n : RustPath(n)' = RustPath(n)
         /\ \A n : RustPlaced(n)' <=> RustPlaced(n)
<1>1. prof' = prof /\ lev' = lev /\ kind' = kind /\ name' = name
  BY DEF fileVars
<1>2. File' = File /\ \A K : Of(K)' = Of(K)
  BY SameFile
<1>3. \A n, K : Around(n, K)' = Around(n, K)
  BY <1>1, <1>2 DEF Around
<1>4. ASSUME NEW n, NEW K PROVE NodesTo(n, K)' = NodesTo(n, K)
  <2> DEFINE scopes == Around(n, K)
  <2>1. scopes' = scopes
    BY <1>3
  <2>2. NodesTo(n, K) = [i \in 1 .. Cardinality(scopes) |->
                           CHOOSE m \in scopes : Cardinality({k \in scopes : k <= m}) = i]
    BY DEF NodesTo
  <2>3. NodesTo(n, K)' = [i \in 1 .. Cardinality(scopes) |->
                            CHOOSE m \in scopes : Cardinality({k \in scopes : k <= m}) = i]'
    BY DEF NodesTo
  <2> HIDE DEF scopes
  <2>. QED
    BY <2>1, <2>2, <2>3
<1>5. \A n : TypePath(n)' = TypePath(n)
  BY <1>1, <1>4 DEF TypePath
<1>6. ASSUME NEW n PROVE GoReceiverType(n)' = GoReceiverType(n)
  <2>1. Of({"tid"})' = Of({"tid"}) /\ Of({"targs"})' = Of({"targs"})
    BY <1>2
  <2>2. \A t : Way(n, t)' = Way(n, t)
    BY <1>1 DEF Way
  <2>. QED
    BY <1>1, <2>1, <2>2 DEF GoReceiverType
<1>7. \A n : Up(n)' = Up(n)
  BY <1>1, <1>2 DEF Up
<1>8. \A n : Under(n)' = Under(n)
  BY <1>1 DEF Under
<1>9. \A n : PhpBody(n)' = PhpBody(n)
  BY <1>1, <1>2, <1>7, <1>8 DEF PhpBody
<1>10. \A n : PhpAround(n)' = PhpAround(n)
  BY <1>2, <1>9 DEF PhpAround
<1>11. \A n : RustPath(n)' = RustPath(n)
  <2>1. \A n : RustName(n)' = RustName(n)
    BY <1>1 DEF RustName
  <2>2. RustScopes' = RustScopes
    BY DEF RustScopes, RustImpls
  <2>. QED
    BY <1>4, <2>1, <2>2 DEF RustPath, RustBase
<1>12. \A n : RustPlaced(n)' <=> RustPlaced(n)
  <2>1. \A n : RustHost(n)' = RustHost(n)
    <3>1. \A m, n : Way(m, n)' = Way(m, n)
      BY <1>1 DEF Way
    <3>. QED
      BY <3>1, <1>1, <1>2, Zenon DEF RustHost
  <2>2. RustDisplaced' = RustDisplaced
    BY <2>1, <1>1, <1>2, <1>7 DEF RustDisplaced, RustImpls
  <2>. QED
    BY <2>2, <1>1 DEF RustPlaced
<1>. QED
  BY <1>3, <1>5, <1>6, <1>7, <1>8, <1>10, <1>11, <1>12

LEMMA SameCNames ==
  ASSUME UNCHANGED fileVars
  PROVE  /\ \A n : CppPath(n)' = CppPath(n)
         /\ \A n : CTag(n)' = CTag(n)
         /\ \A m, n : Above(m, n)' <=> Above(m, n)
         /\ \A r : CRecords(r)' = CRecords(r)
         /\ \A r : CHasName(r)' <=> CHasName(r)
         /\ \A t, r : CInner(t, r)' = CInner(t, r)
         /\ AllNames' = AllNames
<1>1. prof' = prof /\ lev' = lev /\ kind' = kind /\ name' = name
  BY DEF fileVars
<1>2. File' = File /\ \A K : Of(K)' = Of(K)
  BY SameFile
<1>3. \A n : Up(n)' = Up(n)
  BY <1>1, <1>2 DEF Up
<1>4. \A n : Kids(n)' = Kids(n)
  BY <1>1, <1>2 DEF Kids
<1>5. CppOwner' = CppOwner
  BY <1>1, <1>2, <1>3, Zenon DEF CppOwner, QualJoin
<1>6. \A n : CppPath(n)' = CppPath(n)
  BY <1>1, <1>5 DEF CppPath, QualJoin
<1>7. \A n : CTag(n)' = CTag(n)
  BY <1>1 DEF CTag
<1>8. \A m, n : Above(m, n)' <=> Above(m, n)
  BY <1>1, <1>2 DEF Above
<1>9. \A r : CRecords(r)' = CRecords(r)
  BY <1>2, <1>8 DEF CRecords
<1>10. \A r : CHasName(r)' <=> CHasName(r)
  BY <1>1, <1>3, Zenon DEF CHasName
<1>11. \A t, r : CInner(t, r)' = CInner(t, r)
  BY <1>2, <1>4, <1>9 DEF CInner
<1>12. AllNames' = AllNames
  BY <1>1 DEF AllNames
<1>. QED
  BY <1>6, <1>7, <1>8, <1>9, <1>10, <1>11, <1>12

\* A pass leaves well-named symbols.
LEMMA PassesName ==
  ASSUME IInv, NGrammar, PhpSpillKinds, pass # "parse" => WellNamed(out), Next, pass' # "parse"
  PROVE  UNCHANGED fileVars /\ WellNamed(out')
<1>1. Shape /\ Rooted
  BY DEF IInv
<1>2. \A from, to, symbols : Pass(from, to, symbols) =>
        UNCHANGED fileVars /\ pass = from /\ pass' = to /\ out' = symbols
  BY DEF Pass
<1>3. \A l, k : ~Grow(l, k)
  BY DEF Grow
<1>4. UNCHANGED fileVars
  BY <1>1, <1>3, ParsesOrPasses
<1>5. prof.lang \notin NamedLanguages => WellNamed(out')
  BY DEF WellNamed, NamedLanguages
<1>6. CppNext => WellNamed(out')
  <2> SUFFICES ASSUME ExtractCNodes PROVE WellNamed(out')
    BY <1>3 DEF CppNext, CppFile
  <2>1. prof.lang \in {"c", "cpp"} /\ out' = CppVisit[1]
    BY <1>2 DEF ExtractCNodes
  <2>2. 1 \in File /\ kind[1] \in CVisited
    BY <1>1, TreeShape DEF Shape, Rooted, File, Nodes, CVisited
  <2>. QED
    BY <2>1, <2>2, <1>1, CVisitNamed DEF WellNamed
<1>7. CsNext => WellNamed(out')
  BY <1>1, <1>2, <1>3, CsNames DEF CsNext, CsFile, ExtractCSharpNodes, WellNamed
<1>8. GoNext => WellNamed(out')
  <2> SUFFICES ASSUME GoNext PROVE WellNamed(out')
    OBVIOUS
  <2>1. GoExtract
    BY <1>3 DEF GoNext, GoFile
  <2>2. prof.lang = "go" /\ GoWhole /\ out' = UNION {ExtractGoNodes(n) : n \in Kids(1)}
    BY <2>1, <1>2 DEF GoExtract
  <2>3. GoGrammar
    BY <2>2 DEF IInv, GoShape
  <2>. QED
    BY <2>2, <2>3, <1>1, GoNamed DEF WellNamed, GoMethodsNamed
<1>9. JavaNext => WellNamed(out')
  <2>1. JavaVisitFile => WellNamed(out')
    BY <1>1, <1>2, JavaNames DEF JavaVisitFile, WellNamed
  <2>2. JavaReattachOrphans => WellNamed(out')
    <3> SUFFICES ASSUME JavaReattachOrphans PROVE WellNamed(out')
      OBVIOUS
    <3>1. prof.lang = "java" /\ pass # "parse" /\ out' = {JavaReattached(s) : s \in out}
      BY <1>2 DEF JavaReattachOrphans, Pass
    <3>2. JavaNamed(out)
      BY <3>1 DEF WellNamed
    <3>. QED
      BY <3>1, <3>2, JavaReattachNames DEF WellNamed
  <2>. QED
    BY <1>3, <2>1, <2>2 DEF JavaNext, JavaFile
<1>10. JsNext => WellNamed(out')
  BY <1>3, <1>5 DEF JsNext, JsFile, JsVisit, JsLocalFunctions, JsDedupe, JsExports, NamedLanguages
<1>11. KotlinNext => WellNamed(out')
  BY <1>1, <1>2, <1>3, KtNames DEF KotlinNext, KtFile, ExtractKotlinNodes, WellNamed
<1>12. ObjcNext => WellNamed(out')
  <2>1. ExtractObjCNodes => WellNamed(out')
    BY <1>1, <1>2, ObjcNames DEF ExtractObjCNodes, WellNamed
  <2>2. ASSUME prof.lang = "objc", pass # "parse" PROVE ObjcNamed(out)
    BY <2>2 DEF WellNamed
  <2>3. ObjcBlockTypedefs => WellNamed(out')
    BY <1>2, <2>2, ObjcBlocksNamed DEF ObjcBlockTypedefs, WellNamed
  <2>4. ObjcMacroEnums => WellNamed(out')
    BY <1>1, <1>2, <2>2, ObjcEnumsNamed DEF ObjcMacroEnums, WellNamed
  <2>. QED
    BY <1>3, <2>1, <2>3, <2>4 DEF ObjcNext, ObjcFile
<1>13. PhpNext => WellNamed(out')
  BY <1>1, <1>2, <1>3, PhpNames DEF PhpNext, PhpFile, ExtractPHPNodes, WellNamed
<1>14. PyNext => WellNamed(out')
  <2>1. PyVisit => WellNamed(out')
    BY <1>1, <1>2, PyNames DEF PyVisit, WellNamed
  <2>2. ASSUME prof.lang = "python", pass # "parse" PROVE ChainNamed(out)
    BY <2>2 DEF WellNamed
  <2>3. PyModuleAssignments => WellNamed(out')
    <3> SUFFICES ASSUME PyModuleAssignments PROVE WellNamed(out')
      OBVIOUS
    <3>1. PICK some : out' = out \cup {MemberOf(a, "variable", << >>, {}, {"module-value"}) : a \in some}
      BY <1>2, Zenon DEF PyModuleAssignments
    <3>2. \A a : LET s == MemberOf(a, "variable", << >>, {}, {"module-value"})
                 IN  s.parent = << >> /\ Len(s.qual) = 1
      BY DEF MemberOf, Sym, QualJoin, QualLast
    <3>3. prof.lang = "python" /\ pass # "parse"
      BY DEF PyModuleAssignments, Pass
    <3> DEFINE more == {MemberOf(a, "variable", << >>, {}, {"module-value"}) : a \in some}
    <3>4. \A s \in more : s.parent = << >> /\ Len(s.qual) = 1
      BY <3>2
    <3> HIDE DEF more
    <3>5. ChainNamed(out \cup more)
      BY <2>2, <3>3, <3>4, PyMoreNamed
    <3>6. out' = out \cup more
      BY <3>1 DEF more
    <3>. QED
      BY <3>3, <3>5, <3>6 DEF WellNamed
  <2>4. PyTopLevel => WellNamed(out')
    <3> SUFFICES ASSUME PyTopLevel PROVE WellNamed(out')
      OBVIOUS
    <3> DEFINE s == Sym(1, "function", <<"<top-level>">>, << >>, PyCallSites(1), {})
    <3>1. s.parent = << >> /\ Len(s.qual) = 1
      BY DEF Sym
    <3>2. prof.lang = "python" /\ pass # "parse"
      BY DEF PyTopLevel, Pass
    <3>3. out' = out \/ out' = out \cup {s}
      BY <1>2 DEF PyTopLevel
    <3> HIDE DEF s
    <3>4. ChainNamed(out \cup {s})
      BY <2>2, <3>1, <3>2, PyMoreNamed, Zenon
    <3>. QED
      BY <2>2, <3>2, <3>3, <3>4 DEF WellNamed
  <2>. QED
    BY <1>3, <2>1, <2>3, <2>4 DEF PyNext, PyFile
<1>15. RustNext => WellNamed(out')
  <2>1. RustVisitFile => WellNamed(out')
    BY <1>1, <1>2, RustNames1 DEF RustVisitFile, WellNamed
  <2>2. RustImplTraits => WellNamed(out')
    <3> SUFFICES ASSUME RustImplTraits PROVE WellNamed(out')
      OBVIOUS
    <3>1. prof.lang = "rust" /\ pass # "parse" /\
          out' = {IF s.sort = "struct" /\ name[s.at] \in RustImplNames
                  THEN Sym(s.at, s.sort, s.qual, s.parent, s.calls, {"implements"}) ELSE s : s \in out}
      BY <1>2 DEF RustImplTraits, Pass
    <3>2. RustNamed(out)
      BY <3>1 DEF WellNamed
    <3>3. \A s \in out' : \E r \in out :
            s.at = r.at /\ s.sort = r.sort /\ s.qual = r.qual /\ s.parent = r.parent
      BY <3>1 DEF Sym
    <3>4. RustNamed(out')
      BY <3>2, <3>3, RustTraitsNamed
    <3>. QED
      BY <3>1, <3>4 DEF WellNamed
  <2>. QED
    BY <1>3, <2>1, <2>2 DEF RustNext, RustFile
<1>16. SwiftNext => WellNamed(out')
  <2>1. SwiftVisitFile => WellNamed(out')
    BY <1>1, <1>2, SwiftNames DEF SwiftVisitFile, WellNamed
  <2>2. SwiftConformances => WellNamed(out')
    <3> SUFFICES ASSUME SwiftConformances PROVE WellNamed(out')
      OBVIOUS
    <3>1. prof.lang = "swift" /\ pass # "parse"
      BY DEF SwiftConformances, Pass
    <3>2. NamedByType(out)
      BY <3>1 DEF WellNamed
    <3>. QED
      BY <3>1, <3>2, <1>2, SwiftConformancesNamed DEF SwiftConformances, WellNamed
  <2>. QED
    BY <1>3, <2>1, <2>2 DEF SwiftNext, SwiftFile
<1>17. WellNamed(out')
  BY <1>6, <1>7, <1>8, <1>9, <1>10, <1>11, <1>12, <1>13, <1>14, <1>15, <1>16 DEF Next
<1>. QED
  BY <1>4, <1>17

\* In every file of every size: a symbol is named after what stands around it,
\* in each language as NamedAfterItsParent says.
THEOREM ParentsNamed == Spec => []NamedAfterItsParent
<1> DEFINE Inv == IInv /\ NGrammar /\ PhpSpillKinds
           Good == pass # "parse" => WellNamed(out)
<1>1. Init => Good
  <2>1. Init => pass = "parse"
    BY Zenon DEF Init
  <2>. QED
    BY <2>1
<1>2. Inv /\ Good /\ [Next]_vars => Good'
  <2> SUFFICES ASSUME Inv, Good, [Next]_vars, pass' # "parse" PROVE WellNamed(out)'
    OBVIOUS
  <2>1. UNCHANGED fileVars /\ WellNamed(out')
    <3>1. CASE UNCHANGED vars
      BY <3>1 DEF vars, fileVars
    <3>2. CASE Next
      BY <3>2, PassesName
    <3>. QED
      BY <3>1, <3>2
  <2>2. /\ prof' = prof /\ kind' = kind /\ name' = name
        /\ \A n : TypePath(n)' = TypePath(n)
        /\ \A n : GoReceiverType(n)' = GoReceiverType(n)
        /\ \A n : Up(n)' = Up(n)
        /\ \A n : PhpAround(n)' = PhpAround(n)
        /\ \A n : Under(n)' = Under(n)
        /\ \A n, K : Around(n, K)' = Around(n, K)
        /\ \A n : RustPath(n)' = RustPath(n)
        /\ \A n : RustPlaced(n)' <=> RustPlaced(n)
    BY <2>1, SameNames DEF fileVars
  <2>3. prof.lang \in {"csharp", "kotlin", "swift"} => NamedByType(out)'
    BY <2>1, <2>2 DEF WellNamed, NamedByType
  <2>4. prof.lang = "go" => GoMethodsNamed(out)'
    BY <2>1, <2>2 DEF WellNamed, GoMethodsNamed
  <2>5. prof.lang = "objc" => ObjcNamed(out)'
    BY <2>1, <2>2 DEF WellNamed, ObjcNamed
  <2>6. prof.lang = "php" => PhpNamed(out)'
    BY <2>1, <2>2, Zenon DEF WellNamed, PhpNamed, PhpClassName
  <2>7. prof.lang \in {"java", "python"} => ChainNamed(out)'
    <3> SUFFICES ASSUME prof.lang \in {"java", "python"} PROVE ChainNamed(out)'
      OBVIOUS
    <3>1. ChainNamed(out')
      BY <2>1 DEF WellNamed, JavaNamed
    <3>. QED
      BY <3>1, <2>2 DEF ChainNamed, FromParent, ParentIn
  <2>8. prof.lang = "java" => JavaNamed(out)'
    BY <2>1, <2>7 DEF WellNamed, JavaNamed, JavaIsOrphan
  <2>9. prof.lang \in {"c", "cpp"} => AllCNamed(out)'
    <3> SUFFICES ASSUME prof.lang \in {"c", "cpp"}, NEW s \in out' PROVE CNamed(out, s)'
      BY <2>2 DEF AllCNamed
    <3>1. CNamed(out', s)
      BY <2>1 DEF WellNamed, AllCNamed
    <3>2. /\ \A n : CppPath(n)' = CppPath(n)
          /\ \A n : CTag(n)' = CTag(n)
          /\ \A m, n : Above(m, n)' <=> Above(m, n)
          /\ \A r : CRecords(r)' = CRecords(r)
          /\ \A r : CHasName(r)' <=> CHasName(r)
          /\ \A t, r : CInner(t, r)' = CInner(t, r)
          /\ AllNames' = AllNames /\ File' = File
      BY <2>1, SameCNames, SameFile
    <3>3. \A t, q : CTopOf(out, t, q)' <=> CTopOf(out', t, q)
      BY <2>2 DEF CTopOf
    <3>4. \A t, r, q, i : CStepOf(out, t, r, q, i)' <=> CStepOf(out', t, r, q, i)
      BY <2>2, <3>2 DEF CStepOf
    <3>5. \A t, r, q : CPathOf(out, t, r, q)' <=> CPathOf(out', t, r, q)
      BY <3>2, <3>3, <3>4 DEF CPathOf
    <3>6. CFieldIn(out, s)' <=> CFieldIn(out', s)
      BY <2>2, <3>2, <3>5 DEF CFieldIn
    <3>7. CConstIn(out, s)' <=> CConstIn(out', s)
      BY <2>2, <3>2, Zenon DEF CConstIn
    <3>. QED
      BY <2>2, <3>1, <3>6, <3>7 DEF CNamed
  <2>10. prof.lang = "rust" => RustNamed(out)'
    <3>1. \A n : RustName(n)' = RustName(n)
      BY <2>2 DEF RustName
    <3>. QED
      BY <2>1, <2>2, <3>1, Zenon DEF WellNamed, RustNamed, RustBase, RustHouses, RustPlain, QualJoin
  <2>. QED
    BY <2>2, <2>3, <2>4, <2>5, <2>6, <2>7, <2>8, <2>9, <2>10 DEF WellNamed
<1>3. Inv /\ Good => NamedAfterItsParent
  <2>1. prof.lang \in {"c", "cpp"} /\ Inv /\ Good => NamedAfterItsParent
    <3> SUFFICES ASSUME prof.lang \in {"c", "cpp"}, Inv, AllCNamed(out) PROVE NamedAfterItsParent
      BY DEF NamedAfterItsParent, WellNamed
    <3>1. ASSUME NEW s \in out, prof.lang = "c", s.sort = "field" PROVE CFieldOfRecord(s)
      <4>1. CFieldIn(out, s) /\ Shape
        BY <3>1 DEF AllCNamed, CNamed, IInv
      <4>. QED
        BY <4>1, CFieldNamed
    <3>2. ASSUME NEW s \in out, s.sort = "const" PROVE CConstOfEnum(s)
      <4>1. CConstIn(out, s)
        BY <3>2 DEF AllCNamed, CNamed
      <4>. QED
        BY <4>1, Zenon DEF CConstIn, CConstOfEnum
    <3>. QED
      BY <3>1, <3>2 DEF NamedAfterItsParent
  <2>2. prof.lang = "rust" /\ Good => NamedAfterItsParent
    BY Zenon DEF WellNamed, RustNamed, RustHouses, RustPlain, NamedAfterItsParent
  <2>3. prof.lang \notin {"c", "cpp", "rust"} /\ Good => NamedAfterItsParent
    BY DEF WellNamed, NamedByType, GoMethodsNamed, ObjcNamed, ObjcHolders, PhpNamed, PhpAround,
           JavaNamed, ChainNamed, FromParent, ParentIn, Parent, NamedAfterItsParent
  <2>. QED
    BY <2>1, <2>2, <2>3
<1>. QED
  BY <1>1, <1>2, <1>3, Inductive, GrammarOfNames, GrammarOfSpills, PTL DEF Spec
=============================================================================
