---------------------------- MODULE Symbols_proof ----------------------------
(***************************************************************************)
(* Whose a call is, for every file of every size: GoUsesOnce,              *)
(* CallsToInnermost and FnCallsToInnermost of module Symbols, and OneOwner *)
(* for four languages; and the access of C++ methods, AccessAsDeclared.    *)
(* The invariants say what the walkers rely on: the tree is one, and the   *)
(* node types stand where the grammars put them.                           *)
(***************************************************************************)
EXTENDS Symbols, SyntaxTree_proof

Shape ==
  /\ IsTree(lev)
  /\ kind \in Seq(DOMAIN prof.names \cup {"file"}) /\ Len(kind) = Len(lev)
  /\ pass = "parse" => out = {}

\* The root is the one node of type "file".
Rooted == kind[1] = "file" /\ \A n \in File : n # 1 => kind[n] # "file"

GoTop == {"func", "method", "types", "consts", "vars"}
GoFunctions == Of({"func", "method"})

GoGrammar ==
  /\ \A n \in File : kind[n] \in GoTop <=> lev[n] = 1
  /\ \A n \in File : kind[n] = "call" /\ n + 1 \in File /\ lev[n + 1] = lev[n] + 1
                       => kind[n + 1] \in GoExpr

GoOut ==
  /\ GoWhole
  /\ \A s \in out : s.calls = {} \/ (s.at \in GoFunctions /\ s.calls = GoCallSites(s.at))
  /\ \A n \in GoFunctions : \E s \in out : s.at = n /\ s.calls = GoCallSites(n)

GoShape == prof.lang = "go" => GoGrammar /\ (pass = "done" => GoOut)

JavaHomes == {"file", "body"} \cup JavaTypes
JavaHoused == JavaMethods \cup {"ctor", "init", "field", "constant"}

JavaGrammar ==
  \A n, p \in File : kind[n] \in JavaHoused /\ IsParent(lev, n, p) => kind[p] \in JavaHomes

JavaOwns(s) ==
  /\ s.at \in File
  /\ s.calls = IF kind[s.at] \in JavaExecutables THEN JavaCallSites(s.at) ELSE {}

JavaShape ==
  prof.lang = "java" => JavaGrammar /\ \A s \in out : JavaOwns(s)

PyDefiners == {"file", "def", "class"}
PyOwns(s) == s.calls = {} \/ (s.at \in Of(PyDefiners) /\ s.calls = PyCallSites(s.at))

\* What pythonVisit enters, what holds but calls, and their places.
PyBlocks == {"file", "def", "class", "deco", "if"}
PyCallHolders == {"header", "decorator", "call", "assign"}

PyGrammar ==
  \A n, p \in File : IsParent(lev, n, p) =>
    /\ kind[n] \in PyBlocks => kind[p] \in PyBlocks
    /\ kind[n] = "header" => kind[p] \in {"def", "class"}
    /\ kind[p] = "deco" => kind[n] \in {"decorator", "def", "class"}
    /\ kind[p] \in PyCallHolders => kind[n] = "call"

PyOut ==
  /\ \A s \in out : PyOwns(s)
  /\ pass # "parse" =>
       \A n \in Of({"def", "class"}) : \E s \in out : s.at = n /\ s.calls = PyCallSites(n)
  /\ pass = "done" /\ PyCallSites(1) # {} =>
       \E s \in out : s.at = 1 /\ s.calls = PyCallSites(1)

PyShape == prof.lang = "python" => PyGrammar /\ PyOut

PhpBodies == {n \in Of({"fn", "method"}) : PhpVisited(n)}
PhpOwns(s) == s.calls = {} \/ (s.at \in PhpBodies /\ s.calls = PhpCallSites(s.at))

SwiftBodies == {n \in Of(SwiftBodied) : SwiftVisited(n)}
SwiftOwns(s) == s.calls = {} \/ (s.at \in SwiftBodies /\ s.calls = SwiftCallSites(s.at))

-----------------------------------------------------------------------------
(* The languages whose walks stop at the outermost bodies: what stands in  *)
(* what, and the calls of the symbols that stand on a node.                *)

KtBodies == {"fn", "val", "init", "primary", "secondary", "entry"}
KtInBodies == {"call", "objexp", "getter", "default", "param"}
KtHomes == KtTypes \cup {"companion", "error"}

CsHomes == {"ns", "fns", "cond"} \cup CsTypes
CsOuter == CsBodied \cup {"stmt"}
CsLocals == {"local", "block"}

\* Definitions of C and what their walk enters on the way to them.
CBodies == {"fn", "outfn", "def"}
CInBodies == {"call", "owner"}
CRegions == {"file", "ns", "cond", "alt", "off"}
CWays == CRegions \cup {"tmpl", "class"}
CLeaves == {"proto", "friend", "decl"}

\* What C, C++ and Objective-C have in a node of type p.
CFits(n, p) ==
  /\ p \notin CLeaves
  /\ p \in CBodies \cup CInBodies => n \in CInBodies
  /\ n \in CWays => p \in CWays
  /\ n \in CWays /\ p = "class" => n \in {"class", "cond"}
  /\ n \in CWays /\ p = "tmpl" => n = "class"
  /\ n = "fn" => p \in CWays \cup {"impl"}
  /\ n = "outfn" => p \in CWays \ {"class"} /\ prof.lang # "objc"
  /\ n = "def" => p = "impl" /\ prof.lang = "objc"
  /\ n = "impl" => p \in CRegions

\* What rustVisit looks into.
RustWays == {"fn", "mod", "trait", "macro"} \cup RustImpls

\* A node of type n may stand in one of type p.
Fits(n, p) ==
  /\ prof.lang \in {"c", "cpp", "objc"} => CFits(n, p)
  /\ prof.lang = "swift" /\ p \in {"prop", "call"} => n = "call"
  /\ prof.lang = "csharp" =>
       /\ n \in CsLocals => p \in CsLocals \cup {"stmt", "method", "ctor"}
       /\ p \in {"prop", "event", "field", "call", "initializer"} => n = "call"
       /\ p \in CsHomes \cup CsOuter \cup CsLocals \cup {"field", "call", "initializer", "file"}
       /\ p = "stmt" => n \in CsLocals \cup {"call"}
       /\ n = "initializer" => p = "ctor"
       /\ n \in CsHomes \cup CsBodied => p \in CsHomes \cup {"file"}
  /\ prof.lang = "kotlin" =>
       /\ p \in KtHomes \cup KtBodies \cup KtInBodies \cup {"file"}
       /\ n \in KtInBodies => p \in KtInBodies \cup KtBodies
       /\ n = "default" => p = "fn"
       /\ p = "primary" => n \in {"param", "call"}
  /\ prof.lang = "rust" /\ n \in RustWays => p \in RustWays \cup {"file", "block"}
  /\ prof.lang = "javascript" /\ p \in {"iface", "enum"} => n \in {"sig", "const"}

Grammar ==
  /\ \A n, p \in File : IsParent(lev, n, p) => Fits(kind[n], kind[p])
  /\ prof.lang = "csharp" =>
       \A n, k, p \in File : kind[p] = "stmt" /\ IsParent(lev, n, p) /\ IsParent(lev, k, p) => n = k

CsGives(n) ==
  CASE n = 1 -> UNION {CsCallSites(m) : m \in CsTopLevelStatements}
    [] n # 1 /\ kind[n] \in CsBodied \cup {"local"} /\ CsVisited(n) -> CsMethodSites(n)
    [] OTHER -> {}

KtGives(n) ==
  CASE kind[n] \in {"fn", "secondary"} /\ KtVisited(n) -> KtCallSites(n)
    [] KtHasConstructor(n) /\ KtVisited(n) -> UNION {KtCallSites(m) : m \in KtInitializers(n)}
    [] OTHER -> {}

CDefined(n) ==
  kind[n] \in CBodies /\ CppEntered(n) /\ (kind[n] = "fn" => kind[Up(n)] # "impl")

RustEntered(n) == \A m \in Way(1, n) : kind[m] # "block" /\ (kind[m] = "macro" => RustRead(m))

Gives(n) ==
  CASE prof.lang \in {"c", "cpp", "objc"} /\ CDefined(n) -> CppCallSites(n)
    [] prof.lang = "php" /\ n \in PhpBodies -> PhpCallSites(n)
    [] prof.lang = "swift" /\ n \in SwiftBodies -> SwiftCallSites(n)
    [] prof.lang = "csharp" -> CsGives(n)
    [] prof.lang = "kotlin" -> KtGives(n)
    [] prof.lang = "rust" /\ kind[n] = "fn" /\ RustEntered(n) -> RustCallSites(n)
    [] OTHER -> {}

\* The calls of the symbols are those and no others.
Given(symbols) ==
  /\ \A s \in symbols : s.calls = {} \/ (s.at \in File /\ s.calls = Gives(s.at))
  /\ \A n \in File : Gives(n) # {} => \E s \in symbols : s.at = n /\ s.calls = Gives(n)

GivenLanguages == OuterBodyLanguages \cup {"rust"}

OuterShape ==
  prof.lang \in GivenLanguages =>
    /\ Grammar
    /\ pass # "parse" => Given(out)
    /\ prof.lang = "objc" => \A s \in out : s.sort = "type" => s.calls = {}

-----------------------------------------------------------------------------
(* JavaScript: what the visitors see, and whose calls each symbol has      *)

JsSeen(n) == JsCtx[n].by # "none"

JsValued == {"field", "var", "exports", "module", "member", "chain", "pair"}

JsGives(n) ==
  CASE kind[n] \in {"fn", "method", "define"} -> JsCallSites(n)
    [] kind[n] \in JsValued /\ Value(n) \in JsFnValues -> JsCallSites(FirstKid(n))
    [] kind[n] \in {"class", "classexp"} -> JsDecoratorCalls(n)
    [] OTHER -> {}

JsOwns(s) ==
  /\ s = Sym(s.at, s.sort, s.qual, s.parent, s.calls, s.marks)
  /\ s.at \in File
  /\ s.calls # {} \/ kind[s.at] = "fn" =>
       s.calls = JsGives(s.at) /\ (JsSeen(s.at) \/ s.at \in JsNestedFunctionDecls)

JsLocals(symbols) == \A n \in JsNestedFunctionDecls : \E s \in symbols : s.at = n /\ ~ThisAssigned(s)

JsShape ==
  prof.lang = "javascript" =>
    /\ Grammar
    /\ \A s \in out : JsOwns(s)
    /\ pass \in {"dedupe", "exports", "done"} => JsLocals(out)

IInv == Shape /\ Rooted /\ GoShape /\ JavaShape /\ PyShape /\ JsShape /\ OuterShape

-----------------------------------------------------------------------------
(* Trees that grow                                                         *)

\* A non-empty set of nodes has a last one.
LEMMA LastNode ==
  ASSUME NEW t, IsTree(t), NEW S, S \subseteq Nodes(t), S # {}
  PROVE  \E p \in S : \A q \in S : q <= p
<1> DEFINE T == {Len(t) - p : p \in S}
<1>1. Len(t) \in Nat /\ S \subseteq 1 .. Len(t)
  BY TreeShape DEF Nodes
<1>2. T \subseteq Nat /\ T # {}
  BY <1>1
<1>3. PICK x \in T : \A y \in T : x <= y
  <2> HIDE DEF T
  <2>. QED
    BY <1>2, LeastNat, Zenon
<1>4. PICK p \in S : x = Len(t) - p
  OBVIOUS
<1>5. \A q \in S : q <= p
  <2> TAKE q \in S
  <2>1. Len(t) - p <= Len(t) - q
    BY <1>3, <1>4
  <2>. QED
    BY <2>1, <1>1
<1>. QED
  BY <1>4, <1>5

IsOpen(t, l, p) == t[p] = l - 1 /\ \A m \in p + 1 .. Len(t) : t[m] >= l

\* There is a place for a new node at every level down to the last node's
\* children.
LEMMA OpenExists ==
  ASSUME NEW t, IsTree(t), NEW l \in 1 .. t[Len(t)] + 1
  PROVE  \E p \in Nodes(t) : IsOpen(t, l, p)
<1> DEFINE S == {p \in Nodes(t) : t[p] <= l - 1}
<1>1. /\ Len(t) \in Nat \ {0} /\ t[1] = 0 /\ l \in Nat \ {0}
      /\ \A k \in Nodes(t) : t[k] \in Nat
      /\ \A k \in 2 .. Len(t) : t[k] <= t[k - 1] + 1
  BY TreeShape DEF Nodes
<1>2. S \subseteq Nodes(t) /\ 1 \in S
  BY <1>1 DEF Nodes
<1>3. PICK p \in S : \A q \in S : q <= p
  <2> HIDE DEF S
  <2>. QED
    BY <1>2, LastNode
<1>4. \A m \in p + 1 .. Len(t) : t[m] >= l
  <2> TAKE m \in p + 1 .. Len(t)
  <2>1. m \in Nodes(t) /\ m > p
    BY <1>1, <1>3 DEF Nodes
  <2>2. m \notin S
    BY <2>1, <1>1, <1>3 DEF Nodes
  <2>. QED
    BY <2>1, <2>2, <1>1
<1>5. t[p] >= l - 1
  <2>1. CASE p = Len(t)
    BY <2>1, <1>1
  <2>2. CASE p # Len(t)
    <3>1. p + 1 \in 2 .. Len(t) /\ (p + 1) - 1 = p /\ p + 1 \in p + 1 .. Len(t)
      BY <2>2, <1>1, <1>3 DEF Nodes
    <3>2. t[p + 1] >= l /\ t[p + 1] <= t[p] + 1 /\ t[p] \in Nat /\ t[p + 1] \in Nat
      BY <3>1, <1>1, <1>3, <1>4 DEF Nodes
    <3>. QED
      BY <3>2, <1>1
  <2>. QED
    BY <2>1, <2>2
<1>6. t[p] = l - 1
  BY <1>1, <1>3, <1>5
<1>. QED
  BY <1>3, <1>4, <1>6 DEF IsOpen

\* A node that is added stands below the open node of its level, and nothing
\* else changes.
LEMMA Grown ==
  ASSUME NEW t, IsTree(t), NEW l \in 1 .. t[Len(t)] + 1, NEW u, u = Append(t, l)
  PROVE  /\ IsTree(u) /\ Len(u) = Len(t) + 1
         /\ Nodes(u) = Nodes(t) \cup {Len(u)}
         /\ \A k \in Nodes(t) : u[k] = t[k]
         /\ u[Len(u)] = l
         /\ \A n, p \in Nodes(t) : IsParent(u, n, p) <=> IsParent(t, n, p)
         /\ \A n \in Nodes(t) : ~IsParent(u, n, Len(u))
         /\ \A p \in Nodes(u) : IsParent(u, Len(u), p) => p \in Nodes(t) /\ IsOpen(t, l, p)
         /\ \A p, q \in Nodes(t) : IsOpen(t, l, p) /\ IsOpen(t, l, q) => p = q
<1>1. /\ Len(t) \in Nat \ {0} /\ t[1] = 0 /\ l \in Nat \ {0}
      /\ \A k \in 1 .. Len(t) : t[k] \in Nat
      /\ \A k \in 2 .. Len(t) : t[k] >= 1 /\ t[k] <= t[k - 1] + 1
  BY TreeShape
<1>2. Len(u) = Len(t) + 1 /\ u \in Seq(Nat)
  BY <1>1 DEF IsTree
<1>3. \A k \in 1 .. Len(t) : u[k] = t[k]
  BY <1>1 DEF IsTree
<1>4. u[Len(t) + 1] = l
  BY <1>1 DEF IsTree
<1>5. IsTree(u)
  <2>1. \A i \in 1 .. Len(u) - 1 : u[i + 1] >= 1 /\ u[i + 1] <= u[i] + 1
    <3> TAKE i \in 1 .. Len(u) - 1
    <3>1. CASE i = Len(t)
      BY <3>1, <1>1, <1>3, <1>4
    <3>2. CASE i # Len(t)
      <4>1. i \in 1 .. Len(t) /\ i + 1 \in 2 .. Len(t) /\ (i + 1) - 1 = i
        BY <3>2, <1>1, <1>2
      <4>. QED
        BY <4>1, <1>1, <1>3
    <3>. QED
      BY <3>1, <3>2
  <2>2. u[1] = 0 /\ Len(u) > 0
    BY <1>1, <1>2, <1>3
  <2>. QED
    BY <2>1, <2>2, <1>2, Zenon DEF IsTree
<1>6. Nodes(u) = Nodes(t) \cup {Len(u)}
  BY <1>1, <1>2 DEF Nodes
<1>7. \A n, p \in Nodes(t) : IsParent(u, n, p) <=> IsParent(t, n, p)
  <2> TAKE n, p \in Nodes(t)
  <2>1. n \in 1 .. Len(t) /\ p \in 1 .. Len(t) /\ \A k \in p + 1 .. n : k \in 1 .. Len(t)
    BY <1>1 DEF Nodes
  <2>. QED
    BY <2>1, <1>3 DEF IsParent
<1>8. \A n \in Nodes(t) : ~IsParent(u, n, Len(u))
  BY <1>1, <1>2 DEF Nodes, IsParent
<1>9. \A p \in Nodes(u) : IsParent(u, Len(u), p) => p \in Nodes(t) /\ IsOpen(t, l, p)
  <2> TAKE p \in Nodes(u)
  <2> HAVE IsParent(u, Len(u), p)
  <2>1. p \in 1 .. Len(t)
    BY <1>1, <1>2 DEF Nodes, IsParent
  <2>2. t[p] = l - 1
    BY <2>1, <1>1, <1>2, <1>3, <1>4 DEF IsParent
  <2>3. \A m \in p + 1 .. Len(t) : t[m] >= l
    <3> TAKE m \in p + 1 .. Len(t)
    <3>1. m \in p + 1 .. Len(u) /\ m \in 1 .. Len(t)
      BY <2>1, <1>1, <1>2
    <3>2. u[m] > u[p] /\ u[m] = t[m] /\ u[p] = t[p] /\ t[m] \in Nat
      BY <3>1, <2>1, <1>1, <1>3 DEF IsParent
    <3>. QED
      BY <3>2, <2>2, <1>1
  <2>. QED
    BY <2>1, <2>2, <2>3 DEF Nodes, IsOpen
<1>10. \A p, q \in Nodes(t) : IsOpen(t, l, p) /\ IsOpen(t, l, q) => p = q
  <2> SUFFICES ASSUME NEW p \in Nodes(t), NEW q \in Nodes(t),
                      IsOpen(t, l, p), IsOpen(t, l, q), p < q
               PROVE  FALSE
    BY <1>1 DEF Nodes
  <2>1. q \in p + 1 .. Len(t) /\ t[q] = l - 1
    BY <1>1 DEF Nodes, IsOpen
  <2>. QED
    BY <2>1, <1>1 DEF IsOpen
<1>. QED
  BY <1>2, <1>3, <1>4, <1>5, <1>6, <1>7, <1>8, <1>9, <1>10 DEF Nodes

\* Two nodes above a third are one above the other.
LEMMA Nested ==
  ASSUME NEW t, IsTree(t), NEW s \in Nodes(t), NEW r \in Nodes(t), NEW c \in Nodes(t),
         InSubtree(t, s, c), InSubtree(t, r, c), s < r
  PROVE  InSubtree(t, s, r) /\ r \in s + 1 .. c
<1>1. s \in Nat /\ r \in Nat /\ c \in Nat /\ r <= c
  BY TreeShape DEF Nodes, InSubtree
<1>2. \A k \in s + 1 .. r : k \in s + 1 .. c
  BY <1>1
<1>. QED
  BY <1>1, <1>2 DEF InSubtree

\* Every node but the root has a parent.
LEMMA ParentExists ==
  ASSUME NEW t, IsTree(t), NEW n \in 2 .. Len(t)
  PROVE  \E p \in Nodes(t) : IsParent(t, n, p)
<1> DEFINE S == {p \in Nodes(t) : p < n /\ t[p] < t[n]}
<1>1. /\ Len(t) \in Nat \ {0} /\ t[1] = 0 /\ n \in Nat
      /\ \A k \in Nodes(t) : t[k] \in Nat
      /\ \A k \in 2 .. Len(t) : t[k] >= 1 /\ t[k] <= t[k - 1] + 1
  BY TreeShape DEF Nodes
<1>2. S \subseteq Nodes(t) /\ 1 \in S
  BY <1>1 DEF Nodes
<1>3. PICK p \in S : \A q \in S : q <= p
  <2> HIDE DEF S
  <2>. QED
    BY <1>2, LastNode
<1>4. \A m \in p + 1 .. n : t[m] >= t[n]
  <2> TAKE m \in p + 1 .. n
  <2>1. m \in Nodes(t) /\ m > p /\ n \in Nodes(t)
    BY <1>1, <1>3 DEF Nodes
  <2>2. m = n \/ m \notin S
    BY <2>1, <1>1, <1>3 DEF Nodes
  <2>. QED
    BY <2>1, <2>2, <1>1 DEF Nodes
<1>5. t[p + 1] <= t[p] + 1 /\ t[p + 1] >= t[n]
  <2>1. p + 1 \in 2 .. Len(t) /\ (p + 1) - 1 = p /\ p + 1 \in p + 1 .. n
    BY <1>1, <1>3 DEF Nodes
  <2>. QED
    BY <2>1, <1>1, <1>4, Zenon
<1>6. t[p] = t[n] - 1
  <2>1. t[p] \in Nat /\ t[n] \in Nat /\ t[p + 1] \in Nat /\ t[p] < t[n]
    BY <1>1, <1>3 DEF Nodes
  <2>. QED
    BY <2>1, <1>5
<1>7. \A m \in p + 1 .. n : t[m] > t[p]
  <2> TAKE m \in p + 1 .. n
  <2>1. m \in Nodes(t) /\ n \in Nodes(t)
    BY <1>1, <1>3 DEF Nodes
  <2>. QED
    BY <2>1, <1>1, <1>3, <1>4, <1>6
<1>. QED
  BY <1>1, <1>3, <1>6, <1>7 DEF IsParent

\* A node above n is n's parent or above it.
LEMMA AboveParent ==
  ASSUME NEW t, IsTree(t), NEW s \in Nodes(t), NEW n \in Nodes(t), NEW p \in Nodes(t),
         NEW c \in Nodes(t), IsParent(t, n, p), InSubtree(t, s, n), InSubtree(t, n, c), s < n
  PROVE  s <= p /\ p \in Nat /\ p < c /\ InSubtree(t, p, c)
<1>1. /\ s \in Nat /\ n \in Nat /\ p \in Nat /\ c \in Nat
      /\ \A k \in Nodes(t) : t[k] \in Nat
  BY TreeShape DEF Nodes
<1>2. p < n /\ t[p] = t[n] - 1 /\ n <= c
  BY DEF IsParent, InSubtree
<1>3. t[n] > t[s]
  <2>1. n \in s + 1 .. n
    BY <1>1
  <2>. QED
    BY <2>1 DEF InSubtree
<1>4. s <= p
  <2> SUFFICES ASSUME p < s PROVE FALSE
    BY <1>1
  <2>1. s \in p + 1 .. n
    BY <1>1
  <2>2. t[s] > t[p]
    BY <2>1 DEF IsParent
  <2>. QED
    BY <2>2, <1>1, <1>2, <1>3
<1>5. \A k \in p + 1 .. c : t[k] > t[p]
  <2> TAKE k \in p + 1 .. c
  <2>1. k \in Nodes(t)
    BY <1>1, TreeShape DEF Nodes
  <2>2. CASE k <= n
    <3>1. k \in p + 1 .. n
      BY <2>2, <1>1
    <3>. QED
      BY <3>1 DEF IsParent
  <2>3. CASE n < k
    <3>1. k \in n + 1 .. c
      BY <2>3, <1>1
    <3>2. t[k] > t[n]
      BY <3>1 DEF InSubtree
    <3>. QED
      BY <3>2, <2>1, <1>1, <1>2
  <2>. QED
    BY <2>2, <2>3, <1>1
<1>. QED
  BY <1>1, <1>2, <1>4, <1>5 DEF InSubtree

-----------------------------------------------------------------------------
(* The nodes above a node                                                  *)

\* A node but the root has one node above it, which comes before it.
LEMMA UpIs ==
  ASSUME Shape, NEW n \in File, n # 1
  PROVE  Up(n) \in File /\ Up(n) < n /\ IsParent(lev, n, Up(n))
<1>1. n \in 2 .. Len(lev)
  BY TreeShape DEF Shape, File, Nodes
<1>. QED
  BY <1>1, ParentExists, Zenon DEF Shape, Up, File, IsParent

\* A node has one parent at most.
LEMMA UpUnique ==
  ASSUME Shape, NEW n \in File, NEW p \in File, IsParent(lev, n, p)
  PROVE  Up(n) = p
<1>1. \A k \in File : k \in Nat /\ lev[k] \in Nat
  BY TreeShape DEF Shape, File, Nodes
<1>2. ASSUME NEW q \in File, NEW r \in File, IsParent(lev, n, q), IsParent(lev, n, r), q < r PROVE FALSE
  <2>1. r \in q + 1 .. n
    BY <1>1, <1>2 DEF IsParent
  <2>. QED
    BY <2>1, <1>1, <1>2 DEF IsParent
<1>3. \A q \in File : IsParent(lev, n, q) => q = p
  <2> SUFFICES ASSUME NEW q \in File, IsParent(lev, n, q) PROVE q = p
    OBVIOUS
  <2>1. ~(q < p) /\ ~(p < q)
    BY <1>2
  <2>. QED
    BY <2>1, <1>1
<1>. QED
  BY <1>3 DEF Up

\* The nodes above a node.
Above(m, n) == m \in File /\ m < n /\ InSubtree(lev, m, n)

LEMMA AboveTrans ==
  ASSUME Shape, NEW a \in File, NEW b \in File, NEW c \in File,
         InSubtree(lev, a, b), InSubtree(lev, b, c)
  PROVE  InSubtree(lev, a, c)
<1>1. \A k \in File : k \in Nat /\ lev[k] \in Nat
  BY TreeShape DEF Shape, File, Nodes
<1>2. a <= b /\ b <= c
  BY DEF InSubtree
<1>3. ASSUME NEW k \in a + 1 .. c PROVE lev[k] > lev[a]
  <2>1. k \in File
    BY <1>1, TreeShape DEF Shape, File, Nodes
  <2>2. CASE k <= b
    <3>1. k \in a + 1 .. b
      BY <2>1, <2>2, <1>1
    <3>. QED
      BY <3>1 DEF InSubtree
  <2>3. CASE b < k
    <3>1. k \in b + 1 .. c
      BY <2>1, <2>3, <1>1
    <3>2. a = b \/ b \in a + 1 .. b
      BY <1>1, <1>2
    <3>3. lev[b] >= lev[a] /\ lev[k] > lev[b]
      BY <3>1, <3>2, <1>1 DEF InSubtree
    <3>. QED
      BY <3>3, <2>1, <1>1
  <2>. QED
    BY <2>1, <2>2, <2>3, <1>1
<1>. QED
  BY <1>1, <1>2, <1>3 DEF InSubtree

\* The parent of a node, and what is above that, is all that is above it.
LEMMA AboveUp ==
  ASSUME Shape, NEW n \in File, n # 1
  PROVE  /\ Above(Up(n), n) /\ IsParent(lev, n, Up(n))
         /\ \A m : Above(m, n) <=> m = Up(n) \/ Above(m, Up(n))
<1>1. Up(n) \in File /\ Up(n) < n /\ IsParent(lev, n, Up(n))
  BY UpIs
<1>2. \A k \in File : k \in Nat
  BY TreeShape DEF Shape, File, Nodes
<1>3. Above(Up(n), n)
  BY <1>1, <1>2 DEF Above, IsParent, InSubtree
<1>4. ASSUME NEW m, Above(m, Up(n)) PROVE Above(m, n)
  BY <1>1, <1>2, <1>3, <1>4, AboveTrans DEF Above
<1>5. ASSUME NEW m, Above(m, n), m # Up(n) PROVE Above(m, Up(n))
  <2>1. InSubtree(lev, n, n) /\ IsTree(lev)
    BY <1>2 DEF InSubtree, Shape
  <2>2. m <= Up(n)
    BY <2>1, <1>1, <1>5, AboveParent DEF Above, File
  <2>3. \A k \in m + 1 .. Up(n) : k \in m + 1 .. n
    BY <1>1, <1>2, <1>5 DEF Above
  <2>. QED
    BY <2>2, <2>3, <1>1, <1>2, <1>5 DEF Above, InSubtree
<1>. QED
  BY <1>1, <1>3, <1>4, <1>5

\* Read as the modules do: the way from the root to the parent of n.
LEMMA WayUp ==
  ASSUME Shape, NEW n \in File, n # 1
  PROVE  \A m : m \in Way(1, Up(n)) <=> Above(m, n) /\ m # 1
<1>1. IsTree(lev) /\ \A k \in File : k \in Nat /\ k >= 1
  BY TreeShape DEF Shape, File, Nodes
<1>2. Up(n) \in File /\ Up(n) < n
  BY UpIs
<1>3. \A k \in 2 .. Up(n) : k \in File
  BY <1>1, <1>2, TreeShape DEF Shape, File, Nodes
<1>4. InSubtree(lev, Up(n), Up(n))
  BY <1>1, <1>2 DEF InSubtree
<1>5. \A m : m \in Way(1, Up(n)) <=> m # 1 /\ (m = Up(n) \/ Above(m, Up(n)))
  BY <1>1, <1>2, <1>3, <1>4 DEF Way, Above
<1>. QED
  BY <1>5, AboveUp

\* Of two nodes above a third the first is above the second.
LEMMA AboveBoth ==
  ASSUME Shape, NEW a, NEW b, NEW c, Above(a, c), b \in File, c \in File, InSubtree(lev, b, c), a < b
  PROVE  Above(a, b)
BY Nested DEF Above, Shape, File

\* If nodes of the types K stand in nodes of the types K or B, they are
\* below a node of the types B.
LEMMA StandsIn ==
  ASSUME Shape, NEW K, NEW B, kind[1] \notin K,
         \A n, p \in File : IsParent(lev, n, p) /\ kind[n] \in K => kind[p] \in K \cup B,
         NEW n \in File, kind[n] \in K
  PROVE  \E m \in Of(B) : Above(m, n)
<1> DEFINE T == {k \in File : kind[k] \in K /\ ~\E m \in Of(B) : Above(m, k)}
<1>1. \A k \in File : k \in Nat
  BY TreeShape DEF Shape, File, Nodes
<1>2. T = {}
  <2> SUFFICES ASSUME T # {} PROVE FALSE
    OBVIOUS
  <2>1. T \subseteq Nat
    BY <1>1
  <2>2. PICK k \in T : \A j \in T : k <= j
    <3> HIDE DEF T
    <3>. QED
      BY <2>1, LeastNat, Zenon
  <2>3. k \in File /\ k # 1 /\ kind[k] \in K
    BY <2>2
  <2>4. Up(k) \in File /\ Up(k) < k /\ Above(Up(k), k) /\ IsParent(lev, k, Up(k))
    BY <2>3, UpIs, AboveUp
  <2>5. kind[Up(k)] \in K \cup B
    BY <2>3, <2>4
  <2>6. kind[Up(k)] \notin B
    BY <2>2, <2>4 DEF Of
  <2>7. Up(k) \notin T
    <3> HIDE DEF T
    <3>. QED
      BY <2>2, <2>3, <2>4, <1>1
  <2>8. PICK m \in Of(B) : Above(m, Up(k))
    BY <2>4, <2>5, <2>6, <2>7
  <2>9. Above(m, k)
    BY <2>3, <2>8, AboveUp
  <2>. QED
    BY <2>2, <2>8, <2>9
<1>. QED
  BY <1>2

\* If nodes of the types K hold only nodes of the types J in K, all that is
\* below them is.
LEMMA HoldsOnly ==
  ASSUME Shape, NEW K, NEW J, J \subseteq K,
         \A n, p \in File : IsParent(lev, n, p) /\ kind[p] \in K => kind[n] \in J,
         NEW h \in File, kind[h] \in K, NEW m \in File, InSubtree(lev, h, m), m # h
  PROVE  kind[m] \in J
<1> DEFINE T == {k \in File : InSubtree(lev, h, k) /\ k # h /\ kind[k] \notin J}
<1>1. \A k \in File : k \in Nat /\ k >= 1
  BY TreeShape DEF Shape, File, Nodes
<1>2. T = {}
  <2> SUFFICES ASSUME T # {} PROVE FALSE
    OBVIOUS
  <2>1. T \subseteq Nat
    BY <1>1
  <2>2. PICK k \in T : \A j \in T : k <= j
    <3> HIDE DEF T
    <3>. QED
      BY <2>1, LeastNat, Zenon
  <2>3. k \in File /\ InSubtree(lev, h, k) /\ k # h /\ kind[k] \notin J /\ h < k
    <3>1. k \in File /\ InSubtree(lev, h, k) /\ k # h /\ kind[k] \notin J
      OBVIOUS
    <3>. QED
      BY <3>1, <1>1 DEF InSubtree
  <2>4. Up(k) \in File /\ Up(k) < k /\ IsParent(lev, k, Up(k))
    BY <2>3, <1>1, UpIs
  <2>5. h <= Up(k)
    <3>1. InSubtree(lev, k, k)
      BY <2>3, <1>1 DEF InSubtree
    <3>. QED
      BY <3>1, <2>3, <2>4, AboveParent DEF Shape, File
  <2>6. InSubtree(lev, h, Up(k))
    <3>1. \A x \in h + 1 .. Up(k) : x \in h + 1 .. k
      BY <2>3, <2>4, <1>1
    <3>. QED
      BY <3>1, <2>3, <2>5 DEF InSubtree
  <2>7. Up(k) = h \/ kind[Up(k)] \in J
    <3>1. Up(k) \notin T
      <4> HIDE DEF T
      <4>. QED
        BY <2>2, <2>3, <2>4, <1>1
    <3>. QED
      BY <3>1, <2>4, <2>6
  <2>8. kind[Up(k)] \in K
    BY <2>7
  <2>. QED
    BY <2>3, <2>4, <2>8
<1>. QED
  BY <1>2

\* Between a node and a node below it stand a child of the first and what is
\* below that child.
LEMMA ChildTowards ==
  ASSUME Shape, NEW d \in File, NEW c \in File, InSubtree(lev, d, c), d # c
  PROVE  \E e \in Way(d, c) : e \in File /\ IsParent(lev, e, d)
<1> DEFINE S == {m \in d + 1 .. c : InSubtree(lev, m, c)}
<1>1. /\ IsTree(lev) /\ File = Nodes(lev)
      /\ \A k \in File : k \in Nat /\ k >= 1
      /\ \A k \in d + 1 .. c : k \in File
  BY TreeShape DEF Shape, File, Nodes
<1>2. S # {} /\ S \subseteq Nat /\ S \subseteq File
  <2>1. d < c
    BY <1>1 DEF InSubtree
  <2>2. c \in d + 1 .. c /\ InSubtree(lev, c, c)
    BY <2>1, <1>1 DEF InSubtree
  <2>. QED
    BY <2>2, <1>1
<1>3. PICK e \in S : \A m \in S : e <= m
  <2> HIDE DEF S
  <2>. QED
    BY <1>2, LeastNat, Zenon
<1>4. e \in File /\ e \in d + 1 .. c /\ InSubtree(lev, e, c) /\ e # 1 /\ d < e
  BY <1>1, <1>2
<1>5. Up(e) \in File /\ Up(e) < e /\ IsParent(lev, e, Up(e))
  BY <1>4, UpIs
<1>6. InSubtree(lev, d, e)
  <2>1. \A x \in d + 1 .. e : x \in d + 1 .. c
    BY <1>1, <1>4
  <2>. QED
    BY <2>1, <1>4, <1>1 DEF InSubtree
<1>7. d <= Up(e) /\ Up(e) < c /\ InSubtree(lev, Up(e), c)
  BY <1>1, <1>4, <1>5, <1>6, AboveParent, Zenon
<1>8. Up(e) = d
  <2> SUFFICES ASSUME Up(e) # d PROVE FALSE
    OBVIOUS
  <2>1. Up(e) \in S
    BY <1>1, <1>5, <1>7
  <2>2. e <= Up(e)
    BY <2>1, <1>3
  <2>3. Up(e) < e /\ e \in Nat /\ Up(e) \in Nat
    BY <1>1, <1>4, <1>5, Zenon
  <2>. QED
    BY <2>2, <2>3
<1>. QED
  BY <1>4, <1>5, <1>8 DEF Way

-----------------------------------------------------------------------------
(* The parser's steps                                                      *)

LEMMA GoUnderKinds ==
  ASSUME NEW p
  PROVE  /\ "file" \notin GoUnder(p)
         /\ kind[p] = "file" => GoUnder(p) = GoTop
         /\ kind[p] # "file" => GoUnder(p) \cap GoTop = {}
         /\ kind[p] = "call" => GoUnder(p) = GoExpr
<1>1. "file" \notin GoUnder(p)
  BY DEF GoUnder, GoNone, GoExpr
<1>2. kind[p] = "file" => GoUnder(p) = GoTop
  BY DEF GoUnder, GoTop
<1>3. kind[p] # "file" => GoUnder(p) \cap GoTop = {}
  BY DEF GoUnder, GoNone, GoExpr, GoTop
<1>4. kind[p] = "call" => GoUnder(p) = GoExpr
  BY DEF GoUnder
<1>. QED
  BY <1>1, <1>2, <1>3, <1>4

LEMMA JavaUnderKinds ==
  ASSUME NEW p
  PROVE  /\ "file" \notin JavaUnder(p)
         /\ kind[p] \notin JavaHomes => JavaUnder(p) \cap JavaHoused = {}
<1>1. "file" \notin JavaUnder(p)
  BY DEF JavaUnder, JavaTypes, JavaMethods, JavaMembers, JavaInBody
<1>2. kind[p] \notin JavaHomes => JavaUnder(p) \cap JavaHoused = {}
  BY DEF JavaUnder, JavaTypes, JavaMethods, JavaMembers, JavaInBody, JavaHomes, JavaHoused
<1>. QED
  BY <1>1, <1>2

LEMMA JsUnderKinds ==
  ASSUME NEW p
  PROVE  /\ "file" \notin JsUnder(p)
         /\ prof.lang = "javascript" => \A k \in JsUnder(p) : Fits(k, kind[p])
<1>1. "file" \notin JsUnder(p)
  BY DEF JsUnder, JsStatements, JsInBody, JsFnValues, JsValues, JsOne
<1>2. kind[p] \in {"iface", "enum"} => JsUnder(p) \subseteq {"sig", "const"}
  BY DEF JsUnder
<1>. QED
  BY <1>1, <1>2 DEF Fits

LEMMA PyUnderKinds ==
  ASSUME NEW p, NEW k \in PyUnder(p)
  PROVE  /\ k # "file"
         /\ k \in PyBlocks => kind[p] \in PyBlocks
         /\ k = "header" => kind[p] \in {"def", "class"}
         /\ kind[p] = "deco" => k \in {"decorator", "def", "class"}
         /\ kind[p] \in PyCallHolders => k = "call"
<1>1. k # "file"
  BY DEF PyUnder, PyBody
<1>2. k \in PyBlocks => kind[p] \in PyBlocks
  BY DEF PyUnder, PyBody, PyBlocks
<1>3. k = "header" => kind[p] \in {"def", "class"}
  BY DEF PyUnder, PyBody
<1>4. kind[p] = "deco" => k \in {"decorator", "def", "class"}
  BY DEF PyUnder
<1>5. kind[p] \in PyCallHolders => k = "call"
  BY DEF PyUnder, PyCallHolders
<1>. QED
  BY <1>1, <1>2, <1>3, <1>4, <1>5

LEMMA RustUnderKinds ==
  ASSUME Shape, NEW p \in File
  PROVE  /\ "file" \notin RustUnder(p)
         /\ prof.lang = "rust" => \A k \in RustUnder(p) : Fits(k, kind[p])
<1>1. "file" \notin RustUnder(p)
  BY ZenonT(60) DEF RustUnder, RustItems, RustImpls, RustCalls
<1>2. ASSUME kind[p] # "macro" PROVE RustHost(p) = p
  <2>1. \A k \in File : k \in Nat
    BY TreeShape DEF Shape, File, Nodes
  <2>2. InSubtree(lev, p, p) /\ \A m \in Way(p, p) : kind[m] = "macro"
    BY <2>1 DEF InSubtree, Way
  <2>3. \A q \in File : InSubtree(lev, q, p) /\ (\A m \in Way(q, p) : kind[m] = "macro") => q = p
    <3> SUFFICES ASSUME NEW q \in File, InSubtree(lev, q, p), \A m \in Way(q, p) : kind[m] = "macro", q # p
                 PROVE  FALSE
      OBVIOUS
    <3>1. p \in Way(q, p)
      BY <2>1, <2>2 DEF Way, InSubtree
    <3>. QED
      BY <3>1, <1>2
  <2>. QED
    BY <2>2, <2>3, <1>2 DEF RustHost
<1>3. ASSUME NEW k \in RustUnder(p), k \in RustWays, kind[p] # "macro"
      PROVE  kind[p] \in RustWays \cup {"file", "block"}
  <2>1. kind[RustHost(p)] = kind[p]
    BY <1>2, <1>3
  <2>. QED
    BY <2>1, <1>3 DEF RustUnder, RustWays, RustItems, RustImpls, RustCalls
<1>. QED
  BY <1>1, <1>3 DEF Fits, RustWays

LEMMA CppUnderKinds ==
  ASSUME NEW p
  PROVE  /\ "file" \notin CppUnder(p)
         /\ prof.lang \in {"c", "cpp"} => \A k \in CppUnder(p) : Fits(k, kind[p])
<1>1. "file" \notin CppDecls
  BY DEF CppDecls, CDecls
<1>2. "file" \notin CppUnder(p)
  BY <1>1, ZenonT(60) DEF CppUnder, CppMembers
<1>3. ASSUME prof.lang \in {"c", "cpp"}, NEW k \in CppUnder(p) PROVE CFits(k, kind[p])
  <2>1. \A d \in CppDecls : d \in CDecls \cup {"outfn", "ns", "class", "tmpl"}
    BY DEF CppDecls
  <2>2. CASE kind[p] \in CRegions
    <3>1. k \in CDecls \cup {"outfn", "ns", "class", "tmpl", "alt"}
      BY <2>1, <2>2 DEF CppUnder, CRegions, CDecls
    <3>. QED
      BY <3>1, <2>2, <1>3 DEF CFits, CRegions, CDecls, CWays, CBodies, CInBodies, CLeaves
  <2>3. CASE kind[p] = "class"
    <3>1. k \in CppMembers \cup {"cond"}
      BY <2>3 DEF CppUnder
    <3>. QED
      BY <3>1, <2>3 DEF CFits, CRegions, CppMembers, CWays, CBodies, CInBodies, CLeaves
  <2>4. CASE kind[p] = "tmpl"
    <3>1. k \in {"fn", "outfn", "proto", "class"}
      BY <2>4 DEF CppUnder
    <3>. QED
      BY <3>1, <2>4, <1>3 DEF CFits, CRegions, CWays, CBodies, CInBodies, CLeaves
  <2>5. CASE kind[p] \in {"outfn", "fn", "call"}
    <3>1. k \in {"call", "owner"}
      BY <2>5 DEF CppUnder
    <3>. QED
      BY <3>1, <2>5 DEF CFits, CRegions, CWays, CBodies, CInBodies, CLeaves
  <2>6. CASE kind[p] \in {"record", "enum", "typedef", "var"}
    <3>1. k \in {"var", "record", "enum", "inst", "item"}
      BY <2>6, ZenonT(60) DEF CppUnder
    <3>. QED
      BY <3>1, <2>6 DEF CFits, CRegions, CWays, CBodies, CInBodies, CLeaves
  <2>7. kind[p] \in CRegions \cup {"class", "tmpl", "outfn", "fn", "call", "record", "enum", "typedef", "var"}
    BY DEF CppUnder, CRegions
  <2>. QED
    BY <2>2, <2>3, <2>4, <2>5, <2>6, <2>7
<1>. QED
  BY <1>2, <1>3 DEF Fits

LEMMA CsUnderKinds ==
  ASSUME NEW p
  PROVE  /\ "file" \notin CsUnder(p)
         /\ prof.lang = "csharp" => \A k \in CsUnder(p) : Fits(k, kind[p])
         /\ kind[p] = "stmt" /\ CsUnder(p) # {} => Kids(p) = {}
<1>1. "file" \notin CsUnder(p)
  BY ZenonT(60) DEF CsUnder, CsMembers, CsBodied, CsTypes
<1>2. ASSUME prof.lang = "csharp", NEW k \in CsUnder(p) PROVE Fits(k, kind[p])
  <2>1. kind[p] \in CsHomes \cup CsOuter \cup CsLocals \cup {"field", "call", "initializer", "file"}
    BY DEF CsUnder, CsHomes, CsOuter, CsBodied, CsLocals, CsTypes
  <2>2. kind[p] \in {"prop", "event", "field", "call", "initializer"} => k = "call"
    BY DEF CsUnder
  <2>3. k \in CsLocals => kind[p] \in CsLocals \cup {"stmt", "method", "ctor"}
    BY ZenonT(60) DEF CsUnder, CsLocals, CsMembers, CsBodied, CsTypes
  <2>4. kind[p] = "stmt" => k \in CsLocals \cup {"call"}
    BY DEF CsUnder, CsLocals
  <2>5. k = "initializer" => kind[p] = "ctor"
    BY ZenonT(60) DEF CsUnder, CsMembers, CsBodied, CsTypes
  <2>6. k \in CsHomes \cup CsBodied => kind[p] \in CsHomes \cup {"file"}
    <3>1. kind[p] \in CsHomes \cup {"file", "enum", "stmt"} \cup CsLocals
                       \cup {"method", "ctor", "prop", "event", "field", "call", "initializer"}
      BY <2>1 DEF CsOuter, CsBodied
    <3>2. CASE kind[p] \in {"enum", "stmt", "method", "ctor", "prop", "event", "field", "call", "initializer"}
                             \cup CsLocals
      BY <3>2, ZenonT(60) DEF CsUnder, CsLocals, CsHomes, CsBodied, CsTypes
    <3>. QED
      BY <3>1, <3>2
  <2>. QED
    BY <2>1, <2>2, <2>3, <2>4, <2>5, <2>6, <1>2 DEF Fits
<1>3. kind[p] = "stmt" /\ CsUnder(p) # {} => Kids(p) = {}
  BY DEF CsUnder
<1>. QED
  BY <1>1, <1>2, <1>3

LEMMA ObjcUnderKinds ==
  ASSUME NEW p
  PROVE  /\ "file" \notin ObjcUnder(p)
         /\ prof.lang = "objc" => \A k \in ObjcUnder(p) : Fits(k, kind[p])
<1>1. "file" \notin ObjcUnder(p)
  BY ZenonT(60) DEF ObjcUnder, ObjcDecls, ObjcContainers
<1>2. ASSUME prof.lang = "objc", NEW k \in ObjcUnder(p) PROVE CFits(k, kind[p])
  <2>1. CASE kind[p] \in CRegions
    <3>1. k \in ObjcDecls \cup {"alt"}
      BY <2>1 DEF ObjcUnder, CRegions
    <3>. QED
      BY <3>1, <2>1, <1>2
         DEF CFits, CRegions, ObjcDecls, ObjcContainers, CWays, CBodies, CInBodies, CLeaves
  <2>2. CASE kind[p] \in ObjcContainers
    <3>1. /\ k \in {"ivar", "prop", "decl", "def", "fn"}
          /\ k \in {"def", "fn"} => kind[p] = "impl"
      BY <2>2 DEF ObjcUnder, ObjcContainers
    <3>. QED
      BY <3>1, <2>2, <1>2 DEF CFits, CRegions, ObjcContainers, CWays, CBodies, CInBodies, CLeaves
  <2>3. CASE kind[p] \in {"def", "fn", "call"}
    <3>1. k = "call"
      BY <2>3 DEF ObjcUnder
    <3>. QED
      BY <3>1, <2>3 DEF CFits, CRegions, CWays, CBodies, CInBodies, CLeaves
  <2>4. CASE kind[p] = "menum"
    <3>1. k = "item"
      BY <2>4 DEF ObjcUnder
    <3>. QED
      BY <3>1, <2>4 DEF CFits, CRegions, CWays, CBodies, CInBodies, CLeaves
  <2>5. kind[p] \in CRegions \cup ObjcContainers \cup {"def", "fn", "call", "menum"}
    BY DEF ObjcUnder, CRegions, ObjcContainers
  <2>. QED
    BY <2>1, <2>2, <2>3, <2>4, <2>5
<1>. QED
  BY <1>1, <1>2 DEF Fits

LEMMA KtUnderKinds ==
  ASSUME NEW p
  PROVE  /\ "file" \notin KtUnder(p)
         /\ prof.lang = "kotlin" => \A k \in KtUnder(p) : Fits(k, kind[p])
<1>1. "file" \notin KtUnder(p)
  BY ZenonT(60) DEF KtUnder, KtMembers, KtTypes, KtCode
<1>2. ASSUME prof.lang = "kotlin", NEW k \in KtUnder(p) PROVE Fits(k, kind[p])
  <2>1. kind[p] \in KtHomes \cup KtBodies \cup KtInBodies \cup {"file"}
    BY DEF KtUnder, KtHomes, KtBodies, KtInBodies, KtTypes
  <2>2. k \in KtInBodies => kind[p] \in KtInBodies \cup KtBodies
    BY ZenonT(60) DEF KtUnder, KtBodies, KtInBodies, KtTypes, KtMembers, KtCode
  <2>3. k = "default" => kind[p] = "fn"
    BY ZenonT(60) DEF KtUnder, KtTypes, KtMembers, KtCode
  <2>4. kind[p] = "primary" => k \in {"param", "call"}
    BY DEF KtUnder
  <2>. QED
    BY <2>1, <2>2, <2>3, <2>4, <1>2 DEF Fits
<1>. QED
  BY <1>1, <1>2

LEMMA PhpUnderKinds ==
  ASSUME NEW p
  PROVE  /\ "file" \notin PhpUnder(p)
         /\ prof.lang = "php" => \A k \in PhpUnder(p) : Fits(k, kind[p])
<1>1. "file" \notin PhpUnder(p)
  BY ZenonT(60) DEF PhpUnder, PhpStatements
<1>. QED
  BY <1>1 DEF Fits

LEMMA SwiftUnderKinds ==
  ASSUME NEW p
  PROVE  /\ "file" \notin SwiftUnder(p)
         /\ prof.lang = "swift" => \A k \in SwiftUnder(p) : Fits(k, kind[p])
<1>1. "file" \notin SwiftUnder(p)
  BY ZenonT(60) DEF SwiftUnder, SwiftMembers, SwiftExtensions, SwiftBodied
<1>2. kind[p] \in {"prop", "call"} => SwiftUnder(p) = {"call"}
  BY DEF SwiftUnder, SwiftExtensions, SwiftBodied
<1>. QED
  BY <1>1, <1>2 DEF Fits

\* What the parser's step changes: a node below the open one of its level.
LEMMA GrowFacts ==
  ASSUME Shape, NEW l \in Levels, NEW k, Grow(l, k)
  PROVE  /\ Shape' /\ pass = "parse" /\ pass' = "parse" /\ out' = {} /\ prof' = prof
         /\ Len(lev') = Len(lev) + 1 /\ lev'[Len(lev')] = l /\ kind'[Len(lev')] = k
         /\ File' = File \cup {Len(lev')}
         /\ \A n \in File : lev'[n] = lev[n] /\ kind'[n] = kind[n]
         /\ \A n, p \in File : IsParent(lev', n, p) <=> IsParent(lev, n, p)
         /\ \A n \in File : ~IsParent(lev', n, Len(lev'))
         /\ Open(l) \in File /\ IsOpen(lev, l, Open(l))
         /\ \A p \in File : IsOpen(lev, l, p) => p = Open(l)
         /\ \A p \in File' : IsParent(lev', Len(lev'), p) => p = Open(l)
<1>1. /\ IsTree(lev) /\ lev' = Append(lev, l) /\ l \in 1 .. lev[Len(lev)] + 1
      /\ pass = "parse" /\ pass' = "parse" /\ out' = out /\ out = {} /\ prof' = prof
      /\ kind' = Append(kind, k) /\ k \in DOMAIN prof.names
  BY DEF Shape, Grow, Levels
<1> DEFINE Types == DOMAIN prof.names \cup {"file"}
<1>2. kind \in Seq(Types) /\ Len(kind) = Len(lev) /\ k \in Types
  BY <1>1 DEF Shape
<1>3. /\ Len(kind') = Len(kind) + 1 /\ kind' \in Seq(Types)
      /\ kind'[Len(kind) + 1] = k
      /\ \A n \in 1 .. Len(kind) : kind'[n] = kind[n]
  <2> HIDE DEF Types
  <2>. QED
    BY <1>1, <1>2
<1>4. /\ IsTree(lev') /\ Len(lev') = Len(lev) + 1
      /\ Nodes(lev') = Nodes(lev) \cup {Len(lev')}
      /\ \A n \in Nodes(lev) : lev'[n] = lev[n]
      /\ lev'[Len(lev')] = l
      /\ \A n, p \in Nodes(lev) : IsParent(lev', n, p) <=> IsParent(lev, n, p)
      /\ \A n \in Nodes(lev) : ~IsParent(lev', n, Len(lev'))
      /\ \A p \in Nodes(lev') : IsParent(lev', Len(lev'), p)
                                 => p \in Nodes(lev) /\ IsOpen(lev, l, p)
      /\ \A p, q \in Nodes(lev) : IsOpen(lev, l, p) /\ IsOpen(lev, l, q) => p = q
  BY <1>1, Grown, Zenon
<1>5. Open(l) \in Nodes(lev) /\ IsOpen(lev, l, Open(l))
  <2>1. \E p \in Nodes(lev) : IsOpen(lev, l, p)
    BY <1>1, OpenExists
  <2>2. Open(l) = CHOOSE p \in Nodes(lev) : IsOpen(lev, l, p)
    BY DEF Open, IsOpen, File
  <2>. QED
    BY <2>1, <2>2
<1>6. Shape'
  BY <1>1, <1>2, <1>3, <1>4 DEF Shape
<1>7. \A n \in File : kind'[n] = kind[n]
  BY <1>2, <1>3 DEF File, Nodes
<1>8. kind'[Len(lev')] = k
  BY <1>2, <1>3, <1>4
<1>9. \A p \in File : IsOpen(lev, l, p) => p = Open(l)
  BY <1>4, <1>5 DEF File
<1>10. \A p \in File' : IsParent(lev', Len(lev'), p) => p = Open(l)
  BY <1>4, <1>5 DEF File
<1>. QED
  BY <1>1, <1>4, <1>5, <1>6, <1>7, <1>8, <1>9, <1>10, Zenon DEF File

\* A type that is not the root's keeps the root alone.
LEMMA GrowRooted ==
  ASSUME Shape, Rooted, NEW l \in Levels, NEW k, Grow(l, k), k # "file"
  PROVE  Rooted'
<1>1. /\ Len(lev') = Len(lev) + 1 /\ kind'[Len(lev')] = k
      /\ File' = File \cup {Len(lev')} /\ \A n \in File : kind'[n] = kind[n]
  BY GrowFacts
<1>2. Len(lev) \in Nat \ {0} /\ 1 \in File
  BY TreeShape DEF Shape, File, Nodes
<1>3. kind'[1] = "file"
  BY <1>1, <1>2 DEF Rooted
<1>4. \A n \in File' : n # 1 => kind'[n] # "file"
  BY <1>1, <1>2 DEF Rooted
<1>. QED
  BY <1>3, <1>4 DEF Rooted

LEMMA GrowGo ==
  ASSUME Shape, Rooted, GoGrammar, NEW l \in Levels, NEW k, Grow(l, k), k \in GoUnder(Open(l))
  PROVE  GoGrammar'
<1> DEFINE N == Len(lev')
           P == Open(l)
<1>1. /\ N = Len(lev) + 1 /\ kind'[N] = k /\ lev'[N] = l
      /\ File' = File \cup {N}
      /\ \A n \in File : lev'[n] = lev[n] /\ kind'[n] = kind[n]
      /\ P \in File /\ IsOpen(lev, l, P)
      /\ \A p \in File : IsOpen(lev, l, p) => p = P
  BY GrowFacts
<1>2. /\ Len(lev) \in Nat \ {0} /\ 1 \in File /\ lev[1] = 0 /\ l \in Nat
      /\ File = 1 .. Len(lev)
      /\ \A n \in File : lev[n] \in Nat
      /\ \A n \in File : n # 1 => lev[n] >= 1
  <2>1. IsTree(lev)
    BY DEF Shape
  <2>. QED
    BY <2>1, TreeShape DEF File, Nodes, Levels
<1>3. k \in GoTop <=> l = 1
  <2>1. lev[P] = l - 1
    BY <1>1 DEF IsOpen
  <2>2. CASE P = 1
    <3>1. l = 1 /\ kind[P] = "file"
      BY <2>1, <2>2, <1>2 DEF Rooted
    <3>. QED
      BY <3>1, GoUnderKinds
  <2>3. CASE P # 1
    <3>1. l # 1 /\ kind[P] # "file"
      BY <2>1, <2>3, <1>1, <1>2 DEF Rooted
    <3>2. GoUnder(P) \cap GoTop = {}
      BY <3>1, GoUnderKinds
    <3>. QED
      BY <3>1, <3>2
  <2>. QED
    BY <2>2, <2>3
<1>4. \A n \in File' : kind'[n] \in GoTop <=> lev'[n] = 1
  BY <1>1, <1>3 DEF GoGrammar
<1>5. ASSUME NEW n \in File', kind'[n] = "call", n + 1 \in File', lev'[n + 1] = lev'[n] + 1
      PROVE  kind'[n + 1] \in GoExpr
  <2>1. n \in File
    BY <1>1, <1>2, <1>5
  <2>2. CASE n + 1 \in File
    BY <2>1, <2>2, <1>1, <1>5 DEF GoGrammar
  <2>3. CASE n + 1 \notin File
    <3>1. n = Len(lev) /\ n + 1 = N
      BY <2>1, <2>3, <1>1, <1>2, <1>5
    <3>2. lev[n] = l - 1
      BY <3>1, <2>1, <1>1, <1>2, <1>5
    <3>3. IsOpen(lev, l, n)
      BY <3>1, <3>2, <1>2 DEF IsOpen
    <3>4. n = P /\ kind[P] = "call"
      BY <3>3, <2>1, <1>1, <1>5
    <3>. QED
      BY <3>1, <3>4, <1>1, GoUnderKinds
  <2>. QED
    BY <2>2, <2>3
<1>. QED
  BY <1>4, <1>5 DEF GoGrammar

LEMMA GrowJava ==
  ASSUME Shape, JavaGrammar, NEW l \in Levels, NEW k, Grow(l, k), k \in JavaUnder(Open(l))
  PROVE  JavaGrammar'
<1> DEFINE N == Len(lev')
<1>1. /\ kind'[N] = k
      /\ File' = File \cup {N}
      /\ \A n \in File : kind'[n] = kind[n]
      /\ \A n, p \in File : IsParent(lev', n, p) <=> IsParent(lev, n, p)
      /\ \A n \in File : ~IsParent(lev', n, N)
      /\ Open(l) \in File
      /\ \A p \in File' : IsParent(lev', N, p) => p = Open(l)
  BY GrowFacts
<1>2. k \in JavaHoused => kind[Open(l)] \in JavaHomes
  BY JavaUnderKinds
<1>3. ASSUME NEW n \in File', NEW p \in File', kind'[n] \in JavaHoused, IsParent(lev', n, p)
      PROVE  kind'[p] \in JavaHomes
  <2>1. CASE n = N
    BY <2>1, <1>1, <1>2, <1>3
  <2>2. CASE n # N
    BY <2>2, <1>1, <1>3 DEF JavaGrammar
  <2>. QED
    BY <2>1, <2>2
<1>. QED
  BY <1>3 DEF JavaGrammar, JavaHomes, JavaHoused

LEMMA GrowPy ==
  ASSUME Shape, PyGrammar, NEW l \in Levels, NEW k, Grow(l, k), k \in PyUnder(Open(l))
  PROVE  PyGrammar'
<1> DEFINE N == Len(lev')
           FitsPy(n, p) == /\ n \in PyBlocks => p \in PyBlocks
                           /\ n = "header" => p \in {"def", "class"}
                           /\ p = "deco" => n \in {"decorator", "def", "class"}
                           /\ p \in PyCallHolders => n = "call"
<1>1. /\ kind'[N] = k
      /\ File' = File \cup {N}
      /\ \A n \in File : kind'[n] = kind[n]
      /\ \A n, p \in File : IsParent(lev', n, p) <=> IsParent(lev, n, p)
      /\ \A n \in File : ~IsParent(lev', n, N)
      /\ Open(l) \in File
      /\ \A p \in File' : IsParent(lev', N, p) => p = Open(l)
  BY GrowFacts
<1>2. FitsPy(k, kind[Open(l)])
  BY PyUnderKinds
<1>3. \A n, p \in File : IsParent(lev, n, p) => FitsPy(kind[n], kind[p])
  BY DEF PyGrammar
<1> HIDE DEF FitsPy
<1>4. ASSUME NEW n \in File', NEW p \in File', IsParent(lev', n, p)
      PROVE  FitsPy(kind'[n], kind'[p])
  <2>1. CASE n = N
    BY <2>1, <1>1, <1>2, <1>4
  <2>2. CASE n # N
    BY <2>2, <1>1, <1>3, <1>4
  <2>. QED
    BY <2>1, <2>2
<1>. QED
  BY <1>4 DEF PyGrammar, PyBlocks, PyCallHolders, FitsPy

\* A new node that fits below the open one keeps the grammar.
LEMMA GrowGrammar ==
  ASSUME Shape, Grammar, NEW l \in Levels, NEW k, Grow(l, k), Fits(k, kind[Open(l)]),
         prof.lang = "csharp" /\ kind[Open(l)] = "stmt" => Kids(Open(l)) = {}
  PROVE  Grammar'
<1> DEFINE N == Len(lev')
<1>1. /\ kind'[N] = k /\ prof' = prof
      /\ File' = File \cup {N} /\ N \notin File
      /\ \A n \in File : kind'[n] = kind[n]
      /\ \A n, p \in File : IsParent(lev', n, p) <=> IsParent(lev, n, p)
      /\ \A n \in File : ~IsParent(lev', n, N)
      /\ Open(l) \in File
      /\ \A p \in File' : IsParent(lev', N, p) => p = Open(l)
  BY GrowFacts, TreeShape DEF Shape, File, Nodes
<1>2. \A n, p : Fits(n, p)' <=> Fits(n, p)
  BY <1>1 DEF Fits, CFits
<1>3. \A n, p \in File : IsParent(lev, n, p) => Fits(kind[n], kind[p])
  BY DEF Grammar
<1> HIDE DEF N
<1>4. ASSUME NEW n \in File', NEW p \in File', IsParent(lev', n, p)
      PROVE  Fits(kind'[n], kind'[p])
  <2>1. CASE n = N
    BY <2>1, <1>1, <1>4
  <2>2. CASE n # N
    BY <2>2, <1>1, <1>3, <1>4
  <2>. QED
    BY <2>1, <2>2
<1>5. ASSUME prof.lang = "csharp", NEW n \in File', NEW m \in File', NEW p \in File', kind'[p] = "stmt",
             IsParent(lev', n, p), IsParent(lev', m, p), n # m
      PROVE  FALSE
  <2>1. p \in File /\ kind[p] = "stmt"
    BY <1>1, <1>5
  <2>2. CASE n = N \/ m = N
    <3>1. p = Open(l) /\ \E e \in File : IsParent(lev, e, p)
      BY <2>1, <2>2, <1>1, <1>5
    <3>2. Kids(p) # {}
      BY <3>1 DEF Kids
    <3>. QED
      BY <2>1, <3>1, <3>2, <1>5
  <2>3. CASE n # N /\ m # N
    BY <2>1, <2>3, <1>1, <1>5 DEF Grammar
  <2>. QED
    BY <2>2, <2>3
<1>6. \A n, p \in File' : IsParent(lev', n, p) => Fits(kind[n], kind[p])'
  BY <1>2, <1>4
<1>. QED
  BY <1>1, <1>5, <1>6 DEF Grammar

-----------------------------------------------------------------------------
(* The passes                                                              *)

\* What is read off the file does not change while the file does not.
LEMMA SameFile ==
  ASSUME UNCHANGED fileVars
  PROVE  /\ File' = File
         /\ \A K : Of(K)' = Of(K)
         /\ \A n : GoCallSites(n)' = GoCallSites(n)
         /\ \A n : JavaCallSites(n)' = JavaCallSites(n)
         /\ \A n : PyCallSites(n)' = PyCallSites(n)
         /\ \A n : Gives(n)' = Gives(n)
         /\ \A s : JsOwns(s)' <=> JsOwns(s)
         /\ JsNestedFunctionDecls' = JsNestedFunctionDecls
         /\ Grammar' <=> Grammar
         /\ GoWhole' <=> GoWhole
<1>1. prof' = prof /\ lev' = lev /\ kind' = kind /\ name' = name
  BY DEF fileVars
<1>2. File' = File
  BY <1>1 DEF File
<1>3. \A K : Of(K)' = Of(K)
  BY <1>1, <1>2 DEF Of
<1>4. \A n : Kids(n)' = Kids(n)
  BY <1>1, <1>2 DEF Kids
<1>5. \A n : Up(n)' = Up(n)
  BY <1>1, <1>2 DEF Up
<1>6. \A b, n : Way(b, n)' = Way(b, n)
  BY <1>1 DEF Way
<1>7. \A b, c, s : CollectCallSites(b, c, s)' = CollectCallSites(b, c, s)
  BY <1>1, <1>6 DEF CollectCallSites
<1>8. \A n : GoCallSites(n)' = GoCallSites(n)
  BY <1>1, <1>3, <1>5, <1>7 DEF GoCallSites, IsCalled, IsFirstKid, FirstKid
<1>9. JavaCalls' = JavaCalls
  BY <1>3 DEF JavaCalls
<1>10. \A n : JavaCallSites(n)' = JavaCallSites(n)
  BY <1>3, <1>7, <1>9 DEF JavaCallSites
<1>11. PyCalls' = PyCalls
  BY <1>3, <1>4 DEF PyCalls
<1>12. \A n : PyHeader(n)' = PyHeader(n)
  BY <1>3, <1>5 DEF PyHeader
<1>13. \A n : PyCallSites(n)' = PyCallSites(n)
  BY <1>1, <1>3, <1>6, <1>11, <1>12 DEF PyCallSites, PyScopes
<1>14. GoWhole' <=> GoWhole
  BY <1>3, <1>4 DEF GoWhole
<1>15. \A n : PhpCallSites(n)' = PhpCallSites(n) /\ SwiftCallSites(n)' = SwiftCallSites(n)
  BY <1>3, <1>7 DEF PhpCallSites, SwiftCallSites
<1>16. PhpBodies' = PhpBodies
  BY <1>3, <1>6 DEF PhpBodies, PhpVisited
<1>17. SwiftBodies' = SwiftBodies
  BY <1>3, <1>5, <1>6 DEF SwiftBodies, SwiftVisited, SwiftBodied
<1>18. \A n : CsGives(n)' = CsGives(n)
  <2>1. \A n : CsCallSites(n)' = CsCallSites(n) /\ (CsVisited(n)' <=> CsVisited(n))
    BY <1>1, <1>3, <1>5, <1>6, <1>7 DEF CsCallSites, CsVisited
  <2>3. \A n : CsMethodSites(n)' = CsMethodSites(n)
    <3>1. \A n : CsConstructorInitializerSites(n)' = CsConstructorInitializerSites(n)
      BY <1>1, <1>4 DEF CsConstructorInitializerSites
    <3>. QED
      BY <2>1, <3>1, <1>1 DEF CsMethodSites
  <2>2. CsTopLevelStatements' = CsTopLevelStatements
    BY <1>3, <1>4 DEF CsTopLevelStatements
  <2>. QED
    BY <2>1, <2>2, <2>3, <1>1, Zenon DEF CsGives
<1>19. \A n : KtGives(n)' = KtGives(n)
  <2>1. \A n : KtCallSites(n)' = KtCallSites(n) /\ (KtVisited(n)' <=> KtVisited(n))
    BY <1>1, <1>3, <1>4, <1>5, <1>6, <1>7 DEF KtCallSites, KtVisited
  <2>2. \A n : KtHasConstructor(n)' <=> KtHasConstructor(n)
    BY <1>1, <1>3, <1>4 DEF KtHasConstructor
  <2>3. \A n : KtInitializers(n)' = KtInitializers(n)
    BY <1>1, <1>3, <1>4 DEF KtInitializers
  <2>. QED
    BY <2>1, <2>2, <2>3, <1>1, Zenon DEF KtGives
<1>20. \A n : CppCallSites(n)' = CppCallSites(n) /\ (CDefined(n)' <=> CDefined(n))
  <2>1. \A n : CppCallSites(n)' = CppCallSites(n)
    BY <1>3, <1>7 DEF CppCallSites
  <2>2. \A n : CppEntered(n)' <=> CppEntered(n)
    BY <1>1, <1>5, <1>6 DEF CppEntered
  <2>. QED
    BY <2>1, <2>2, <1>1, <1>5 DEF CDefined
<1>21. \A n : RustCallSites(n)' = RustCallSites(n) /\ (RustEntered(n)' <=> RustEntered(n))
  <2>1. \A n : RustLine(n)' = RustLine(n)
    BY <1>1, <1>2 DEF RustLine
  <2>2. ASSUME NEW n, NEW c PROVE RustSiteLine(n, c)' = RustSiteLine(n, c)
    <3> DEFINE macros == Way(n, c) \cap Of({"macro"})
               first == CHOOSE m \in macros : \A k \in macros : m <= k
    <3>1. macros' = macros
      BY <1>3, <1>6
    <3>2. first' = first
      BY <3>1, Zenon
    <3>3. RustSiteLine(n, c) = RustLine(IF macros = {} THEN c ELSE first)
      BY DEF RustSiteLine
    <3>4. RustSiteLine(n, c)' = RustLine(IF macros = {} THEN c ELSE first)'
      BY DEF RustSiteLine
    <3> HIDE DEF macros, first
    <3>. QED
      BY <3>1, <3>2, <3>3, <3>4, <2>1
  <2>3. \A n : Subtree(lev, n)' = Subtree(lev, n)
    BY <1>1
  <2>4. \A f, line : SharesLine(f, line)' <=> SharesLine(f, line)
    BY <2>1, <2>3 DEF SharesLine
  <2>5. \A n : Under(n)' = Under(n)
    BY <2>3 DEF Under
  <2>6. \A n : RustSites(n)' = RustSites(n) /\ RustNested(n)' = RustNested(n)
    BY <2>5, <1>3, <1>5, <1>6, <1>7 DEF RustSites, RustNested
  <2>7. \A n : RustCallSites(n)' = RustCallSites(n)
    BY <2>2, <2>4, <2>6 DEF RustCallSites
  <2>8. \A n : RustRead(n)' <=> RustRead(n)
    BY <1>1, <1>2 DEF RustRead
  <2>. QED
    BY <2>7, <2>8, <1>1, <1>6 DEF RustEntered
<1>22. \A n : Gives(n)' = Gives(n)
  BY <1>1, <1>15, <1>16, <1>17, <1>18, <1>19, <1>20, <1>21 DEF Gives
<1>23. Grammar' <=> Grammar
  BY <1>1, <1>2 DEF Grammar, Fits, CFits
<1>24. JsNestedFunctionDecls' = JsNestedFunctionDecls
  BY <1>1, <1>3 DEF JsNestedFunctionDecls
<1>25. \A n : JsGives(n)' = JsGives(n)
  <2>1. \A n : JsCallSites(n)' = JsCallSites(n)
    BY <1>3, <1>7, <1>24 DEF JsCallSites
  <2>2. \A n : Value(n)' = Value(n)
    BY <1>1, <1>4 DEF Value, FirstKid
  <2>3. \A n : JsDecoratorCalls(n)' = JsDecoratorCalls(n)
    BY <2>1, <1>1, <1>4 DEF JsDecoratorCalls
  <2>. QED
    BY <2>1, <2>2, <2>3, <1>1 DEF JsGives, FirstKid
<1>26. JsCtx' = JsCtx
  <2>1. \A n : JsObjectHasFunctions(n)' <=> JsObjectHasFunctions(n)
    BY <1>1, <1>4 DEF JsObjectHasFunctions, Value, FirstKid
  <2>2. \A n, v, c : JsValueOf(n, v, c)' = JsValueOf(n, v, c)
    BY <2>1, <1>1 DEF JsValueOf, JsAssignParent, JsAnonymous
  <2>3. \A n, p, c : JsBelow(n, p, c)' = JsBelow(n, p, c)
    BY <2>2, <1>1 DEF JsBelow, JsBy, JsUnseen, JsObjectIn
  <2>. QED
    BY <2>3, <1>2, <1>5 DEF JsCtx, JsBy, JsUnseen
<1>27. \A s : JsOwns(s)' <=> JsOwns(s)
  BY <1>1, <1>2, <1>24, <1>25, <1>26 DEF JsOwns, JsSeen
<1>. QED
  BY <1>2, <1>3, <1>8, <1>10, <1>13, <1>14, <1>22, <1>23, <1>24, <1>27

\* A pass keeps the invariant if its symbols do what the language asks.
LEMMA PassFacts ==
  ASSUME Shape, Rooted, NEW from, NEW to, NEW symbols, Pass(from, to, symbols), to # "parse"
  PROVE  /\ Shape' /\ Rooted' /\ UNCHANGED fileVars /\ prof' = prof /\ File' = File
         /\ pass' = to /\ out' = symbols
         /\ GoGrammar => GoGrammar'
         /\ JavaGrammar => JavaGrammar'
         /\ PyGrammar => PyGrammar'
         /\ Grammar => Grammar'
<1>1. /\ UNCHANGED fileVars /\ pass' = to /\ out' = symbols
      /\ prof' = prof /\ lev' = lev /\ kind' = kind
  BY DEF Pass, fileVars
<1>2. File' = File /\ (Grammar' <=> Grammar)
  BY <1>1, SameFile
<1>. QED
  BY <1>1, <1>2 DEF Shape, Rooted, GoGrammar, JavaGrammar, GoTop, GoExpr, JavaHomes, JavaHoused,
                    PyGrammar, PyBlocks, PyCallHolders

\* The symbols of a Go declaration: a function has the calls of its own.
LEMMA GoSymbolsOf ==
  ASSUME GoGrammar, NEW n \in File, lev[n] = 1
  PROVE  /\ \A s \in ExtractGoNodes(n) :
              s.calls = {} \/ (s.at \in GoFunctions /\ s.calls = GoCallSites(s.at))
         /\ n \in GoFunctions => \E s \in ExtractGoNodes(n) : s.at = n /\ s.calls = GoCallSites(n)
<1>1. kind[n] \in GoTop
  BY DEF GoGrammar
<1>2. CASE kind[n] = "func"
  <2>1. /\ ExtractGoNodes(n) = {GoFuncSym(n)} /\ n \in GoFunctions
        /\ GoFuncSym(n).at = n /\ GoFuncSym(n).calls = GoCallSites(n)
    BY <1>2 DEF ExtractGoNodes, GoFuncSym, MemberOf, Sym, GoFunctions, Of
  <2>. QED
    BY <2>1
<1>3. CASE kind[n] = "method"
  <2>1. /\ ExtractGoNodes(n) = {GoMethodSym(n)} /\ n \in GoFunctions
        /\ GoMethodSym(n).at = n /\ GoMethodSym(n).calls = GoCallSites(n)
    BY <1>3 DEF ExtractGoNodes, GoMethodSym, Sym, GoFunctions, Of
  <2>. QED
    BY <2>1
<1>4. CASE kind[n] \in {"types", "consts", "vars"}
  <2>1. n \notin GoFunctions
    BY <1>4 DEF GoFunctions, Of
  <2>2. \A s \in GoTypeDecl(n) : s.calls = {}
    BY DEF GoTypeDecl, GoStructFields, GoInterfaceMethods, GoMember, MemberOf, Sym
  <2>3. \A sort : \A s \in GoSpecDecl(n, sort) : s.calls = {}
    BY DEF GoSpecDecl, MemberOf, Sym
  <2>. QED
    BY <1>4, <2>1, <2>2, <2>3 DEF ExtractGoNodes
<1>. QED
  BY <1>1, <1>2, <1>3, <1>4 DEF GoTop

LEMMA GoStep ==
  ASSUME IInv, GoNext
  PROVE  IInv'
<1>1. prof.lang = "go" /\ Shape /\ Rooted /\ GoGrammar
  BY DEF GoNext, GoFile, GoExtract, IInv, GoShape
<1>2. CASE GoFile
  <2>1. PICK l \in Levels : \E k \in GoUnder(Open(l)) : Grow(l, k)
    BY <1>2 DEF GoFile
  <2>2. PICK k \in GoUnder(Open(l)) : Grow(l, k)
    BY <2>1
  <2>3. k # "file"
    BY GoUnderKinds
  <2>4. Shape' /\ pass' = "parse" /\ prof' = prof
    BY <1>1, <2>2, GrowFacts
  <2>5. Rooted'
    BY <1>1, <2>2, <2>3, GrowRooted
  <2>6. GoGrammar'
    BY <1>1, <2>2, GrowGo
  <2>. QED
    BY <1>1, <2>4, <2>5, <2>6 DEF IInv, GoShape, JavaShape, PyShape, JsShape, OuterShape, GivenLanguages, OuterBodyLanguages
<1>3. CASE GoExtract
  <2> DEFINE symbols == UNION {ExtractGoNodes(n) : n \in Kids(1)}
  <2>1. GoWhole /\ Pass("parse", "done", symbols)
    BY <1>3 DEF GoExtract
  <2>2. /\ Shape' /\ Rooted' /\ UNCHANGED fileVars /\ prof' = prof /\ out' = symbols
        /\ GoGrammar'
    <3> HIDE DEF symbols
    <3>. QED
      BY <1>1, <2>1, PassFacts
  <2>3. /\ Len(lev) \in Nat \ {0} /\ lev[1] = 0 /\ File = 1 .. Len(lev)
        /\ \A n \in 2 .. Len(lev) : lev[n] \in Nat /\ lev[n] >= 1
    BY <1>1, TreeShape DEF Shape, File, Nodes
  <2>4. \A n \in Kids(1) : n \in File /\ lev[n] = 1
    BY <2>3 DEF Kids, IsParent
  <2>5. GoFunctions \subseteq Kids(1)
    <3> SUFFICES ASSUME NEW n \in GoFunctions PROVE n \in Kids(1)
      OBVIOUS
    <3>1. n \in File /\ lev[n] = 1
      BY <1>1 DEF GoFunctions, Of, GoGrammar, GoTop
    <3>2. n \in 2 .. Len(lev) /\ \A m \in 2 .. n : m \in 2 .. Len(lev)
      BY <3>1, <2>3
    <3>3. \A m \in 2 .. n : lev[m] > lev[1]
      BY <3>2, <2>3
    <3>. QED
      BY <3>1, <3>2, <3>3, <2>3 DEF Kids, IsParent
  <2>6. \A s \in symbols : s.calls = {} \/ (s.at \in GoFunctions /\ s.calls = GoCallSites(s.at))
    BY <1>1, <2>4, GoSymbolsOf
  <2>7. \A n \in GoFunctions : \E s \in symbols : s.at = n /\ s.calls = GoCallSites(n)
    BY <1>1, <2>4, <2>5, GoSymbolsOf
  <2>8. GoFunctions' = GoFunctions /\ (\A n : GoCallSites(n)' = GoCallSites(n)) /\ GoWhole'
    BY <2>1, <2>2, SameFile DEF GoFunctions
  <2>9. GoOut'
    <3> HIDE DEF symbols
    <3>. QED
      BY <2>2, <2>6, <2>7, <2>8 DEF GoOut
  <2>. QED
    BY <1>1, <2>2, <2>9 DEF IInv, GoShape, JavaShape, PyShape, JsShape, OuterShape, GivenLanguages, OuterBodyLanguages
<1>. QED
  BY <1>2, <1>3 DEF GoNext

\* A field stands on no executable.
JavaFieldKinds == {"field", "constant", "component"}
JavaPlaced(s) == s.sort = "field" => kind[s.at] \in JavaFieldKinds

\* Every symbol a Java node gets has the calls of its executable, or none.
LEMMA JavaSymbolsOf ==
  ASSUME NEW n \in File
  PROVE  \A s \in JavaEmit(n) : JavaOwns(s) /\ JavaPlaced(s)
<1>1. \A class, sort, marks, calls :
        LET s == JavaSym(n, sort, class, calls, marks)
        IN  s.at = n /\ s.calls = calls /\ s.sort = sort
  BY DEF JavaSym, Sym
<1>2. kind[n] \notin JavaExecutables =>
        \A class, sort, marks : JavaOwns(JavaSym(n, sort, class, {}, marks))
  BY <1>1 DEF JavaOwns
<1>3. kind[n] \in JavaExecutables =>
        \A class, sort, marks : JavaOwns(JavaSym(n, sort, class, JavaCallSites(n), marks))
  BY <1>1 DEF JavaOwns
<1>4. \A class, sort, marks, calls :
        kind[n] \in JavaFieldKinds \/ sort # "field" =>
          JavaPlaced(JavaSym(n, sort, class, calls, marks))
  BY <1>1 DEF JavaPlaced
<1>5. ASSUME NEW class, NEW s \in JavaVisit(n, class)
      PROVE  JavaOwns(s) /\ JavaPlaced(s)
  <2>1. CASE kind[n] \in JavaExecutables
    BY <1>3, <1>4, <1>5, <2>1 DEF JavaVisit, JavaExecutables, JavaMethods, JavaTypes
  <2>2. CASE kind[n] \notin JavaExecutables
    BY <1>2, <1>4, <1>5, <2>2
       DEF JavaVisit, JavaFieldDecl, JavaRecordComponents, JavaExecutables, JavaFieldKinds
  <2>. QED
    BY <2>1, <2>2
<1>6. ASSUME NEW class, NEW s \in JavaNestedExecutables(n, class)
      PROVE  JavaOwns(s) /\ JavaPlaced(s)
  <2>1. kind[n] \in JavaTypes \cup {"anon"} => kind[n] \notin JavaExecutables
    BY DEF JavaTypes, JavaExecutables, JavaMethods
  <2>. QED
    BY <1>2, <1>3, <1>4, <1>6, <2>1 DEF JavaNestedExecutables, JavaExecutables
<1>. QED
  BY <1>5, <1>6 DEF JavaEmit

\* An accessor has no calls, and stands on the field it is for.
LEMMA LombokSymbols ==
  ASSUME NEW n, NEW declared, \A s \in declared : JavaOwns(s) /\ JavaPlaced(s)
  PROVE  \A s \in LombokAccessors(n, declared) : JavaOwns(s)
<1> SUFFICES ASSUME NEW s \in LombokAccessors(n, declared) PROVE JavaOwns(s)
  OBVIOUS
<1>1. PICK f \in declared : f.sort = "field" /\ s.at = f.at /\ s.calls = {}
  BY DEF LombokAccessors, Sym
<1>2. f.at \in File /\ kind[f.at] \in JavaFieldKinds
  BY <1>1 DEF JavaOwns, JavaPlaced
<1>. QED
  BY <1>1, <1>2 DEF JavaOwns, JavaFieldKinds, JavaExecutables, JavaMethods

\* Only a symbol's name and parent change when it is reattached.
LEMMA ReattachedKeepsCalls ==
  ASSUME NEW s, JavaOwns(s)
  PROVE  JavaOwns(JavaReattached(s))
<1>1. JavaReattached(s).at = s.at /\ JavaReattached(s).calls = s.calls
  BY DEF JavaReattached, Sym
<1>. QED
  BY <1>1 DEF JavaOwns

LEMMA JavaStep ==
  ASSUME IInv, JavaNext
  PROVE  IInv'
<1>1. /\ prof.lang = "java" /\ Shape /\ Rooted /\ JavaGrammar
      /\ \A s \in out : JavaOwns(s)
  BY DEF JavaNext, JavaFile, JavaVisitFile, JavaReattachOrphans, IInv, JavaShape
<1>2. CASE JavaFile
  <2>1. PICK l \in Levels : \E k \in JavaUnder(Open(l)) : Grow(l, k)
    BY <1>2 DEF JavaFile
  <2>2. PICK k \in JavaUnder(Open(l)) : Grow(l, k)
    BY <2>1
  <2>3. k # "file"
    BY JavaUnderKinds
  <2>4. Shape' /\ out' = {} /\ prof' = prof
    BY <1>1, <2>2, GrowFacts
  <2>5. Rooted'
    BY <1>1, <2>2, <2>3, GrowRooted
  <2>6. JavaGrammar'
    BY <1>1, <2>2, GrowJava
  <2>. QED
    BY <1>1, <2>4, <2>5, <2>6 DEF IInv, GoShape, JavaShape, PyShape, JsShape, OuterShape, GivenLanguages, OuterBodyLanguages
<1>3. ASSUME NEW from, NEW to, NEW symbols, Pass(from, to, symbols), to # "parse",
             \A s \in symbols : JavaOwns(s)
      PROVE  IInv'
  <2>1. /\ Shape' /\ Rooted' /\ UNCHANGED fileVars /\ prof' = prof /\ out' = symbols
        /\ JavaGrammar'
    BY <1>1, <1>3, PassFacts
  <2>2. /\ Of(JavaExecutables)' = Of(JavaExecutables)
        /\ \A n : JavaCallSites(n)' = JavaCallSites(n)
    BY <2>1, SameFile
  <2>3. \A s \in out' : JavaOwns(s)'
    BY <1>3, <2>1, <2>2, SameFile DEF JavaOwns, fileVars
  <2>. QED
    BY <1>1, <2>1, <2>3 DEF IInv, GoShape, JavaShape, PyShape, JsShape, OuterShape, GivenLanguages, OuterBodyLanguages
<1>4. CASE JavaVisitFile
  <2> DEFINE symbols ==
        JavaDeclared \cup UNION {LombokAccessors(s.at, JavaDeclared) :
                                   s \in {s \in JavaDeclared : kind[s.at] \in JavaTypes}}
  <2>1. Pass("parse", "orphans", symbols)
    BY <1>4 DEF JavaVisitFile
  <2>2. \A s \in JavaDeclared : JavaOwns(s) /\ JavaPlaced(s)
    BY JavaSymbolsOf DEF JavaDeclared
  <2>3. \A s \in symbols : JavaOwns(s)
    BY <2>2, LombokSymbols
  <2> HIDE DEF symbols
  <2>. QED
    BY <2>1, <2>3, <1>3
<1>5. CASE JavaReattachOrphans
  <2> DEFINE symbols == {JavaReattached(s) : s \in out}
  <2>1. Pass("orphans", "done", symbols)
    BY <1>5 DEF JavaReattachOrphans
  <2>2. \A s \in out : JavaOwns(JavaReattached(s))
    BY <1>1, ReattachedKeepsCalls
  <2>3. \A r \in symbols : JavaOwns(r)
    BY <2>2
  <2> HIDE DEF symbols
  <2>. QED
    BY <2>1, <2>3, <1>3
<1>. QED
  BY <1>2, <1>4, <1>5 DEF JavaNext

LEMMA GrowOuter ==
  ASSUME IInv, prof.lang \in GivenLanguages, NEW l \in Levels, NEW k, k # "file", Grow(l, k),
         Fits(k, kind[Open(l)]), prof.lang = "csharp" /\ kind[Open(l)] = "stmt" => Kids(Open(l)) = {}
  PROVE  IInv'
<1>1. Shape /\ Rooted /\ Grammar
  BY DEF IInv, OuterShape
<1>2. Shape' /\ prof' = prof /\ pass' = "parse" /\ out' = {}
  BY <1>1, GrowFacts
<1>3. Rooted' /\ Grammar'
  BY <1>1, GrowRooted, GrowGrammar
<1>. QED
  BY <1>2, <1>3 DEF IInv, GoShape, JavaShape, PyShape, JsShape, OuterShape, GivenLanguages, OuterBodyLanguages

LEMMA PassOuter ==
  ASSUME IInv, prof.lang \in GivenLanguages,
         NEW from, NEW to, NEW STATE symbols, Pass(from, to, symbols), to # "parse", Given(symbols),
         prof.lang = "objc" => \A s \in symbols : s.sort = "type" => s.calls = {}
  PROVE  IInv'
<1>1. Shape /\ Rooted /\ Grammar
  BY DEF IInv, OuterShape
<1>2. Shape' /\ Rooted' /\ prof' = prof /\ Grammar' /\ UNCHANGED fileVars /\ out' = symbols /\ File' = File
  BY <1>1, PassFacts
<1>3. \A n : Gives(n)' = Gives(n)
  BY <1>2, SameFile
<1>4. Given(out)'
  BY <1>2, <1>3 DEF Given
<1>. QED
  BY <1>2, <1>4 DEF IInv, GoShape, JavaShape, PyShape, JsShape, OuterShape, GivenLanguages, OuterBodyLanguages

-----------------------------------------------------------------------------
(* JavaScript: what the visitors see                                       *)

\* JsCtx says of a node what its definition does, from what it says of the
\* node above.
JsCtxStep(f, n) ==
  IF n = 1 THEN JsUnseen
  ELSE IF Up(n) = 1 THEN JsBy("visit", << >>, FALSE)
  ELSE JsBelow(n, Up(n), f[Up(n)])

LEMMA JsContext ==
  ASSUME Shape
  PROVE  \A n \in File : JsCtx[n] = JsCtxStep(JsCtx, n)
<1> DEFINE Defined(g, k) == /\ g = [n \in File |-> g[n]]
                            /\ \A n \in 1 .. k : g[n] = JsCtxStep(g, n)
           T == {k \in 0 .. Len(lev) : ~\E g : Defined(g, k)}
<1>1. Len(lev) \in Nat /\ File = 1 .. Len(lev)
  BY TreeShape DEF Shape, File, Nodes
<1>2. \A n \in File : n # 1 => Up(n) \in File /\ Up(n) < n
  BY UpIs
<1>3. T = {}
  <2> SUFFICES ASSUME T # {} PROVE FALSE
    OBVIOUS
  <2>1. T \subseteq Nat
    BY <1>1
  <2>2. PICK k \in T : \A j \in T : k <= j
    <3> HIDE DEF T
    <3>. QED
      BY <2>1, LeastNat, Zenon
  <2>3. k \in 0 .. Len(lev) /\ ~\E g : Defined(g, k)
    OBVIOUS
  <2>4. k # 0
    <3>1. Defined([n \in File |-> 0], 0)
      OBVIOUS
    <3>. QED
      BY <3>1, <2>3, Zenon
  <2>5. k \in File /\ k - 1 \in 0 .. Len(lev)
    BY <2>3, <2>4, <1>1
  <2>6. k - 1 \notin T
    BY <2>1, <2>2, <2>5
  <2>7. PICK g : Defined(g, k - 1)
    BY <2>5, <2>6
  <2> DEFINE h == [n \in File |-> IF n = k THEN JsCtxStep(g, k) ELSE g[n]]
  <2>8. \A n \in File : n # k => h[n] = g[n]
    OBVIOUS
  <2>9. h[k] = JsCtxStep(g, k)
    BY <2>5
  <2>10. h = [n \in File |-> h[n]]
    OBVIOUS
  <2> HIDE DEF h
  <2>11. \A n \in 1 .. k : JsCtxStep(h, n) = JsCtxStep(g, n)
    <3> SUFFICES ASSUME NEW n \in 1 .. k PROVE JsCtxStep(h, n) = JsCtxStep(g, n)
      OBVIOUS
    <3>1. CASE n = 1
      BY <3>1 DEF JsCtxStep
    <3>2. CASE n # 1
      <4>1. Up(n) \in File /\ Up(n) # k
        BY <3>2, <2>5, <1>1, <1>2
      <4>2. h[Up(n)] = g[Up(n)]
        BY <4>1, <2>8
      <4>. QED
        BY <4>2 DEF JsCtxStep
    <3>. QED
      BY <3>1, <3>2
  <2>12. \A n \in 1 .. k : h[n] = JsCtxStep(h, n)
    <3> SUFFICES ASSUME NEW n \in 1 .. k PROVE h[n] = JsCtxStep(h, n)
      OBVIOUS
    <3>1. CASE n = k
      BY <3>1, <2>9, <2>11
    <3>2. CASE n # k
      <4>1. n \in 1 .. k - 1 /\ n \in File
        BY <3>2, <2>5, <1>1
      <4>. QED
        BY <4>1, <3>2, <2>7, <2>8, <2>11
    <3>. QED
      BY <3>1, <3>2
  <2>13. Defined(h, k)
    BY <2>10, <2>12
  <2>. QED
    BY <2>3, <2>13
<1>4. PICK g : Defined(g, Len(lev))
  <2>1. Len(lev) \notin T /\ Len(lev) \in 0 .. Len(lev)
    BY <1>1, <1>3
  <2>. QED
    BY <2>1
<1>5. g = [n \in File |-> JsCtxStep(g, n)]
  BY <1>1, <1>4
<1>6. JsCtx = [n \in File |-> JsCtxStep(JsCtx, n)]
  BY <1>5, Zenon DEF JsCtx, JsCtxStep
<1>. QED
  BY <1>6

\* Functions and decorators: no visitor looks into them.
JsOpaque == {"fn", "method", "define", "static", "arrow", "funcexp", "deco"}

LEMMA JsByIs ==
  /\ \A v, owner, exp : JsBy(v, owner, exp).by = v
  /\ \A owner, exp, values, depth : JsObjectIn(owner, exp, values, depth).by = "object"
  /\ JsUnseen.by = "none"
BY DEF JsBy, JsObjectIn, JsUnseen

LEMMA JsValueBy ==
  ASSUME NEW p, NEW n, NEW c
  PROVE  /\ JsValueOf(p, n, c).by \in {"object", "class", "none"}
         /\ JsValueOf(p, n, c).by = "class" => kind[n] = "classexp"
         /\ kind[p] \in JsOpaque => JsValueOf(p, n, c).by = "none"
<1>1. CASE kind[n] = "object"
  <2>1. \/ JsValueOf(p, n, c) = JsUnseen
        \/ /\ kind[p] \in {"var", "exports", "module", "pair"}
           /\ \E owner, exp, values, depth : JsValueOf(p, n, c) = JsObjectIn(owner, exp, values, depth)
    BY <1>1, Zenon DEF JsValueOf
  <2>. QED
    BY <2>1, <1>1, JsByIs DEF JsOpaque
<1>2. CASE kind[n] = "classexp"
  <2>1. \/ JsValueOf(p, n, c) = JsUnseen
        \/ /\ kind[p] \in {"var", "exports", "module", "member", "chain"}
           /\ \E owner, exp : JsValueOf(p, n, c) = JsBy("class", owner, exp)
    BY <1>2, Zenon DEF JsValueOf
  <2>. QED
    BY <2>1, <1>2, JsByIs DEF JsOpaque
<1>3. CASE kind[n] \notin {"object", "classexp"}
  <2>1. JsValueOf(p, n, c) = JsUnseen
    BY <1>3, Zenon DEF JsValueOf
  <2>. QED
    BY <2>1, JsByIs
<1>. QED
  BY <1>1, <1>2, <1>3

\* What JsBelow asks for in the node above.
JsInto == {"class", "iface", "enum", "ns", "ambient", "strmod", "export"}

\* A class expression is all that jsClass sees, and the members of
\* interfaces and enums are all that the member visitor sees.
JsSeesOnly(by, n) ==
  /\ by = "class" => kind[n] = "classexp"
  /\ by = "member" => kind[n] \in {"sig", "const"}

LEMMA JsBelowBy ==
  ASSUME Grammar, prof.lang = "javascript", NEW n \in File, NEW p \in File, IsParent(lev, n, p), NEW c,
         JsSeesOnly(c.by, p)
  PROVE  /\ JsSeesOnly(JsBelow(n, p, c).by, n)
         /\ c.by = "none" \/ kind[p] \in JsOpaque => JsBelow(n, p, c).by = "none"
<1>1. CASE c.by = "none"
  <2>1. JsBelow(n, p, c) = JsUnseen
    BY <1>1 DEF JsBelow
  <2>2. JsBelow(n, p, c).by = "none"
    BY <2>1, JsByIs
  <2>. QED
    BY <2>2 DEF JsSeesOnly
<1>2. CASE c.by = "class"
  <2>1. kind[p] = "classexp"
    BY <1>2 DEF JsSeesOnly
  <2>2. JsBelow(n, p, c).by = "visit"
    <3>1. JsBelow(n, p, c) = JsBy("visit", c.owner, FALSE)
      BY <2>1, <1>2 DEF JsBelow
    <3>. QED
      BY <3>1 DEF JsBy
  <2>3. c.by # "none" /\ kind[p] \notin JsOpaque
    BY <2>1, <1>2 DEF JsOpaque
  <2>. QED
    BY <2>2, <2>3 DEF JsSeesOnly
<1>3. CASE c.by \notin {"none", "class"} /\ kind[p] \in {"iface", "enum"}
  <2>1. kind[n] \in {"sig", "const"}
    BY <1>3 DEF Grammar, Fits
  <2>2. JsBelow(n, p, c).by = "member"
    <3>1. \E owner, exp : JsBelow(n, p, c) = JsBy("member", owner, exp)
      BY <1>3, Zenon DEF JsBelow
    <3>. QED
      BY <3>1, JsByIs
  <2>3. c.by # "none" /\ kind[p] \notin JsOpaque
    BY <1>3 DEF JsOpaque
  <2>. QED
    BY <2>1, <2>2, <2>3 DEF JsSeesOnly
<1>4. CASE c.by \notin {"none", "class"} /\ kind[p] \in {"class", "ns", "ambient", "strmod", "export"}
  <2>1. c.by # "member"
    BY <1>4 DEF JsSeesOnly
  <2>2. JsBelow(n, p, c).by \in {c.by, "visit", "ambient", "object"}
    <3>1. CASE kind[p] # "export"
      <4>1. PICK v \in {c.by, "visit", "ambient"} : \E owner, exp : JsBelow(n, p, c) = JsBy(v, owner, exp)
        BY <3>1, <1>4, Zenon DEF JsBelow
      <4>2. JsBelow(n, p, c).by = v
        BY <4>1, JsByIs
      <4>. QED
        BY <4>1, <4>2
    <3>2. CASE kind[p] = "export" /\ kind[n] = "object"
      <4>1. JsBelow(n, p, c) = JsObjectIn(c.owner, TRUE, FALSE, 0)
        BY <3>2, <1>4, Zenon DEF JsBelow
      <4>2. JsBelow(n, p, c).by = "object"
        BY <4>1 DEF JsObjectIn
      <4>. QED
        BY <4>2
    <3>3. CASE kind[p] = "export" /\ kind[n] # "object"
      <4>1. PICK v \in {c.by, "visit"} : \E owner, exp : JsBelow(n, p, c) = JsBy(v, owner, exp)
        BY <3>3, <1>4, Zenon DEF JsBelow
      <4>2. JsBelow(n, p, c).by = v
        BY <4>1, JsByIs
      <4>. QED
        BY <4>1, <4>2
    <3>. QED
      BY <3>1, <3>2, <3>3
  <2>3. c.by # "none" /\ kind[p] \notin JsOpaque
    BY <1>4 DEF JsOpaque
  <2>4. JsBelow(n, p, c).by \notin {"class", "member"}
    BY <2>1, <2>2, <1>4
  <2>. QED
    BY <2>3, <2>4 DEF JsSeesOnly
<1>5. CASE c.by \notin {"none", "class"} /\ kind[p] = "object"
  <2>1. c.by # "member"
    BY <1>5 DEF JsSeesOnly
  <2>2. JsBelow(n, p, c) = c \/ JsBelow(n, p, c) = JsValueOf(p, n, c)
    BY <1>5, Zenon DEF JsBelow
  <2>3. JsBelow(n, p, c).by = c.by \/ JsBelow(n, p, c).by = JsValueOf(p, n, c).by
    BY <2>2
  <2>4. /\ JsValueOf(p, n, c).by # "member"
        /\ JsValueOf(p, n, c).by = "class" => kind[n] = "classexp"
    BY JsValueBy
  <2>5. c.by # "none" /\ c.by # "class" /\ kind[p] \notin JsOpaque
    BY <1>5 DEF JsOpaque
  <2>. QED
    BY <2>1, <2>3, <2>4, <2>5 DEF JsSeesOnly
<1>6. CASE c.by \notin {"none", "class"} /\ kind[p] \notin JsInto \cup {"object"}
  <2>1. JsBelow(n, p, c) = JsValueOf(p, n, c)
    BY <1>6, Zenon DEF JsBelow, JsInto
  <2>2. /\ JsValueOf(p, n, c).by # "member"
        /\ JsValueOf(p, n, c).by = "class" => kind[n] = "classexp"
        /\ kind[p] \in JsOpaque => JsValueOf(p, n, c).by = "none"
    BY JsValueBy
  <2>3. c.by # "none"
    BY <1>6
  <2>. QED
    BY <2>1, <2>2, <2>3 DEF JsSeesOnly
<1>. QED
  BY <1>1, <1>2, <1>3, <1>4, <1>5, <1>6 DEF JsInto

LEMMA JsSeenAs ==
  ASSUME Shape, Grammar, prof.lang = "javascript", NEW n \in File
  PROVE  JsSeesOnly(JsCtx[n].by, n)
<1> DEFINE T == {k \in File : ~JsSeesOnly(JsCtx[k].by, k)}
<1>1. \A k \in File : k \in Nat /\ k >= 1
  BY TreeShape DEF Shape, File, Nodes
<1> SUFFICES ASSUME T # {} PROVE FALSE
  OBVIOUS
<1>2. PICK k \in T : \A j \in T : k <= j
  <2>1. T \subseteq Nat
    BY <1>1
  <2> HIDE DEF T
  <2>. QED
    BY <2>1, LeastNat, Zenon
<1>3. k \in File /\ ~JsSeesOnly(JsCtx[k].by, k)
  OBVIOUS
<1>4. JsCtx[k] = JsCtxStep(JsCtx, k)
  BY <1>3, JsContext
<1>5. CASE k = 1 \/ Up(k) = 1
  <2>1. JsCtx[k].by \in {"none", "visit"}
    BY <1>4, <1>5 DEF JsCtxStep, JsUnseen, JsBy
  <2>. QED
    BY <2>1, <1>3 DEF JsSeesOnly
<1>6. CASE k # 1 /\ Up(k) # 1
  <2>1. Up(k) \in File /\ Up(k) < k /\ IsParent(lev, k, Up(k))
    BY <1>3, <1>6, UpIs
  <2>2. Up(k) \notin T
    <3>1. ~(k <= Up(k))
      BY <2>1, <1>1, <1>3
    <3> HIDE DEF T
    <3>. QED
      BY <3>1, <1>2
  <2>3. JsSeesOnly(JsCtx[Up(k)].by, Up(k))
    BY <2>1, <2>2
  <2>4. JsCtx[k] = JsBelow(k, Up(k), JsCtx[Up(k)])
    BY <1>4, <1>6 DEF JsCtxStep
  <2>. QED
    BY <2>1, <2>3, <2>4, <1>3, JsBelowBy
<1>. QED
  BY <1>5, <1>6

\* Nothing below a function or a decorator is seen.
LEMMA JsUnseenBelow ==
  ASSUME Shape, Rooted, Grammar, prof.lang = "javascript",
         NEW b, kind[b] \in JsOpaque, NEW n \in File, Above(b, n)
  PROVE  ~JsSeen(n)
<1> DEFINE T == {k \in File : Above(b, k) /\ JsSeen(k)}
<1>1. b \in File /\ b # 1 /\ \A k \in File : k \in Nat /\ k >= 1
  BY TreeShape DEF Shape, File, Nodes, Above, Rooted, JsOpaque
<1> SUFFICES ASSUME T # {} PROVE FALSE
  OBVIOUS
<1>2. PICK k \in T : \A j \in T : k <= j
  <2>1. T \subseteq Nat
    BY <1>1
  <2> HIDE DEF T
  <2>. QED
    BY <2>1, LeastNat, Zenon
<1>3. k \in File /\ Above(b, k) /\ JsSeen(k) /\ k # 1
  BY <1>1 DEF Above
<1>4. Up(k) \in File /\ Up(k) < k /\ IsParent(lev, k, Up(k)) /\ (Up(k) = b \/ Above(b, Up(k)))
  BY <1>3, UpIs, AboveUp
<1>5. Up(k) # 1
  BY <1>1, <1>4 DEF Above
<1>6. JsCtx[k] = JsBelow(k, Up(k), JsCtx[Up(k)])
  BY <1>3, <1>5, JsContext, Zenon DEF JsCtxStep
<1>7. Up(k) = b \/ JsCtx[Up(k)].by = "none"
  <2>1. Up(k) \notin T
    <3>1. ~(k <= Up(k))
      BY <1>1, <1>3, <1>4
    <3> HIDE DEF T
    <3>. QED
      BY <3>1, <1>2
  <2>. QED
    BY <2>1, <1>4 DEF JsSeen
<1>8. JsCtx[k].by = "none"
  BY <1>3, <1>4, <1>6, <1>7, JsSeenAs, JsBelowBy
<1>. QED
  BY <1>3, <1>8 DEF JsSeen

\* A symbol of n with the calls that n gives, or one without calls of a
\* parameter or an assignment to this.
JsMade(n, s) ==
  /\ s = Sym(s.at, s.sort, s.qual, s.parent, s.calls, s.marks)
  /\ \/ s.at = n /\ (s.calls # {} \/ kind[n] = "fn" => s.calls = JsGives(n))
     \/ s.at \in Of({"this", "param"}) /\ s.calls = {}

LEMMA JsMadeOf ==
  ASSUME NEW n
  PROVE  /\ \A sort, qual, parent, calls, marks :
              (calls # {} \/ kind[n] = "fn" => calls = JsGives(n))
                => JsMade(n, Sym(n, sort, qual, parent, calls, marks))
         /\ \A sort, prefix, calls, marks :
              (calls # {} \/ kind[n] = "fn" => calls = JsGives(n))
                => JsMade(n, MemberOf(n, sort, prefix, calls, marks))
         /\ \A m \in Of({"this", "param"}) : \A sort, prefix, marks :
              JsMade(n, MemberOf(m, sort, prefix, {}, marks))
<1>1. \A m, sort, qual, parent, calls, marks :
        LET s == Sym(m, sort, qual, parent, calls, marks)
        IN  s = Sym(s.at, s.sort, s.qual, s.parent, s.calls, s.marks) /\ s.at = m /\ s.calls = calls
  BY DEF Sym
<1>. QED
  BY <1>1 DEF JsMade, MemberOf

\* What the visitors emit for a node, case by case.
LEMMA JsFieldsMade ==
  ASSUME NEW n, NEW owner
  PROVE  /\ \A body : \A s \in JsThisFields(body, owner) : JsMade(n, s)
         /\ \A s \in JsParamProperties(n, owner) : JsMade(n, s)
<1>1. \A m \in Kids(n) : kind[m] = "param" => m \in Of({"this", "param"})
  BY DEF Kids, Of
<1>2. \A m \in Of({"this"}) : m \in Of({"this", "param"})
  BY DEF Of
<1>3. ASSUME NEW body, NEW s \in JsThisFields(body, owner) PROVE JsMade(n, s)
  <2>1. PICK t \in Of({"this"}) : s = MemberOf(t, "field", owner, {}, {"this-assigned"})
    BY <1>3 DEF JsThisFields
  <2>. QED
    BY <2>1, <1>2, JsMadeOf, Zenon
<1>4. ASSUME NEW s \in JsParamProperties(n, owner) PROVE JsMade(n, s)
  <2>1. PICK m \in Of({"this", "param"}) : s = MemberOf(m, "field", owner, {}, {})
    BY <1>1, <1>4 DEF JsParamProperties
  <2>. QED
    BY <2>1, JsMadeOf, Zenon
<1>. QED
  BY <1>3, <1>4

LEMMA JsMethodMade ==
  ASSUME NEW n, kind[n] = "method", NEW owner, NEW s \in JsMethodDef(n, owner)
  PROVE  JsMade(n, s)
<1>1. JsGives(n) = JsCallSites(n)
  BY DEF JsGives, JsValued
<1>2. \/ \E sort : s = MemberOf(n, sort, owner, JsCallSites(n), {})
      \/ s \in JsParamProperties(n, owner) \/ s \in JsThisFields(n, owner)
  BY DEF JsMethodDef
<1>. QED
  BY <1>1, <1>2, JsMadeOf, JsFieldsMade

LEMMA JsNamedMade ==
  ASSUME NEW n, kind[n] \in {"fn", "iface", "enum", "ns", "method"}, NEW c, NEW sort,
         kind[n] \in {"fn", "method"} <=> sort \in {"function", "method"}, NEW s \in JsNamedSym(n, sort, c)
  PROVE  JsMade(n, s)
<1>1. \E calls, marks : /\ s = MemberOf(n, sort, c.owner, calls, marks)
                        /\ calls = IF sort \in {"function", "method"} THEN JsCallSites(n) ELSE {}
  BY DEF JsNamedSym
<1>2. kind[n] \in {"fn", "method"} => JsGives(n) = JsCallSites(n)
  BY DEF JsGives, JsValued
<1>. QED
  BY <1>1, <1>2, JsMadeOf

LEMMA JsClassMade ==
  ASSUME NEW n, kind[n] \in {"class", "classexp"}, NEW owner, NEW exp, NEW s \in JsClassSym(n, owner, exp)
  PROVE  JsMade(n, s)
<1>1. \E qual, parent, marks : s = Sym(n, "class", qual, parent, JsDecoratorCalls(n), marks)
  BY DEF JsClassSym
<1>2. JsGives(n) = JsDecoratorCalls(n)
  BY DEF JsGives, JsValued
<1>. QED
  BY <1>1, <1>2, JsMadeOf

LEMMA JsValuedGives ==
  ASSUME NEW n, kind[n] \in JsValued
  PROVE  Value(n) \in JsFnValues => JsGives(n) = JsCallSites(FirstKid(n))
BY DEF JsGives, JsValued

LEMMA JsAssignMade ==
  ASSUME NEW n, kind[n] \in {"exports", "module", "member", "chain"}, NEW x, NEW c,
         NEW s \in JsAssignTarget(n, x, c)
  PROVE  JsMade(n, s)
<1>1. Value(n) \in JsFnValues => JsGives(n) = JsCallSites(FirstKid(n))
  BY JsValuedGives DEF JsValued
<1>2. kind[n] # "fn"
  OBVIOUS
<1>3. \/ /\ Value(n) \in JsFnValues
         /\ \E sort, qual, parent, marks : s = Sym(n, sort, qual, parent, JsCallSites(FirstKid(n)), marks)
      \/ \E body, owner : s \in JsThisFields(body, owner)
      \/ \E sort, qual, parent, marks : s = Sym(n, sort, qual, parent, {}, marks)
  BY DEF JsAssignTarget, JsFnValues
<1>. QED
  BY <1>1, <1>2, <1>3, JsMadeOf, JsFieldsMade, Zenon

LEMMA JsVisitMade ==
  ASSUME NEW n \in File, NEW c, NEW s \in JsVisitChild(n, c)
  PROVE  JsMade(n, s)
<1>1. \A owner : FnSort(owner) \in {"function", "method"}
  BY DEF FnSort
<1>2. CASE kind[n] = "fn"
  <2>1. s \in JsNamedSym(n, FnSort(c.owner), c)
    BY <1>2 DEF JsVisitChild
  <2>. QED
    BY <2>1, <1>1, <1>2, JsNamedMade
<1>3. CASE kind[n] = "class"
  <2>1. s \in JsClassSym(n, QualJoin(c.owner, name[n]), c.exp)
    BY <1>3 DEF JsVisitChild
  <2>. QED
    BY <2>1, <1>3, JsClassMade
<1>4. CASE kind[n] \in {"iface", "enum", "ns"}
  <2>1. s \in JsNamedSym(n, kind[n], c)
    BY <1>4 DEF JsVisitChild
  <2>. QED
    BY <2>1, <1>4, JsNamedMade
<1>5. CASE kind[n] = "method"
  <2>1. s \in JsMethodDef(n, c.owner)
    BY <1>5 DEF JsVisitChild
  <2>. QED
    BY <2>1, <1>5, JsMethodMade
<1>6. CASE kind[n] \in {"field", "var"}
  <2>1. \E sort, prefix, calls, marks :
          /\ s = MemberOf(n, sort, prefix, calls, marks)
          /\ calls = {} \/ (Value(n) \in JsFnValues /\ calls = JsCallSites(FirstKid(n)))
    <3>1. CASE kind[n] = "field"
      <4>1. s \in JsFieldDef(n, c.owner)
        BY <3>1 DEF JsVisitChild
      <4>. QED
        BY <4>1 DEF JsFieldDef
    <3>2. CASE kind[n] = "var"
      <4>1. s \in JsArrowDecl(n, c)
        BY <3>2 DEF JsVisitChild
      <4>. QED
        BY <4>1 DEF JsArrowDecl
    <3>. QED
      BY <1>6, <3>1, <3>2
  <2>2. Value(n) \in JsFnValues => JsGives(n) = JsCallSites(FirstKid(n))
    BY <1>6, JsValuedGives DEF JsValued
  <2>. QED
    BY <2>1, <2>2, <1>6, JsMadeOf
<1>7. CASE kind[n] \in {"exports", "module", "member", "chain"}
  <2>1. \E x : s \in JsAssignTarget(n, x, c)
    BY <1>7 DEF JsVisitChild, JsAssignFunc
  <2>. QED
    BY <2>1, <1>7, JsAssignMade
<1>8. CASE kind[n] = "define"
  <2>1. \E qual, parent : s = Sym(n, "method", qual, parent, JsCallSites(n), {})
    BY <1>8 DEF JsVisitChild, JsDefineProperty
  <2>2. JsGives(n) = JsCallSites(n)
    BY <1>8 DEF JsGives, JsValued
  <2>. QED
    BY <2>1, <2>2, JsMadeOf
<1>9. CASE kind[n] = "fsig"
  <2>1. \E sort, marks : s = MemberOf(n, sort, c.owner, {}, marks)
    BY <1>9 DEF JsVisitChild
  <2>. QED
    BY <2>1, <1>9, JsMadeOf
<1>10. CASE kind[n] \notin {"fn", "class", "iface", "enum", "ns", "method", "field", "var", "exports", "module",
                            "member", "chain", "define", "fsig"}
  BY <1>10 DEF JsVisitChild
<1>. QED
  BY <1>2, <1>3, <1>4, <1>5, <1>6, <1>7, <1>8, <1>9, <1>10

LEMMA JsObjectMade ==
  ASSUME NEW n \in File, NEW c, NEW s \in JsObjectMember(n, c)
  PROVE  JsMade(n, s)
<1>1. CASE kind[n] = "method"
  <2>1. s \in JsMethodDef(n, c.owner) \/ s \in JsNamedSym(n, "function", c)
    BY <1>1 DEF JsObjectMember
  <2>. QED
    BY <2>1, <1>1, JsMethodMade, JsNamedMade
<1>2. CASE kind[n] = "pair"
  <2>1. \E sort, prefix, calls, marks :
          /\ s = MemberOf(n, sort, prefix, calls, marks)
          /\ calls = {} \/ (Value(n) \in JsFnValues /\ calls = JsCallSites(FirstKid(n)))
    BY <1>2 DEF JsObjectMember, JsFnValues
  <2>2. Value(n) \in JsFnValues => JsGives(n) = JsCallSites(FirstKid(n))
    BY <1>2, JsValuedGives DEF JsValued
  <2>. QED
    BY <2>1, <2>2, <1>2, JsMadeOf
<1>3. CASE kind[n] \notin {"method", "pair"}
  BY <1>3 DEF JsObjectMember
<1>. QED
  BY <1>1, <1>2, <1>3

LEMMA JsEmitOwns ==
  ASSUME Shape, Grammar, prof.lang = "javascript", NEW n \in File, NEW s \in JsEmit(n)
  PROVE  JsOwns(s)
<1> DEFINE c == JsCtx[n]
<1>1. JsSeesOnly(c.by, n)
  BY JsSeenAs
<1> HIDE DEF c
<1>2. JsEmit(n) = CASE c.by \in {"visit", "ambient"} -> JsVisitChild(n, c)
                    [] c.by = "member" ->
                         {MemberOf(n, "member", c.owner, {},
                                   Exported(c.exp) \cup IF kind[n] = "sig" THEN {"declaration"} ELSE {})}
                    [] c.by = "class" -> JsClassSym(n, c.owner, c.exp)
                    [] c.by = "object" -> JsObjectMember(n, c)
                    [] OTHER -> {}
  BY DEF JsEmit, c
<1>3. c.by # "none"
  BY <1>2
<1>4. JsMade(n, s)
  <2>1. CASE c.by \in {"visit", "ambient"}
    <3>1. s \in JsVisitChild(n, c)
      BY <2>1, <1>2
    <3>. QED
      BY <3>1, JsVisitMade
  <2>2. CASE c.by = "member"
    <3>1. \E marks : s = MemberOf(n, "member", c.owner, {}, marks)
      BY <2>2, <1>2
    <3>2. kind[n] # "fn"
      BY <2>2, <1>1 DEF JsSeesOnly
    <3>. QED
      BY <3>1, <3>2, JsMadeOf
  <2>3. CASE c.by = "class"
    <3>1. s \in JsClassSym(n, c.owner, c.exp)
      BY <2>3, <1>2
    <3>2. kind[n] = "classexp"
      BY <2>3, <1>1 DEF JsSeesOnly
    <3>. QED
      BY <3>1, <3>2, JsClassMade
  <2>4. CASE c.by = "object"
    <3>1. s \in JsObjectMember(n, c)
      BY <2>4, <1>2
    <3>. QED
      BY <3>1, JsObjectMade
  <2>5. CASE c.by \notin {"visit", "ambient", "member", "class", "object"}
    BY <2>5, <1>2
  <2>. QED
    BY <2>1, <2>2, <2>3, <2>4, <2>5
<1>5. JsSeen(n)
  BY <1>3 DEF JsSeen, c
<1>. QED
  BY <1>4, <1>5 DEF JsMade, JsOwns, Of

LEMMA GrowJs ==
  ASSUME IInv, prof.lang = "javascript", NEW l \in Levels, NEW k \in JsUnder(Open(l)), Grow(l, k)
  PROVE  IInv'
<1>1. Shape /\ Rooted /\ Grammar
  BY DEF IInv, JsShape
<1>2. k # "file" /\ Fits(k, kind[Open(l)])
  BY JsUnderKinds
<1>3. Shape' /\ prof' = prof /\ pass' = "parse" /\ out' = {}
  BY <1>1, GrowFacts
<1>4. Rooted' /\ Grammar'
  BY <1>1, <1>2, GrowRooted, GrowGrammar
<1>. QED
  BY <1>3, <1>4 DEF IInv, GoShape, JavaShape, PyShape, JsShape, OuterShape, GivenLanguages, OuterBodyLanguages

LEMMA PassJs ==
  ASSUME IInv, prof.lang = "javascript",
         NEW from, NEW to, NEW STATE symbols, Pass(from, to, symbols), to # "parse",
         \A s \in symbols : JsOwns(s),
         to \in {"dedupe", "exports", "done"} => JsLocals(symbols)
  PROVE  IInv'
<1>1. Shape /\ Rooted /\ Grammar
  BY DEF IInv, JsShape
<1>2. /\ Shape' /\ Rooted' /\ prof' = prof /\ Grammar' /\ UNCHANGED fileVars
      /\ pass' = to /\ out' = symbols
  BY <1>1, PassFacts
<1>3. (\A s : JsOwns(s)' <=> JsOwns(s)) /\ JsNestedFunctionDecls' = JsNestedFunctionDecls
  BY <1>2, SameFile
<1>4. \A s \in out' : JsOwns(s)'
  BY <1>2, <1>3
<1>5. pass' \in {"dedupe", "exports", "done"} => JsLocals(out)'
  BY <1>2, <1>3 DEF JsLocals, ThisAssigned
<1>. QED
  BY <1>2, <1>4, <1>5 DEF IInv, GoShape, JavaShape, PyShape, JsShape, OuterShape, GivenLanguages, OuterBodyLanguages

LEMMA JsStep ==
  ASSUME IInv, JsNext
  PROVE  IInv'
<1>1. prof.lang = "javascript"
  BY DEF JsNext, JsFile, JsVisit, JsLocalFunctions, JsDedupe, JsExports
<1>2. Shape /\ Rooted /\ Grammar /\ \A s \in out : JsOwns(s)
  BY <1>1 DEF IInv, JsShape
<1>3. CASE JsFile
  BY <1>1, <1>3, GrowJs DEF JsFile
<1>4. CASE JsVisit
  <2> DEFINE symbols == UNION {JsEmit(n) : n \in File}
  <2>1. Pass("parse", "locals", symbols)
    BY <1>4 DEF JsVisit
  <2>2. \A s \in symbols : JsOwns(s)
    BY <1>1, <1>2, JsEmitOwns
  <2> HIDE DEF symbols
  <2>. QED
    BY <1>1, <2>1, <2>2, PassJs
<1>5. CASE JsLocalFunctions
  <2> DEFINE Local(n) == Sym(n, "function", QualJoin(JsEnclosingQualifier[n], name[n]), << >>,
                             JsCallSites(n), {"local"})
             symbols == out \cup {Local(n) : n \in JsNestedFunctionDecls}
  <2>1. Pass("locals", "dedupe", symbols)
    BY <1>5 DEF JsLocalFunctions
  <2>2. \A n \in JsNestedFunctionDecls : n \in File /\ kind[n] = "fn" /\ JsGives(n) = JsCallSites(n)
    BY DEF JsNestedFunctionDecls, Of, JsGives, JsValued
  <2>3. \A n \in JsNestedFunctionDecls : JsOwns(Local(n)) /\ Local(n).at = n /\ ~ThisAssigned(Local(n))
    BY <2>2 DEF JsOwns, Sym, ThisAssigned
  <2> HIDE DEF Local
  <2>4. (\A s \in symbols : JsOwns(s)) /\ JsLocals(symbols)
    BY <1>2, <2>3 DEF JsLocals
  <2> HIDE DEF symbols
  <2>. QED
    BY <1>1, <2>1, <2>4, PassJs
<1>6. CASE JsDedupe
  <2> DEFINE symbols == {s \in out : ThisAssigned(s) =>
                           \A r \in out : JsKey(r) = JsKey(s) => ThisAssigned(r) /\ s.at <= r.at}
  <2>1. Pass("dedupe", "exports", symbols) /\ pass = "dedupe"
    BY <1>6 DEF JsDedupe, Pass
  <2>2. JsLocals(out)
    BY <1>1, <2>1 DEF IInv, JsShape
  <2>3. (\A s \in symbols : JsOwns(s)) /\ JsLocals(symbols)
    BY <1>2, <2>2 DEF JsLocals
  <2> HIDE DEF symbols
  <2>. QED
    BY <1>1, <2>1, <2>3, PassJs
<1>7. CASE JsExports
  <2> DEFINE Named(s) == IF s.parent = << >> /\ \E x \in JsNamedExports : QualLast(s.qual) = <<x>>
                         THEN [s EXCEPT !.marks = @ \cup {"exported"}] ELSE s
             symbols == {Named(s) : s \in out}
  <2>1. Pass("exports", "done", symbols) /\ pass = "exports"
    BY <1>7 DEF JsExports, Pass
  <2>2. JsLocals(out)
    BY <1>1, <2>1 DEF IInv, JsShape
  <2>3. ASSUME NEW s \in out
        PROVE  JsOwns(Named(s)) /\ Named(s).at = s.at /\ (~ThisAssigned(s) => ~ThisAssigned(Named(s)))
    <3>1. JsOwns(s)
      BY <1>2
    <3>2. CASE Named(s) = s
      BY <3>1, <3>2, Zenon
    <3>3. CASE Named(s) = [s EXCEPT !.marks = @ \cup {"exported"}]
      <4>1. s = [at |-> s.at, sort |-> s.sort, qual |-> s.qual, parent |-> s.parent, calls |-> s.calls,
                 marks |-> s.marks]
        BY <3>1 DEF JsOwns, Sym
      <4>2. Named(s) = Sym(s.at, s.sort, s.qual, s.parent, s.calls, s.marks \cup {"exported"})
        BY <4>1, <3>3, Zenon DEF Sym
      <4> HIDE DEF Named
      <4>. QED
        BY <4>2, <3>1 DEF JsOwns, Sym, ThisAssigned
    <3>. QED
      BY <3>2, <3>3
  <2> HIDE DEF Named
  <2>4. (\A s \in symbols : JsOwns(s)) /\ JsLocals(symbols)
    BY <2>2, <2>3 DEF JsLocals
  <2> HIDE DEF symbols
  <2>. QED
    BY <1>1, <2>1, <2>4, PassJs
<1>. QED
  BY <1>3, <1>4, <1>5, <1>6, <1>7 DEF JsNext

-----------------------------------------------------------------------------
(* Rust: the walk goes on in functions, modules, traits and impls, and in  *)
(* the macro texts that it reads                                           *)

RustItem(f, type, k) ==
  CASE kind[k] = "fn" ->
         {RustFn(k, type)} \cup {RustScoped(k, type \o <<RustName(k)>>, RustSorts, s) : s \in f[k]}
    [] kind[k] = "mod" ->
         {RustSym(k, "module", << >>, {})}
           \cup {RustScoped(k, <<RustName(k)>>, {"function", "module"}, s) : s \in f[k]}
    [] kind[k] = "trait" -> {RustSym(k, "trait", << >>, {})} \cup f[k]
    [] kind[k] \in RustImpls -> f[k]
    [] kind[k] = "macro" -> IF RustRead(k) THEN f[k] ELSE {}
    [] kind[k] = "struct" -> RustStruct(k)
    [] kind[k] = "const" -> {RustSym(k, "const", type, {})}
    [] kind[k] = "sig" /\ type # << >> -> {RustSym(k, "method", type, {})}
    [] OTHER -> {}

RustVisitStep(f, n) == UNION {RustItem(f, RustType[n], k) : k \in Kids(n)}

\* RustVisit says of a node what its definition does, from what it says of
\* the nodes below.
LEMMA RustVisitIs ==
  ASSUME Shape
  PROVE  \A n \in File : RustVisit[n] = RustVisitStep(RustVisit, n)
<1> DEFINE Size == Len(lev)
           Defined(g, k) == /\ g = [n \in File |-> g[n]]
                            /\ \A n \in Size - k + 1 .. Size : g[n] = RustVisitStep(g, n)
           T == {k \in 0 .. Size : ~\E g : Defined(g, k)}
<1>1. Size \in Nat /\ File = 1 .. Size
  BY TreeShape DEF Shape, File, Nodes
<1>2. \A n \in File : \A m \in Kids(n) : m \in File /\ n < m
  BY DEF Kids, IsParent
<1>3. T = {}
  <2> SUFFICES ASSUME T # {} PROVE FALSE
    OBVIOUS
  <2>1. T \subseteq Nat
    BY <1>1
  <2>2. PICK k \in T : \A j \in T : k <= j
    <3> HIDE DEF T
    <3>. QED
      BY <2>1, LeastNat, Zenon
  <2>3. k \in 0 .. Size /\ ~\E g : Defined(g, k)
    OBVIOUS
  <2>4. k # 0
    <3>1. Defined([n \in File |-> 0], 0)
      BY <1>1
    <3>. QED
      BY <3>1, <2>3
  <2> DEFINE x == Size - k + 1
  <2>5. x \in File /\ k - 1 \in 0 .. Size /\ Size - (k - 1) + 1 = x + 1
    BY <2>3, <2>4, <1>1
  <2>6. k - 1 \notin T
    BY <2>1, <2>2, <2>5
  <2>7. PICK g : Defined(g, k - 1)
    BY <2>5, <2>6
  <2> DEFINE h == [n \in File |-> IF n = x THEN RustVisitStep(g, x) ELSE g[n]]
  <2>8. \A n \in File : n # x => h[n] = g[n]
    OBVIOUS
  <2>9. h[x] = RustVisitStep(g, x)
    BY <2>5
  <2>10. h = [n \in File |-> h[n]]
    OBVIOUS
  <2> HIDE DEF h
  <2>11. \A n \in x .. Size : RustVisitStep(h, n) = RustVisitStep(g, n)
    <3> SUFFICES ASSUME NEW n \in x .. Size PROVE RustVisitStep(h, n) = RustVisitStep(g, n)
      OBVIOUS
    <3>1. \A m \in Kids(n) : h[m] = g[m]
      BY <2>5, <2>8, <1>1, <1>2
    <3>2. \A m \in Kids(n) : RustItem(h, RustType[n], m) = RustItem(g, RustType[n], m)
      BY <3>1, Zenon DEF RustItem
    <3>3. {RustItem(h, RustType[n], m) : m \in Kids(n)} = {RustItem(g, RustType[n], m) : m \in Kids(n)}
      BY <3>2
    <3>. QED
      BY <3>3, Zenon DEF RustVisitStep
  <2>12. \A n \in x .. Size : h[n] = RustVisitStep(h, n)
    <3> SUFFICES ASSUME NEW n \in x .. Size PROVE h[n] = RustVisitStep(h, n)
      OBVIOUS
    <3>1. CASE n = x
      BY <3>1, <2>9, <2>11
    <3>2. CASE n # x
      <4>1. n \in Size - (k - 1) + 1 .. Size /\ n \in File
        BY <3>2, <2>5, <1>1
      <4>2. g[n] = RustVisitStep(g, n)
        BY <4>1, <2>7
      <4>3. h[n] = g[n]
        BY <4>1, <3>2, <2>8
      <4>4. RustVisitStep(h, n) = RustVisitStep(g, n)
        BY <2>11
      <4>. QED
        BY <4>2, <4>3, <4>4
    <3>. QED
      BY <3>1, <3>2
  <2>13. Defined(h, k)
    BY <2>10, <2>12
  <2>. QED
    BY <2>3, <2>13
<1>4. PICK g : Defined(g, Size)
  <2>1. Size \notin T /\ Size \in 0 .. Size
    BY <1>1, <1>3
  <2>. QED
    BY <2>1
<1>5. g = [n \in File |-> RustVisitStep(g, n)]
  <2>1. Size - Size + 1 = 1
    BY <1>1
  <2>. QED
    BY <2>1, <1>1, <1>4
<1>6. RustVisit = [n \in File |-> RustVisitStep(RustVisit, n)]
  BY <1>5, ZenonT(60) DEF RustVisit, RustVisitStep, RustItem
<1>. QED
  BY <1>6

\* An item's symbols have no calls, those of the function it is, or those of
\* the symbols in it.
LEMMA RustItemGives ==
  ASSUME NEW f, NEW type, NEW k
  PROVE  /\ \A s \in RustItem(f, type, k) :
              \/ s.calls = {}
              \/ kind[k] = "fn" /\ s.at = k /\ s.calls = RustCallSites(k)
              \/ /\ kind[k] \in RustWays /\ (kind[k] = "macro" => RustRead(k))
                 /\ \E r \in f[k] : s.at = r.at /\ s.calls = r.calls
         /\ kind[k] = "fn" => \E s \in RustItem(f, type, k) : s.at = k /\ s.calls = RustCallSites(k)
         /\ kind[k] \in RustWays /\ (kind[k] = "macro" => RustRead(k)) =>
              \A r \in f[k] : \E s \in RustItem(f, type, k) : s.at = r.at /\ s.calls = r.calls
<1>1. \A sort, parent, calls : RustSym(k, sort, parent, calls).calls = calls /\ RustSym(k, sort, parent, calls).at = k
  BY DEF RustSym, Sym
<1>2. RustFn(k, type).at = k /\ RustFn(k, type).calls = RustCallSites(k)
  BY <1>1 DEF RustFn
<1>3. \A scope, parented, s : /\ RustScoped(k, scope, parented, s).at = s.at
                              /\ RustScoped(k, scope, parented, s).calls = s.calls
  BY DEF RustScoped, Sym
<1>4. \A s \in RustStruct(k) : s.calls = {}
  BY DEF RustStruct, RustSym, Sym
<1>5. RustWays = {"fn", "mod", "trait", "macro"} \cup RustImpls /\ RustImpls = {"impl", "implpath", "implfor"}
  BY DEF RustWays, RustImpls
<1>6. CASE kind[k] = "fn"
  <2>1. RustItem(f, type, k) =
          {RustFn(k, type)} \cup {RustScoped(k, type \o <<RustName(k)>>, RustSorts, s) : s \in f[k]}
    BY <1>6, <1>5 DEF RustItem
  <2>. QED
    BY <2>1, <1>2, <1>3, <1>5, <1>6
<1>7. CASE kind[k] = "mod"
  <2>1. RustItem(f, type, k) =
          {RustSym(k, "module", << >>, {})}
             \cup {RustScoped(k, <<RustName(k)>>, {"function", "module"}, s) : s \in f[k]}
    BY <1>7, <1>5 DEF RustItem
  <2>. QED
    BY <2>1, <1>1, <1>3, <1>5, <1>7
<1>8. CASE kind[k] = "trait"
  <2>1. RustItem(f, type, k) = {RustSym(k, "trait", << >>, {})} \cup f[k]
    BY <1>8, <1>5 DEF RustItem
  <2>. QED
    BY <2>1, <1>1, <1>5, <1>8
<1>9. CASE kind[k] \in RustImpls
  <2>1. RustItem(f, type, k) = f[k]
    BY <1>9, <1>5 DEF RustItem
  <2>. QED
    BY <2>1, <1>5, <1>9
<1>10. CASE kind[k] = "macro"
  <2>1. RustItem(f, type, k) = IF RustRead(k) THEN f[k] ELSE {}
    BY <1>10, <1>5 DEF RustItem
  <2>. QED
    BY <2>1, <1>5, <1>10
<1>11. CASE kind[k] \notin RustWays
  <2>1. RustItem(f, type, k) \subseteq
          RustStruct(k) \cup {RustSym(k, "const", type, {}), RustSym(k, "method", type, {})}
    BY <1>11, <1>5 DEF RustItem
  <2>. QED
    BY <2>1, <1>1, <1>4, <1>5, <1>11
<1>. QED
  BY <1>5, <1>6, <1>7, <1>8, <1>9, <1>10, <1>11

LEMMA RustEnteredUp ==
  ASSUME Shape, NEW n \in File, n # 1
  PROVE  RustEntered(n) <=> RustEntered(Up(n)) /\ kind[n] # "block" /\ (kind[n] = "macro" => RustRead(n))
<1>1. \A k \in File : k \in Nat /\ k >= 1
  BY TreeShape DEF Shape, File, Nodes
<1>2. \A m \in 1 .. n : m \in File
  BY TreeShape DEF Shape, File, Nodes
<1>3. \A m : m \in Way(1, Up(n)) <=> Above(m, n) /\ m # 1
  BY WayUp
<1>4. \A m : m \in Way(1, n) <=> m = n \/ (Above(m, n) /\ m # 1)
  BY <1>1, <1>2 DEF Way, Above, InSubtree
<1>5. \A m : m \in Way(1, n) <=> m = n \/ m \in Way(1, Up(n))
  BY <1>3, <1>4
<1>. QED
  BY <1>5 DEF RustEntered

\* No calls, or those of a function that the walk comes to.
RustOwn(s) ==
  \/ s.calls = {}
  \/ s.at \in File /\ kind[s.at] = "fn" /\ RustEntered(s.at) /\ s.calls = RustCallSites(s.at)

RustFinds(symbols, n) == \E s \in symbols : s.at = n /\ s.calls = RustCallSites(n)

LEMMA RustVisitOwns ==
  ASSUME Shape, NEW n \in File, RustEntered(n), NEW s \in RustVisit[n]
  PROVE  RustOwn(s)
<1> DEFINE T == {k \in File : RustEntered(k) /\ \E r \in RustVisit[k] : ~RustOwn(r)}
<1>1. IsTree(lev) /\ \A k \in File : k \in Nat /\ k >= 1
  BY TreeShape DEF Shape, File, Nodes
<1> SUFFICES ASSUME T # {} PROVE FALSE
  OBVIOUS
<1>2. PICK d \in T : \A k \in T : k <= d
  <2>1. T \subseteq Nodes(lev)
    BY DEF File
  <2> HIDE DEF T
  <2>. QED
    BY <2>1, <1>1, LastNode
<1>3. d \in File /\ RustEntered(d)
  OBVIOUS
<1>4. PICK q \in RustVisit[d] : ~RustOwn(q)
  OBVIOUS
<1>5. PICK k \in Kids(d) : q \in RustItem(RustVisit, RustType[d], k)
  BY <1>3, <1>4, RustVisitIs DEF RustVisitStep
<1>6. k \in File /\ k # 1 /\ Up(k) = d /\ d < k
  <2>1. k \in File /\ IsParent(lev, k, d)
    BY DEF Kids
  <2>. QED
    BY <2>1, <1>1, <1>3, UpUnique DEF IsParent
<1>7. CASE kind[k] = "fn" /\ q.at = k /\ q.calls = RustCallSites(k)
  BY <1>3, <1>4, <1>6, <1>7, RustEnteredUp DEF RustOwn
<1>8. CASE /\ kind[k] \in RustWays /\ (kind[k] = "macro" => RustRead(k))
           /\ \E r \in RustVisit[k] : q.at = r.at /\ q.calls = r.calls
  <2>1. RustEntered(k)
    BY <1>3, <1>6, <1>8, RustEnteredUp DEF RustWays, RustImpls
  <2>2. \E r \in RustVisit[k] : ~RustOwn(r)
    BY <1>4, <1>8 DEF RustOwn
  <2>3. k \in T
    BY <2>1, <2>2, <1>6
  <2> HIDE DEF T
  <2>. QED
    BY <2>3, <1>1, <1>2, <1>3, <1>6
<1>9. q.calls # {}
  BY <1>4 DEF RustOwn
<1>. QED
  BY <1>5, <1>7, <1>8, <1>9, RustItemGives

\* What stands above a function that the walk comes to is on its way.
LEMMA RustWaysAbove ==
  ASSUME Shape, Rooted, Grammar, prof.lang = "rust",
         NEW n \in File, kind[n] = "fn", RustEntered(n), NEW m, Above(m, n), m # 1
  PROVE  kind[m] \in RustWays /\ (kind[m] = "macro" => RustRead(m))
<1> DEFINE T == {k \in File : Above(k, n) /\ k # 1 /\ kind[k] \notin RustWays}
<1>1. IsTree(lev) /\ \A k \in File : k \in Nat /\ k >= 1
  BY TreeShape DEF Shape, File, Nodes
<1>2. \A k : Above(k, n) /\ k # 1 => k \in Way(1, n)
  BY <1>1 DEF Way, Above
<1>3. kind[m] = "macro" => RustRead(m)
  BY <1>2 DEF RustEntered
<1> SUFFICES ASSUME T # {} PROVE FALSE
  BY <1>3 DEF Above
<1>4. PICK d \in T : \A k \in T : k <= d
  <2>1. T \subseteq Nodes(lev)
    BY DEF File
  <2> HIDE DEF T
  <2>. QED
    BY <2>1, <1>1, LastNode
<1>5. d \in File /\ Above(d, n) /\ d # 1 /\ kind[d] \notin RustWays /\ InSubtree(lev, d, n) /\ d # n
  BY <1>1, <1>4 DEF Above
<1>6. PICK e \in Way(d, n) : e \in File /\ IsParent(lev, e, d)
  BY <1>5, ChildTowards
<1>7. InSubtree(lev, e, n) /\ d < e
  BY <1>1, <1>5, <1>6 DEF Way
<1>8. kind[e] \in RustWays
  <2>1. CASE e = n
    BY <2>1 DEF RustWays
  <2>2. CASE e # n
    <3>1. Above(e, n) /\ e # 1
      BY <1>1, <1>5, <1>6, <1>7, <2>2 DEF Above, InSubtree
    <3>2. e \notin T
      <4>1. ~(e <= d)
        BY <1>1, <1>5, <1>6, <1>7
      <4> HIDE DEF T
      <4>. QED
        BY <4>1, <1>4
    <3>. QED
      BY <3>1, <3>2, <1>6
  <2>. QED
    BY <2>1, <2>2
<1>9. kind[d] \in RustWays \cup {"file", "block"}
  BY <1>5, <1>6, <1>8 DEF Grammar, Fits
<1>10. kind[d] # "block" /\ kind[d] # "file"
  BY <1>2, <1>5 DEF RustEntered, Rooted
<1>. QED
  BY <1>5, <1>9, <1>10

LEMMA RustVisitFinds ==
  ASSUME Shape, Rooted, Grammar, prof.lang = "rust",
         NEW n \in File, kind[n] = "fn", RustEntered(n), NEW e, Above(e, n)
  PROVE  RustFinds(RustVisit[e], n)
<1> DEFINE T == {k \in File : Above(k, n) /\ ~RustFinds(RustVisit[k], n)}
<1>1. IsTree(lev) /\ \A k \in File : k \in Nat /\ k >= 1
  BY TreeShape DEF Shape, File, Nodes
<1> SUFFICES ASSUME T # {} PROVE FALSE
  BY DEF Above
<1>2. PICK d \in T : \A k \in T : k <= d
  <2>1. T \subseteq Nodes(lev)
    BY DEF File
  <2> HIDE DEF T
  <2>. QED
    BY <2>1, <1>1, LastNode
<1>3. d \in File /\ Above(d, n) /\ ~RustFinds(RustVisit[d], n)
  OBVIOUS
<1>4. PICK x \in Way(d, n) : x \in File /\ IsParent(lev, x, d)
  BY <1>1, <1>3, ChildTowards DEF Above
<1>5. x \in Kids(d) /\ InSubtree(lev, x, n) /\ d < x
  BY <1>1, <1>3, <1>4 DEF Way, Kids
<1>6. RustItem(RustVisit, RustType[d], x) \subseteq RustVisit[d]
  BY <1>3, <1>5, RustVisitIs DEF RustVisitStep
<1>7. CASE x = n
  <2>1. \E s \in RustItem(RustVisit, RustType[d], n) : s.at = n /\ s.calls = RustCallSites(n)
    BY RustItemGives
  <2>. QED
    BY <2>1, <1>3, <1>6, <1>7 DEF RustFinds
<1>8. CASE x # n
  <2>1. Above(x, n) /\ x # 1
    BY <1>1, <1>3, <1>4, <1>5, <1>8 DEF Above, InSubtree
  <2>2. x \notin T
    <3>1. ~(x <= d)
      BY <1>1, <1>3, <1>4, <1>5
    <3> HIDE DEF T
    <3>. QED
      BY <3>1, <1>2
  <2>3. PICK r \in RustVisit[x] : r.at = n /\ r.calls = RustCallSites(n)
    BY <2>1, <2>2, <1>4 DEF RustFinds
  <2>4. kind[x] \in RustWays /\ (kind[x] = "macro" => RustRead(x))
    BY <2>1, RustWaysAbove
  <2>5. \E s \in RustItem(RustVisit, RustType[d], x) : s.at = r.at /\ s.calls = r.calls
    BY <2>4, RustItemGives
  <2>. QED
    BY <2>3, <2>5, <1>3, <1>6 DEF RustFinds
<1>. QED
  BY <1>7, <1>8

LEMMA RustGiven ==
  ASSUME Shape, Rooted, Grammar, prof.lang = "rust"
  PROVE  Given(RustVisit[1])
<1>1. /\ 1 \in File /\ kind[1] = "file" /\ IsTree(lev)
      /\ \A k \in File : k \in Nat /\ k >= 1
  BY TreeShape DEF Shape, Rooted, File, Nodes
<1>2. RustEntered(1)
  BY DEF RustEntered, Way
<1>3. \A n : Gives(n) = IF kind[n] = "fn" /\ RustEntered(n) THEN RustCallSites(n) ELSE {}
  BY DEF Gives
<1>4. \A s \in RustVisit[1] : RustOwn(s)
  BY <1>1, <1>2, RustVisitOwns
<1>5. ASSUME NEW n \in File, kind[n] = "fn", RustEntered(n) PROVE RustFinds(RustVisit[1], n)
  <2>1. Above(1, n)
    BY <1>1, <1>5, RootSubtree DEF Above, File
  <2>. QED
    BY <2>1, <1>5, RustVisitFinds
<1>. QED
  BY <1>3, <1>4, <1>5 DEF Given, RustOwn, RustFinds

LEMMA RustStep ==
  ASSUME IInv, RustNext
  PROVE  IInv'
<1>1. prof.lang = "rust" /\ prof.lang \in GivenLanguages
  BY DEF RustNext, RustFile, RustVisitFile, RustImplTraits, GivenLanguages
<1>2. Shape /\ Rooted /\ Grammar
  BY <1>1 DEF IInv, OuterShape
<1>3. CASE RustFile
  <2>1. PICK l \in Levels : \E k \in RustUnder(Open(l)) : Grow(l, k)
    BY <1>3 DEF RustFile
  <2>2. PICK k \in RustUnder(Open(l)) : Grow(l, k)
    BY <2>1
  <2>3. Open(l) \in File
    BY <1>2, <2>2, GrowFacts
  <2>4. k # "file" /\ Fits(k, kind[Open(l)])
    BY <1>1, <1>2, <2>3, RustUnderKinds
  <2>. QED
    BY <1>1, <2>2, <2>4, GrowOuter
<1>4. CASE RustVisitFile
  <2>1. Pass("parse", "impls", RustVisit[1])
    BY <1>4 DEF RustVisitFile
  <2>2. Given(RustVisit[1])
    BY <1>1, <1>2, RustGiven
  <2>. QED
    BY <1>1, <2>1, <2>2, PassOuter
<1>5. CASE RustImplTraits
  <2> DEFINE Implementer(s) == IF s.sort = "struct" /\ name[s.at] \in RustImplNames
                          THEN Sym(s.at, s.sort, s.qual, s.parent, s.calls, {"implements"}) ELSE s
             symbols == {Implementer(s) : s \in out}
  <2>1. Pass("impls", "done", symbols)
    BY <1>5 DEF RustImplTraits
  <2>2. Given(out)
    BY <1>1, <2>1 DEF IInv, OuterShape, Pass
  <2>3. \A s : Implementer(s).at = s.at /\ Implementer(s).calls = s.calls
    BY DEF Sym
  <2> HIDE DEF Implementer
  <2>4. Given(symbols)
    BY <2>2, <2>3 DEF Given
  <2>. QED
    BY <1>1, <2>1, <2>4, PassOuter
<1>. QED
  BY <1>3, <1>4, <1>5 DEF RustNext

-----------------------------------------------------------------------------
(* The walk of C: classes, then regions                                    *)

C == {"c", "cpp", "objc"}

\* A symbol with no calls or with those of the definition it stands on.
COwn(s) ==
  \/ s.calls = {}
  \/ s.at \in File /\ CDefined(s.at) /\ s.calls = CppCallSites(s.at) /\ s.sort # "type"

CFinds(symbols, n) == \E s \in symbols : s.at = n /\ s.calls = CppCallSites(n)

LEMMA CEnteredUp ==
  ASSUME Shape, NEW n \in File, n # 1
  PROVE  CppEntered(n) <=> /\ CppEntered(Up(n))
                           /\ kind[Up(n)] = "off" => kind[n] = "alt"
                           /\ kind[n] = "cond" => kind[Up(n)] # "class"
<1>1. \A k \in File : k \in Nat /\ k >= 1
  BY TreeShape DEF Shape, File, Nodes
<1>2. \A m \in 1 .. n : m \in File
  BY TreeShape DEF Shape, File, Nodes
<1>3. \A m : m \in Way(1, Up(n)) <=> Above(m, n) /\ m # 1
  BY WayUp
<1>4. \A m : m \in Way(1, n) <=> m = n \/ (Above(m, n) /\ m # 1)
  BY <1>1, <1>2 DEF Way, Above, InSubtree
<1>5. \A m : m \in Way(1, n) <=> m = n \/ m \in Way(1, Up(n))
  BY <1>3, <1>4
<1>. QED
  BY <1>5 DEF CppEntered

LEMMA CFuncIs ==
  \A n, owner, marks : /\ CppFunc(n, owner, marks).at = n
                       /\ CppFunc(n, owner, marks).calls = CppCallSites(n)
                       /\ CppFunc(n, owner, marks).sort # "type"
BY DEF CppFunc, Sym

\* What is declared without a body has no calls.
LEMMA CLeafCalls ==
  ASSUME Shape, Grammar, prof.lang \in C, NEW k \in File, kind[k] \in CLeaves
  PROVE  CppCallSites(k) = {}
<1> SUFFICES ASSUME NEW c \in CppCallSites(k) PROVE FALSE
  OBVIOUS
<1>1. c \in File /\ kind[c] = "call" /\ InSubtree(lev, k, c) /\ k # c
  BY DEF CppCallSites, CollectCallSites, Of, CLeaves
<1>2. PICK e \in Way(k, c) : e \in File /\ IsParent(lev, e, k)
  BY <1>1, ChildTowards
<1>. QED
  BY <1>2 DEF Grammar, Fits, CFits, C

\* The nodes above one that the walk enters are entered too.
LEMMA CWaysUp ==
  ASSUME Shape, Rooted, Grammar, prof.lang \in C, NEW n \in File, kind[n] \in CWays, NEW m, Above(m, n)
  PROVE  kind[m] \in CWays
<1> DEFINE T == {k \in File : Above(k, n) /\ kind[k] \notin CWays}
<1>1. IsTree(lev) /\ \A k \in File : k \in Nat
  BY TreeShape DEF Shape, File, Nodes
<1> SUFFICES ASSUME T # {} PROVE FALSE
  BY DEF Above
<1>2. PICK d \in T : \A k \in T : k <= d
  <2>1. T \subseteq Nodes(lev)
    BY DEF File
  <2> HIDE DEF T
  <2>. QED
    BY <2>1, <1>1, LastNode
<1>3. d \in File /\ Above(d, n) /\ kind[d] \notin CWays /\ InSubtree(lev, d, n) /\ d # n
  BY <1>1, <1>2 DEF Above
<1>4. PICK e \in Way(d, n) : e \in File /\ IsParent(lev, e, d)
  BY <1>3, ChildTowards
<1>5. InSubtree(lev, e, n) /\ d < e
  BY <1>1, <1>3, <1>4 DEF Way
<1>6. kind[e] \in CWays
  <2>1. e = n \/ Above(e, n)
    BY <1>1, <1>4, <1>5 DEF Above, InSubtree
  <2>2. e \notin T
    <3>1. ~(e <= d)
      BY <1>1, <1>3, <1>4, <1>5
    <3> HIDE DEF T
    <3>. QED
      BY <3>1, <1>2
  <2>. QED
    BY <2>1, <2>2, <1>4
<1>. QED
  BY <1>3, <1>4, <1>6 DEF Grammar, Fits, CFits, C

\* The nodes above a definition are those the walk enters, but for an
\* @implementation.
LEMMA CWaysAbove ==
  ASSUME Shape, Rooted, Grammar, prof.lang \in C,
         NEW n \in File, kind[n] \in {"fn", "outfn"}, kind[n] = "fn" => kind[Up(n)] # "impl",
         NEW m, Above(m, n)
  PROVE  kind[m] \in CWays
<1>1. n # 1
  BY TreeShape DEF Rooted, Shape, File, Nodes
<1>2. /\ Up(n) \in File /\ IsParent(lev, n, Up(n))
      /\ m = Up(n) \/ Above(m, Up(n))
  BY <1>1, AboveUp, UpIs
<1>3. kind[Up(n)] \in CWays
  BY <1>2 DEF Grammar, Fits, CFits, C, CWays
<1>. QED
  BY <1>2, <1>3, CWaysUp

\* CppClass says of a class what its definition does, from what it says of
\* the classes in it: there is such a function, since those come after it.
CppClassStep(f, n) ==
  {Sym(n, "class", <<name[n]>>, CppOwner[n], {},
       IF CppOwner[n] = << >> THEN {} ELSE {CppSection(n)})}
    \cup UNION {IF kind[k] = "class" THEN f[k] ELSE CppMember(k, CppPath(n)) : k \in Kids(n)}

LEMMA CppClassIs ==
  ASSUME Shape
  PROVE  \A n \in File : CppClass[n] = CppClassStep(CppClass, n)
<1> DEFINE Size == Len(lev)
           Defined(g, k) == /\ g = [n \in File |-> g[n]]
                            /\ \A n \in Size - k + 1 .. Size : g[n] = CppClassStep(g, n)
           T == {k \in 0 .. Size : ~\E g : Defined(g, k)}
<1>1. Size \in Nat /\ File = 1 .. Size
  BY TreeShape DEF Shape, File, Nodes
<1>2. \A n \in File : \A m \in Kids(n) : m \in File /\ n < m
  BY DEF Kids, IsParent
<1>3. T = {}
  <2> SUFFICES ASSUME T # {} PROVE FALSE
    OBVIOUS
  <2>1. T \subseteq Nat
    BY <1>1
  <2>2. PICK k \in T : \A j \in T : k <= j
    <3> HIDE DEF T
    <3>. QED
      BY <2>1, LeastNat, Zenon
  <2>3. k \in 0 .. Size /\ ~\E g : Defined(g, k)
    OBVIOUS
  <2>4. k # 0
    <3>1. Defined([n \in File |-> 0], 0)
      BY <1>1
    <3>. QED
      BY <3>1, <2>3
  <2> DEFINE x == Size - k + 1
  <2>5. x \in File /\ k - 1 \in 0 .. Size /\ Size - (k - 1) + 1 = x + 1
    BY <2>3, <2>4, <1>1
  <2>6. k - 1 \notin T
    BY <2>1, <2>2, <2>5
  <2>7. PICK g : Defined(g, k - 1)
    BY <2>5, <2>6
  <2> DEFINE h == [n \in File |-> IF n = x THEN CppClassStep(g, x) ELSE g[n]]
  <2>8. \A n \in File : n # x => h[n] = g[n]
    OBVIOUS
  <2>9. h[x] = CppClassStep(g, x)
    BY <2>5
  <2>10. h = [n \in File |-> h[n]]
    OBVIOUS
  <2> HIDE DEF h
  <2>11. \A n \in x .. Size : CppClassStep(h, n) = CppClassStep(g, n)
    <3> SUFFICES ASSUME NEW n \in x .. Size PROVE CppClassStep(h, n) = CppClassStep(g, n)
      OBVIOUS
    <3>1. \A m \in Kids(n) : h[m] = g[m]
      BY <2>5, <2>8, <1>1, <1>2
    <3>2. {IF kind[m] = "class" THEN h[m] ELSE CppMember(m, CppPath(n)) : m \in Kids(n)}
            = {IF kind[m] = "class" THEN g[m] ELSE CppMember(m, CppPath(n)) : m \in Kids(n)}
      BY <3>1
    <3>. QED
      BY <3>2, Zenon DEF CppClassStep
  <2>12. \A n \in x .. Size : h[n] = CppClassStep(h, n)
    <3> SUFFICES ASSUME NEW n \in x .. Size PROVE h[n] = CppClassStep(h, n)
      OBVIOUS
    <3>1. CASE n = x
      BY <3>1, <2>9, <2>11
    <3>2. CASE n # x
      <4>1. n \in Size - (k - 1) + 1 .. Size /\ n \in File
        BY <3>2, <2>5, <1>1
      <4>2. g[n] = CppClassStep(g, n)
        BY <4>1, <2>7
      <4>3. h[n] = g[n]
        BY <4>1, <3>2, <2>8
      <4>4. CppClassStep(h, n) = CppClassStep(g, n)
        BY <2>11
      <4>. QED
        BY <4>2, <4>3, <4>4
    <3>. QED
      BY <3>1, <3>2
  <2>13. Defined(h, k)
    BY <2>10, <2>12
  <2>. QED
    BY <2>3, <2>13
<1>4. PICK g : Defined(g, Size)
  <2>1. Size \notin T /\ Size \in 0 .. Size
    BY <1>1, <1>3
  <2>. QED
    BY <2>1
<1>5. g = [n \in File |-> CppClassStep(g, n)]
  <2>1. Size - Size + 1 = 1
    BY <1>1
  <2>. QED
    BY <2>1, <1>1, <1>4
<1>6. CppClass = [n \in File |-> CppClassStep(CppClass, n)]
  BY <1>5, Zenon DEF CppClass, CppClassStep
<1>. QED
  BY <1>6

LEMMA CEnumCalls ==
  \A e, parent, marks : \A s \in CEnumMembers(e, parent, marks) : s.calls = {}
BY DEF CEnumMembers, Sym

\* The symbols of a class that the walk enters.
LEMMA CMemberOwns ==
  ASSUME Shape, Grammar, prof.lang \in C, NEW n \in File, kind[n] = "class", CppEntered(n),
         NEW k \in Kids(n), kind[k] # "class", NEW class, NEW s \in CppMember(k, class)
  PROVE  COwn(s)
<1>1. k \in File /\ IsParent(lev, k, n) /\ k # 1 /\ Up(k) = n
  <2>1. k \in File /\ IsParent(lev, k, n)
    BY DEF Kids
  <2>2. n \in Nat /\ n >= 1
    BY TreeShape DEF Shape, File, Nodes
  <2>. QED
    BY <2>1, <2>2, UpUnique DEF IsParent
<1>2. CASE kind[k] = "fn"
  <2>1. CDefined(k)
    BY <1>1, <1>2, CEnteredUp DEF CDefined, CBodies
  <2>2. \E marks : s = CppFunc(k, class, marks)
    BY <1>2 DEF CppMember
  <2>. QED
    BY <1>1, <2>1, <2>2, CFuncIs DEF COwn
<1>3. CASE kind[k] \in {"proto", "friend"}
  <2>1. \E owner, marks : s = CppFunc(k, owner, marks)
    BY <1>3 DEF CppMember
  <2>. QED
    BY <1>1, <1>3, <2>1, CFuncIs, CLeafCalls DEF COwn, CLeaves
<1>4. CASE kind[k] = "enum"
  <2>1. s \in CppEnum(k, class)
    BY <1>4 DEF CppMember
  <2>2. \A parent, marks : \A r \in CEnumMembers(k, parent, marks) : r.calls = {}
    BY CEnumCalls
  <2>3. \/ s \in CEnumMembers(k, class, {CppSection(k)})
        \/ s \in CEnumMembers(k, QualJoin(class, name[k]), {CppSection(k)})
        \/ s = Sym(k, "enum", <<name[k]>>, class, {}, {CppSection(k)})
    BY <2>1, ZenonT(30) DEF CppEnum
  <2>4. s.calls = {}
    BY <2>2, <2>3 DEF Sym
  <2>. QED
    BY <2>4 DEF COwn
<1>5. CASE kind[k] = "var"
  BY <1>5 DEF CppMember, COwn, Sym
<1>6. kind[k] \in {"fn", "proto", "friend", "enum", "var"}
  BY DEF CppMember
<1>. QED
  BY <1>2, <1>3, <1>4, <1>5, <1>6

LEMMA CClassOwns ==
  ASSUME Shape, Grammar, prof.lang \in C, NEW n \in File, kind[n] = "class", CppEntered(n),
         NEW s \in CppClass[n]
  PROVE  COwn(s)
<1> DEFINE T == {k \in File : /\ kind[k] = "class" /\ CppEntered(k)
                              /\ \E r \in CppClass[k] : ~COwn(r)}
<1>1. IsTree(lev) /\ \A k \in File : k \in Nat /\ k >= 1
  BY TreeShape DEF Shape, File, Nodes
<1> SUFFICES ASSUME T # {} PROVE FALSE
  OBVIOUS
<1>2. PICK d \in T : \A k \in T : k <= d
  <2>1. T \subseteq Nodes(lev)
    BY DEF File
  <2> HIDE DEF T
  <2>. QED
    BY <2>1, <1>1, LastNode
<1>3. d \in File /\ kind[d] = "class" /\ CppEntered(d)
  OBVIOUS
<1>4. PICK r \in CppClass[d] : ~COwn(r)
  OBVIOUS
<1>5. r.calls # {}
  BY <1>4 DEF COwn
<1>6. CppClass[d] = CppClassStep(CppClass, d)
  BY <1>3, CppClassIs
<1>7. PICK k \in Kids(d) : r \in (IF kind[k] = "class" THEN CppClass[k] ELSE CppMember(k, CppPath(d)))
  BY <1>4, <1>5, <1>6 DEF CppClassStep, Sym
<1>8. CASE kind[k] = "class"
  <2>1. k \in File /\ IsParent(lev, k, d) /\ d < k
    BY DEF Kids, IsParent
  <2>2. k # 1 /\ Up(k) = d
    BY <2>1, <1>1, <1>3, UpUnique
  <2>3. CppEntered(k)
    BY <2>1, <2>2, <1>3, <1>8, CEnteredUp
  <2>4. k \in T
    BY <2>1, <2>3, <1>4, <1>7, <1>8
  <2> HIDE DEF T
  <2>. QED
    BY <2>1, <2>4, <1>1, <1>2, <1>3
<1>9. CASE kind[k] # "class"
  BY <1>3, <1>4, <1>7, <1>9, CMemberOwns
<1>. QED
  BY <1>8, <1>9

LEMMA CClassFinds ==
  ASSUME Shape, Rooted, Grammar, prof.lang \in C,
         NEW n \in File, kind[n] \in {"fn", "outfn"}, CppEntered(n),
         kind[n] = "fn" => kind[Up(n)] # "impl",
         NEW e \in File, kind[e] = "class", Above(e, n)
  PROVE  CFinds(CppClass[e], n)
<1> DEFINE T == {k \in File : kind[k] = "class" /\ Above(k, n) /\ ~CFinds(CppClass[k], n)}
<1>1. IsTree(lev) /\ \A k \in File : k \in Nat /\ k >= 1
  BY TreeShape DEF Shape, File, Nodes
<1> SUFFICES ASSUME T # {} PROVE FALSE
  OBVIOUS
<1>2. PICK d \in T : \A k \in T : k <= d
  <2>1. T \subseteq Nodes(lev)
    BY DEF File
  <2> HIDE DEF T
  <2>. QED
    BY <2>1, <1>1, LastNode
<1>3. /\ d \in File /\ kind[d] = "class" /\ Above(d, n) /\ ~CFinds(CppClass[d], n)
      /\ InSubtree(lev, d, n) /\ d # n
  BY <1>1, <1>2 DEF Above
<1>4. PICK x \in Way(d, n) : x \in File /\ IsParent(lev, x, d)
  BY <1>3, ChildTowards
<1>5. /\ InSubtree(lev, x, n) /\ d < x /\ x # 1 /\ x \in Kids(d) /\ Up(x) = d
  BY <1>1, <1>3, <1>4, UpUnique DEF Way, Kids
<1>6. \A s \in (IF kind[x] = "class" THEN CppClass[x] ELSE CppMember(x, CppPath(d))) : s \in CppClass[d]
  <2>1. CppClass[d] = CppClassStep(CppClass, d)
    BY <1>3, CppClassIs
  <2>. QED
    BY <2>1, <1>5 DEF CppClassStep
<1>7. CASE x = n
  <2>1. kind[n] = "fn"
    BY <1>3, <1>4, <1>7 DEF Grammar, Fits, CFits, C
  <2>2. CppFunc(n, CppPath(d), {CppSection(n)}) \in CppClass[d]
    BY <2>1, <1>6, <1>7, Zenon DEF CppMember
  <2>. QED
    BY <2>2, <1>3, CFuncIs DEF CFinds
<1>8. CASE x # n
  <2>1. Above(x, n)
    BY <1>1, <1>4, <1>5, <1>8 DEF Above, InSubtree
  <2>2. kind[x] \in CWays
    BY <2>1, CWaysAbove
  <2>3. kind[x] \in {"class", "cond"}
    BY <2>2, <1>3, <1>4 DEF Grammar, Fits, CFits, C
  <2>4. kind[x] # "cond"
    <3>1. x \in Way(1, n)
      BY <1>1, <1>4, <1>5, <2>1 DEF Way, Above
    <3>. QED
      BY <3>1, <1>3, <1>5 DEF CppEntered
  <2>5. CFinds(CppClass[x], n)
    <3>1. x \notin T
      <4>1. ~(x <= d)
        BY <1>1, <1>3, <1>4, <1>5
      <4> HIDE DEF T
      <4>. QED
        BY <4>1, <1>2
    <3>. QED
      BY <3>1, <2>1, <2>3, <2>4, <1>4
  <2>. QED
    BY <2>3, <2>4, <2>5, <1>3, <1>6 DEF CFinds
<1>. QED
  BY <1>7, <1>8

\* What CppVisit makes of a node of a region, and of the region.
CppDecl(f, k) ==
  CASE kind[k] \in {"fn", "outfn", "class"} -> CppDefinition(k)
    [] kind[k] = "tmpl" -> UNION {CppDefinition(m) : m \in Kids(k)}
    [] kind[k] = "proto" -> {CppFunc(k, << >>, {"declaration"})}
    [] kind[k] = "var" -> {Sym(k, "variable", <<name[k]>>, << >>, {}, {})}
    [] kind[k] \in {"typedef", "record", "enum"} -> CType(k)
    [] kind[k] = "ns" -> {Sym(k, "namespace", <<name[k]>>, << >>, {}, {})} \cup f[k]
    [] kind[k] \in {"cond", "alt"} -> f[k]
    [] kind[k] = "off" -> UNION {f[m] : m \in Kids(k) \cap Of({"alt"})}
    [] OTHER -> {}

CppKept(n, symbols) ==
  {s \in symbols :
     ~(kind[s.at] = "proto" /\ Up(s.at) = n /\ name[s.at] \in {name[k] : k \in Kids(n) \cap Of({"fn", "outfn"})})}

CppVisitStep(f, n) ==
  LET kept == CppKept(n, UNION {CppDecl(f, k) : k \in Kids(n)})
  IN  IF prof.lang = "cpp" THEN {CppVisible(s, kept) : s \in kept} ELSE kept

LEMMA CppVisitIs ==
  ASSUME Shape
  PROVE  \A n \in File : CppVisit[n] = CppVisitStep(CppVisit, n)
<1> DEFINE Size == Len(lev)
           Defined(g, k) == /\ g = [n \in File |-> g[n]]
                            /\ \A n \in Size - k + 1 .. Size : g[n] = CppVisitStep(g, n)
           T == {k \in 0 .. Size : ~\E g : Defined(g, k)}
<1>1. Size \in Nat /\ File = 1 .. Size
  BY TreeShape DEF Shape, File, Nodes
<1>2. \A n \in File : \A m \in Kids(n) : m \in File /\ n < m
  BY DEF Kids, IsParent
<1>3. T = {}
  <2> SUFFICES ASSUME T # {} PROVE FALSE
    OBVIOUS
  <2>1. T \subseteq Nat
    BY <1>1
  <2>2. PICK k \in T : \A j \in T : k <= j
    <3> HIDE DEF T
    <3>. QED
      BY <2>1, LeastNat, Zenon
  <2>3. k \in 0 .. Size /\ ~\E g : Defined(g, k)
    OBVIOUS
  <2>4. k # 0
    <3>1. Defined([n \in File |-> 0], 0)
      BY <1>1
    <3>. QED
      BY <3>1, <2>3
  <2> DEFINE x == Size - k + 1
  <2>5. x \in File /\ k - 1 \in 0 .. Size /\ Size - (k - 1) + 1 = x + 1
    BY <2>3, <2>4, <1>1
  <2>6. k - 1 \notin T
    BY <2>1, <2>2, <2>5
  <2>7. PICK g : Defined(g, k - 1)
    BY <2>5, <2>6
  <2> DEFINE h == [n \in File |-> IF n = x THEN CppVisitStep(g, x) ELSE g[n]]
  <2>8. \A n \in File : n # x => h[n] = g[n]
    OBVIOUS
  <2>9. h[x] = CppVisitStep(g, x)
    BY <2>5
  <2>10. h = [n \in File |-> h[n]]
    OBVIOUS
  <2> HIDE DEF h
  <2>11. \A n \in x .. Size : CppVisitStep(h, n) = CppVisitStep(g, n)
    <3> SUFFICES ASSUME NEW n \in x .. Size PROVE CppVisitStep(h, n) = CppVisitStep(g, n)
      OBVIOUS
    <3>1. \A m \in File : n < m => h[m] = g[m]
      BY <2>5, <2>8, <1>1
    <3>2. ASSUME NEW m \in Kids(n) PROVE CppDecl(h, m) = CppDecl(g, m)
      <4>1. h[m] = g[m] /\ \A j \in Kids(m) \cap Of({"alt"}) : h[j] = g[j]
        <5>1. n \in File /\ n \in Nat /\ m \in File /\ n < m
          BY <2>5, <1>1, <1>2
        <5>2. \A j \in Kids(m) : j \in File /\ n < j
          BY <5>1, <1>1, <1>2
        <5>. QED
          BY <5>1, <5>2, <3>1
      <4>2. {h[j] : j \in Kids(m) \cap Of({"alt"})} = {g[j] : j \in Kids(m) \cap Of({"alt"})}
        BY <4>1
      <4>. QED
        BY <4>1, <4>2 DEF CppDecl
    <3>3. {CppDecl(h, m) : m \in Kids(n)} = {CppDecl(g, m) : m \in Kids(n)}
      BY <3>2
    <3>. QED
      BY <3>3, Zenon DEF CppVisitStep
  <2>12. \A n \in x .. Size : h[n] = CppVisitStep(h, n)
    <3> SUFFICES ASSUME NEW n \in x .. Size PROVE h[n] = CppVisitStep(h, n)
      OBVIOUS
    <3>1. CASE n = x
      BY <3>1, <2>9, <2>11
    <3>2. CASE n # x
      <4>1. n \in Size - (k - 1) + 1 .. Size /\ n \in File
        BY <3>2, <2>5, <1>1
      <4>2. g[n] = CppVisitStep(g, n)
        BY <4>1, <2>7
      <4>3. h[n] = g[n]
        BY <4>1, <3>2, <2>8
      <4>4. CppVisitStep(h, n) = CppVisitStep(g, n)
        BY <2>11
      <4>. QED
        BY <4>2, <4>3, <4>4
    <3>. QED
      BY <3>1, <3>2
  <2>13. Defined(h, k)
    BY <2>10, <2>12
  <2>. QED
    BY <2>3, <2>13
<1>4. PICK g : Defined(g, Size)
  <2>1. Size \notin T /\ Size \in 0 .. Size
    BY <1>1, <1>3
  <2>. QED
    BY <2>1
<1>5. g = [n \in File |-> CppVisitStep(g, n)]
  <2>1. Size - Size + 1 = 1
    BY <1>1
  <2>. QED
    BY <2>1, <1>1, <1>4
<1>6. CppVisit = [n \in File |-> CppVisitStep(CppVisit, n)]
  BY <1>5 DEF CppVisit, CppVisitStep, CppKept, CppDecl
<1>. QED
  BY <1>6

\* The regions the walk visits.
CVisited == {"file", "ns", "cond", "alt"}

\* A visible symbol has the place, the sort and the calls it had before, and
\* only prototypes go.
LEMMA CVisitKeeps ==
  ASSUME Shape, NEW n \in File
  PROVE  /\ \A s \in CppVisit[n] :
              \E k \in Kids(n) : \E r \in CppDecl(CppVisit, k) :
                r.at = s.at /\ r.calls = s.calls /\ (s.sort = r.sort \/ r = s)
         /\ \A k \in Kids(n) : \A r \in CppDecl(CppVisit, k) :
              kind[r.at] # "proto" => \E s \in CppVisit[n] : s.at = r.at /\ s.calls = r.calls
<1> DEFINE all == UNION {CppDecl(CppVisit, k) : k \in Kids(n)}
           kept == CppKept(n, all)
<1>1. CppVisit[n] = IF prof.lang = "cpp" THEN {CppVisible(s, kept) : s \in kept} ELSE kept
  BY CppVisitIs, Zenon DEF CppVisitStep
<1>2. kept \subseteq all /\ \A r \in all : kind[r.at] # "proto" => r \in kept
  BY DEF CppKept
<1> HIDE DEF kept
<1>3. \A s : \/ CppVisible(s, kept) = s
             \/ /\ CppVisible(s, kept).at = s.at /\ CppVisible(s, kept).calls = s.calls
                /\ CppVisible(s, kept).sort = s.sort
  BY DEF CppVisible, Sym
<1>4. ASSUME NEW s \in CppVisit[n]
      PROVE  \E r \in all : r.at = s.at /\ r.calls = s.calls /\ (s.sort = r.sort \/ r = s)
  BY <1>1, <1>2, <1>3, <1>4
<1>5. ASSUME NEW r \in all, kind[r.at] # "proto"
      PROVE  \E s \in CppVisit[n] : s.at = r.at /\ s.calls = r.calls
  BY <1>1, <1>2, <1>3, <1>5
<1>. QED
  BY <1>4, <1>5

LEMMA CKid ==
  ASSUME Shape, NEW n \in File, NEW k \in Kids(n)
  PROVE  /\ k \in File /\ IsParent(lev, k, n) /\ k # 1 /\ Up(k) = n /\ n < k
         /\ CppEntered(k) <=> /\ CppEntered(n)
                              /\ kind[n] = "off" => kind[k] = "alt"
                              /\ kind[k] = "cond" => kind[n] # "class"
<1>1. k \in File /\ IsParent(lev, k, n)
  BY DEF Kids
<1>2. n \in Nat /\ n >= 1 /\ k \in Nat
  BY <1>1, TreeShape DEF Shape, File, Nodes
<1>3. k # 1 /\ Up(k) = n /\ n < k
  BY <1>1, <1>2, UpUnique DEF IsParent
<1>. QED
  BY <1>1, <1>3, CEnteredUp

LEMMA CTypeCalls ==
  \A k : \A s \in CType(k) : s.calls = {}
<1>1. \A n : \A s \in CEmit(n) : s.calls = {}
  <2> SUFFICES ASSUME NEW n, NEW s \in CEmit(n) PROVE s.calls = {}
    OBVIOUS
  <2>1. \A sort : \A r \in CTypeSym(n, sort) : r.calls = {}
    BY DEF CTypeSym, Sym
  <2>. QED
    BY <2>1, CEnumCalls DEF CEmit, Sym
<1>. QED
  BY <1>1 DEF CType

LEMMA CDefinitionOwns ==
  ASSUME Shape, Grammar, prof.lang \in C, NEW n \in File, NEW k \in Kids(n), CppEntered(k), kind[n] # "impl",
         NEW s \in CppDefinition(k)
  PROVE  COwn(s)
<1>1. k \in File /\ Up(k) = n
  BY CKid
<1>2. CASE kind[k] \in {"fn", "outfn"}
  <2>1. CDefined(k)
    BY <1>1, <1>2 DEF CDefined, CBodies
  <2>2. \E owner, marks : s = CppFunc(k, owner, marks)
    BY <1>2 DEF CppDefinition
  <2>. QED
    BY <1>1, <2>1, <2>2, CFuncIs DEF COwn
<1>3. CASE kind[k] = "class"
  <2>1. s \in CppClass[k]
    BY <1>3 DEF CppDefinition
  <2>. QED
    BY <1>1, <1>3, <2>1, CClassOwns
<1>. QED
  BY <1>2, <1>3 DEF CppDefinition

LEMMA CVisitOwns ==
  ASSUME Shape, Grammar, prof.lang \in C, NEW n \in File, kind[n] \in CVisited, CppEntered(n),
         NEW s \in CppVisit[n]
  PROVE  COwn(s)
<1> DEFINE T == {k \in File : /\ kind[k] \in CVisited /\ CppEntered(k)
                              /\ \E r \in CppVisit[k] : ~COwn(r)}
<1>1. IsTree(lev) /\ \A k \in File : k \in Nat /\ k >= 1
  BY TreeShape DEF Shape, File, Nodes
<1> SUFFICES ASSUME T # {} PROVE FALSE
  OBVIOUS
<1>2. PICK d \in T : \A k \in T : k <= d
  <2>1. T \subseteq Nodes(lev)
    BY DEF File
  <2> HIDE DEF T
  <2>. QED
    BY <2>1, <1>1, LastNode
<1>3. /\ d \in File /\ kind[d] \in CVisited /\ CppEntered(d)
      /\ kind[d] \notin {"off", "class", "impl"}
  BY DEF CVisited
<1>4. PICK q \in CppVisit[d] : ~COwn(q)
  OBVIOUS
<1> DEFINE Same(r) == r.at = q.at /\ r.calls = q.calls /\ (q.sort = r.sort \/ r = q)
<1>5. PICK k \in Kids(d) : \E r \in CppDecl(CppVisit, k) : Same(r)
  BY <1>3, CVisitKeeps
<1>6. PICK r \in CppDecl(CppVisit, k) : Same(r)
  BY <1>5
<1>7. ~COwn(r) /\ r.calls # {}
  BY <1>4, <1>6 DEF COwn
<1>8. k \in File /\ Up(k) = d /\ d < k /\ CppEntered(k)
  BY <1>3, CKid
<1>9. \A m \in File : d < m /\ kind[m] \in CVisited /\ CppEntered(m) => r \notin CppVisit[m]
  <2> SUFFICES ASSUME NEW m \in File, d < m, kind[m] \in CVisited, CppEntered(m), r \in CppVisit[m]
               PROVE  FALSE
    OBVIOUS
  <2>1. m \in T
    BY <1>7
  <2>2. ~(m <= d)
    BY <1>1, <1>3
  <2> HIDE DEF T
  <2>. QED
    BY <2>1, <2>2, <1>2
<1>10. CASE kind[k] \in {"fn", "outfn", "class"}
  BY <1>3, <1>6, <1>7, <1>8, <1>10, CDefinitionOwns DEF CppDecl
<1>11. CASE kind[k] = "tmpl"
  <2>1. PICK m \in Kids(k) : r \in CppDefinition(m)
    BY <1>6, <1>11 DEF CppDecl
  <2>2. CppEntered(m)
    BY <1>8, <1>11, CKid
  <2>. QED
    BY <2>1, <2>2, <1>7, <1>8, <1>11, CDefinitionOwns
<1>12. CASE kind[k] = "proto"
  <2>1. r.calls = CppCallSites(k)
    BY <1>6, <1>12, CFuncIs DEF CppDecl
  <2>. QED
    BY <2>1, <1>7, <1>8, <1>12, CLeafCalls DEF CLeaves
<1>13. CASE kind[k] = "var"
  BY <1>6, <1>7, <1>13 DEF CppDecl, Sym
<1>14. CASE kind[k] \in {"typedef", "record", "enum"}
  BY <1>6, <1>7, <1>14, CTypeCalls DEF CppDecl
<1>15. CASE kind[k] \in {"ns", "cond", "alt"}
  <2>1. r \in CppVisit[k]
    BY <1>6, <1>7, <1>15 DEF CppDecl, Sym
  <2>. QED
    BY <2>1, <1>8, <1>9, <1>15 DEF CVisited
<1>16. CASE kind[k] = "off"
  <2>1. PICK m \in Kids(k) \cap Of({"alt"}) : r \in CppVisit[m]
    BY <1>6, <1>16 DEF CppDecl
  <2>2. kind[m] = "alt"
    BY DEF Of
  <2>3. m \in File /\ d < m /\ CppEntered(m)
    BY <2>2, <1>1, <1>3, <1>8, CKid
  <2>. QED
    BY <2>1, <2>2, <2>3, <1>9 DEF CVisited
<1>. QED
  BY <1>6, <1>10, <1>11, <1>12, <1>13, <1>14, <1>15, <1>16 DEF CppDecl

LEMMA CVisitFinds ==
  ASSUME Shape, Rooted, Grammar, prof.lang \in C,
         NEW n \in File, kind[n] \in {"fn", "outfn"}, CDefined(n),
         NEW e \in File, kind[e] \in CVisited, Above(e, n)
  PROVE  CFinds(CppVisit[e], n)
<1> DEFINE T == {k \in File : kind[k] \in CVisited /\ Above(k, n) /\ ~CFinds(CppVisit[k], n)}
<1>1. IsTree(lev) /\ \A k \in File : k \in Nat /\ k >= 1
  BY TreeShape DEF Shape, File, Nodes
<1> SUFFICES ASSUME T # {} PROVE FALSE
  OBVIOUS
<1>2. PICK d \in T : \A k \in T : k <= d
  <2>1. T \subseteq Nodes(lev)
    BY DEF File
  <2> HIDE DEF T
  <2>. QED
    BY <2>1, <1>1, LastNode
<1>3. d \in File /\ kind[d] \in CVisited /\ Above(d, n) /\ ~CFinds(CppVisit[d], n)
  OBVIOUS
<1>4. \A k \in File : d < k /\ kind[k] \in CVisited /\ Above(k, n) => CFinds(CppVisit[k], n)
  <2> SUFFICES ASSUME NEW k \in File, d < k, k \in T PROVE FALSE
    OBVIOUS
  <2>1. ~(k <= d)
    BY <1>1, <1>3
  <2> HIDE DEF T
  <2>. QED
    BY <2>1, <1>2
<1> HIDE DEF T
\* A kid on the way to n either is n or is above it.
<1>5. ASSUME NEW a, Above(a, n)
      PROVE  \E x \in Kids(a) : a < x /\ x \in File /\ (x = n \/ (Above(x, n) /\ kind[x] \in CWays /\ x \in Way(1, n)))
  <2>1. a \in File /\ InSubtree(lev, a, n) /\ a # n
    BY <1>1, <1>5 DEF Above
  <2>2. PICK x \in Way(a, n) : x \in File /\ IsParent(lev, x, a)
    BY <2>1, ChildTowards
  <2>3. x \in Kids(a) /\ InSubtree(lev, x, n) /\ a < x
    BY <2>1, <2>2, <1>1 DEF Way, Kids
  <2>4. x # n => Above(x, n) /\ x \in Way(1, n)
    BY <2>1, <2>2, <2>3, <1>1 DEF Above, InSubtree, Way
  <2>5. ASSUME Above(x, n) PROVE kind[x] \in CWays
    <3>1. kind[n] = "fn" => kind[Up(n)] # "impl"
      BY DEF CDefined
    <3>. QED
      BY <2>5, <3>1, CWaysAbove
  <2>6. x = n \/ (Above(x, n) /\ kind[x] \in CWays /\ x \in Way(1, n))
    BY <2>4, <2>5
  <2>. QED
    BY <2>2, <2>3, <2>6
<1>6. CppEntered(n) /\ (kind[n] = "fn" => kind[Up(n)] # "impl")
  BY DEF CDefined
<1>7. ASSUME NEW k \in File, k = n \/ (Above(k, n) /\ kind[k] = "class")
      PROVE  CFinds(CppDefinition(k), n)
  <2>1. CASE k = n
    <3>1. \E owner, marks : CppFunc(n, owner, marks) \in CppDefinition(n)
      BY DEF CppDefinition
    <3>. QED
      BY <3>1, <2>1, CFuncIs DEF CFinds
  <2>2. CASE Above(k, n) /\ kind[k] = "class"
    BY <2>2, <1>6, CClassFinds DEF CppDefinition
  <2>. QED
    BY <1>7, <2>1, <2>2
<1>8. PICK x \in Kids(d) : d < x /\ x \in File /\ (x = n \/ (Above(x, n) /\ kind[x] \in CWays /\ x \in Way(1, n)))
  BY <1>3, <1>5
<1>9. CFinds(CppDecl(CppVisit, x), n)
  <2>1. CASE x = n
    <3>1. CppDecl(CppVisit, n) = CppDefinition(n)
      BY DEF CppDecl
    <3>. QED
      BY <2>1, <3>1, <1>7
  <2>2. CASE Above(x, n) /\ kind[x] \in {"ns", "cond", "alt"}
    <3>1. CFinds(CppVisit[x], n)
      BY <2>2, <1>4, <1>8 DEF CVisited
    <3>2. CppVisit[x] \subseteq CppDecl(CppVisit, x)
      BY <2>2 DEF CppDecl
    <3>. QED
      BY <3>1, <3>2 DEF CFinds
  <2>3. CASE Above(x, n) /\ kind[x] \in {"off", "tmpl"}
    <3>1. PICK y \in Kids(x) : x < y /\ y \in File /\ (y = n \/ (Above(y, n) /\ kind[y] \in CWays /\ y \in Way(1, n)))
      BY <2>3, <1>5
    <3>2. Up(y) = x /\ IsParent(lev, y, x)
      BY <3>1, <1>8, CKid
    <3>3. CASE kind[x] = "off"
      <4>1. y \in Way(1, n)
        <5>1. n \in Way(1, n)
          BY <1>1, <2>3, <1>8 DEF Way, Above, InSubtree
        <5>. QED
          BY <5>1, <3>1
      <4>2. kind[y] = "alt" /\ y \in Kids(x) \cap Of({"alt"})
        BY <4>1, <3>1, <3>2, <3>3, <1>6 DEF CppEntered, Of
      <4>3. CFinds(CppVisit[y], n)
        <5>1. d < y
          BY <3>1, <1>1, <1>3, <1>8
        <5>. QED
          BY <4>2, <5>1, <3>1, <1>4 DEF CVisited
      <4>4. CppVisit[y] \subseteq CppDecl(CppVisit, x)
        BY <4>2, <3>3 DEF CppDecl
      <4>. QED
        BY <4>3, <4>4 DEF CFinds
    <3>4. CASE kind[x] = "tmpl"
      <4>1. y = n \/ (Above(y, n) /\ kind[y] = "class")
        BY <3>1, <3>2, <3>4, <1>8 DEF Grammar, Fits, CFits, C
      <4>2. CFinds(CppDefinition(y), n)
        BY <4>1, <3>1, <1>7
      <4>3. CppDefinition(y) \subseteq CppDecl(CppVisit, x)
        BY <3>1, <3>4 DEF CppDecl
      <4>. QED
        BY <4>2, <4>3 DEF CFinds
    <3>. QED
      BY <2>3, <3>3, <3>4
  <2>4. CASE Above(x, n) /\ kind[x] = "class"
    <3>1. CppDecl(CppVisit, x) = CppDefinition(x)
      BY <2>4 DEF CppDecl
    <3>. QED
      BY <2>4, <3>1, <1>7, <1>8
  <2>5. kind[x] # "file"
    BY <1>1, <1>3, <1>8 DEF Rooted
  <2>. QED
    BY <2>1, <2>2, <2>3, <2>4, <2>5, <1>8 DEF CWays, CRegions
<1>10. CFinds(CppVisit[d], n)
  <2>1. PICK r \in CppDecl(CppVisit, x) : r.at = n /\ r.calls = CppCallSites(n)
    BY <1>9 DEF CFinds
  <2>. QED
    BY <2>1, <1>3, <1>8, CVisitKeeps DEF CFinds
<1>. QED
  BY <1>3, <1>10

\* What the walk leaves of a C or C++ file.
LEMMA CVisitGives ==
  ASSUME Shape, Rooted, Grammar, prof.lang \in C
  PROVE  /\ \A s \in CppVisit[1] : COwn(s)
         /\ \A n \in File : CDefined(n) /\ kind[n] \in {"fn", "outfn"} => CFinds(CppVisit[1], n)
         /\ \A n : Gives(n) = IF CDefined(n) THEN CppCallSites(n) ELSE {}
         /\ \A n \in File : CDefined(n) => kind[n] \in {"fn", "outfn"} \/ (kind[n] = "def" /\ prof.lang = "objc")
<1>1. /\ IsTree(lev) /\ 1 \in File /\ kind[1] = "file"
      /\ \A k \in File : k \in Nat /\ k >= 1
  BY TreeShape DEF Shape, Rooted, File, Nodes
<1>2. CppEntered(1)
  BY DEF CppEntered, Way
<1>3. \A s \in CppVisit[1] : COwn(s)
  BY <1>1, <1>2, CVisitOwns DEF CVisited
<1>4. ASSUME NEW n \in File, CDefined(n), kind[n] \in {"fn", "outfn"} PROVE CFinds(CppVisit[1], n)
  <2>1. Above(1, n)
    BY <1>1, <1>4, RootSubtree DEF Above, File
  <2>. QED
    BY <2>1, <1>1, <1>4, CVisitFinds DEF CVisited
<1>5. \A n : Gives(n) = IF CDefined(n) THEN CppCallSites(n) ELSE {}
  BY DEF Gives, C
<1>6. ASSUME NEW n \in File, kind[n] = "def" PROVE prof.lang = "objc"
  <2>1. n # 1 /\ Up(n) \in File /\ IsParent(lev, n, Up(n))
    BY <1>1, <1>6, UpIs
  <2>. QED
    BY <2>1, <1>6 DEF Grammar, Fits, CFits, C
<1>. QED
  BY <1>3, <1>4, <1>5, <1>6 DEF CDefined, CBodies

LEMMA CppStep ==
  ASSUME IInv, CppNext
  PROVE  IInv'
<1>1. prof.lang \in {"c", "cpp"} /\ prof.lang \in C /\ prof.lang \in GivenLanguages /\ prof.lang # "objc"
  BY DEF CppNext, CppFile, ExtractCNodes, GivenLanguages, OuterBodyLanguages, C
<1>2. CASE CppFile
  <2>1. PICK l \in Levels : \E k \in CppUnder(Open(l)) : Grow(l, k)
    BY <1>2 DEF CppFile
  <2>2. PICK k \in CppUnder(Open(l)) : Grow(l, k)
    BY <2>1
  <2>3. k # "file" /\ Fits(k, kind[Open(l)])
    BY <1>1, CppUnderKinds
  <2>. QED
    BY <1>1, <2>2, <2>3, GrowOuter
<1>3. CASE ExtractCNodes
  <2>1. Pass("parse", "done", CppVisit[1])
    BY <1>3 DEF ExtractCNodes
  <2>2. Shape /\ Rooted /\ Grammar
    BY <1>1 DEF IInv, OuterShape
  <2>3. Given(CppVisit[1])
    BY <1>1, <2>2, CVisitGives DEF Given, COwn, CFinds
  <2>. QED
    BY <1>1, <2>1, <2>3, PassOuter
<1>. QED
  BY <1>2, <1>3 DEF CppNext

LEMMA CsSymbolsOf ==
  ASSUME NEW n \in File, n # 1, CsVisited(n)
  PROVE  /\ \A s \in CsEmit(n) : s.calls = {} \/ (s.at = n /\ s.calls = CsGives(n))
         /\ CsGives(n) # {} => \E s \in CsEmit(n) : s.at = n /\ s.calls = CsGives(n)
<1>1. \A sort, class, calls : /\ MemberOf(n, sort, class, calls, {}).at = n
                             /\ MemberOf(n, sort, class, calls, {}).calls = calls
  BY DEF MemberOf, Sym
<1>2. \A class : CsMethod(n, class).at = n /\ CsMethod(n, class).calls = CsMethodSites(n)
  BY <1>1 DEF CsMethod
<1>3. kind[n] \in CsBodied \cup {"local"} => CsGives(n) = CsMethodSites(n)
  BY DEF CsGives
<1>4. kind[n] \notin CsBodied \cup {"local"} => CsGives(n) = {}
  BY DEF CsGives
<1>5. CASE kind[n] \in {"method", "ctor", "local"}
  <2>1. CsEmit(n) = {CsMethod(n, CsClass[Up(n)])}
    BY <1>5 DEF CsEmit, CsTypes
  <2>. QED
    BY <2>1, <1>2, <1>3, <1>5 DEF CsBodied
<1>6. CASE kind[n] \in {"prop", "event"}
  <2>1. \E sort, class : CsEmit(n) = {MemberOf(n, sort, class, CsCallSites(n), {})}
    BY <1>6 DEF CsEmit, CsTypes
  <2>2. CsMethodSites(n) = CsCallSites(n)
    BY <1>6 DEF CsMethodSites
  <2>. QED
    BY <2>1, <2>2, <1>1, <1>3, <1>6 DEF CsBodied
<1>7. CASE kind[n] \notin CsBodied \cup {"local"}
  <2>1. \A s \in CsEmit(n) : s.calls = {}
    BY <1>1, <1>7 DEF CsEmit, CsBodied, Sym
  <2>. QED
    BY <2>1, <1>4, <1>7
<1>. QED
  BY <1>5, <1>6, <1>7 DEF CsBodied

LEMMA CsGiven ==
  ASSUME Shape, Rooted, prof.lang = "csharp"
  PROVE  Given(CsTopLevel \cup UNION {CsEmit(n) : n \in {n \in File : CsVisited(n)}})
<1> DEFINE visited == UNION {CsEmit(n) : n \in {n \in File : CsVisited(n)}}
<1>1. \A n : Gives(n) = CsGives(n)
  BY DEF Gives
<1>2. 1 \in File /\ \A n \in File : CsVisited(n) => n # 1
  BY TreeShape DEF Shape, File, Nodes, CsVisited
<1>3. CsGives(1) = UNION {CsCallSites(n) : n \in CsTopLevelStatements}
  BY DEF CsGives
<1>4. CASE CsTopLevelStatements = {}
  <2>1. CsTopLevel = {} /\ CsGives(1) = {}
    BY <1>3, <1>4 DEF CsTopLevel
  <2>2. \A s \in visited : s.calls = {} \/ (s.at \in File /\ s.calls = CsGives(s.at))
    BY <1>2, CsSymbolsOf
  <2>3. \A n \in File : CsGives(n) # {} => \E s \in visited : s.at = n /\ s.calls = CsGives(n)
    <3> SUFFICES ASSUME NEW n \in File, CsGives(n) # {}
                 PROVE  \E s \in visited : s.at = n /\ s.calls = CsGives(n)
      OBVIOUS
    <3>1. n # 1 /\ CsVisited(n)
      BY <2>1 DEF CsGives
    <3>. QED
      BY <3>1, CsSymbolsOf
  <2> HIDE DEF visited
  <2>4. Given(visited)
    BY <1>1, <2>2, <2>3 DEF Given
  <2>5. visited \cup CsTopLevel = visited
    BY <2>1
  <2>. QED
    BY <2>4, <2>5 DEF visited
<1>5. CASE CsTopLevelStatements # {}
  <2> DEFINE top == Sym(1, "function", <<"">>, << >>, UNION {CsCallSites(n) : n \in CsTopLevelStatements}, {})
  <2>1. CsTopLevel = {top} /\ top.at = 1 /\ top.calls = CsGives(1)
    BY <1>3, <1>5, Zenon DEF CsTopLevel, Sym
  <2> HIDE DEF top
  <2>2. \A s \in visited : s.calls = {} \/ (s.at \in File /\ s.calls = CsGives(s.at))
    BY <1>2, CsSymbolsOf
  <2>3. \A n \in File : n # 1 /\ CsGives(n) # {} => \E s \in visited : s.at = n /\ s.calls = CsGives(n)
    <3> SUFFICES ASSUME NEW n \in File, n # 1, CsGives(n) # {}
                 PROVE  \E s \in visited : s.at = n /\ s.calls = CsGives(n)
      OBVIOUS
    <3>1. CsVisited(n)
      BY DEF CsGives
    <3>. QED
      BY <3>1, CsSymbolsOf
  <2> HIDE DEF visited
  <2>4. Given(visited \cup {top})
    BY <1>1, <1>2, <2>1, <2>2, <2>3 DEF Given
  <2>. QED
    BY <2>1, <2>4 DEF visited
<1>. QED
  BY <1>4, <1>5

LEMMA CsStep ==
  ASSUME IInv, CsNext
  PROVE  IInv'
<1>1. prof.lang = "csharp" /\ prof.lang \in GivenLanguages /\ Shape /\ Rooted
  BY DEF CsNext, CsFile, ExtractCSharpNodes, GivenLanguages, OuterBodyLanguages, IInv
<1>2. CASE CsFile
  <2>1. PICK l \in Levels : \E k \in CsUnder(Open(l)) : Grow(l, k)
    BY <1>2 DEF CsFile
  <2>2. PICK k \in CsUnder(Open(l)) : Grow(l, k)
    BY <2>1
  <2>3. k # "file" /\ Fits(k, kind[Open(l)]) /\ (kind[Open(l)] = "stmt" => Kids(Open(l)) = {})
    BY <1>1, CsUnderKinds
  <2>. QED
    BY <1>1, <2>2, <2>3, GrowOuter
<1>3. CASE ExtractCSharpNodes
  <2> DEFINE symbols == CsTopLevel \cup UNION {CsEmit(n) : n \in {n \in File : CsVisited(n)}}
  <2>1. Pass("parse", "done", symbols)
    BY <1>3 DEF ExtractCSharpNodes
  <2>2. Given(symbols)
    BY <1>1, CsGiven
  <2> HIDE DEF symbols
  <2>. QED
    BY <1>1, <2>1, <2>2, PassOuter
<1>. QED
  BY <1>2, <1>3 DEF CsNext

\* Every symbol a Kotlin node gets has no calls or those of the node.
LEMMA KtSymbolsOf ==
  ASSUME NEW n \in File, KtVisited(n)
  PROVE  /\ \A s \in KtEmit(n) : s.calls = {} \/ (s.at = n /\ s.calls = KtGives(n))
         /\ KtGives(n) # {} => \E s \in KtEmit(n) : s.at = n /\ s.calls = KtGives(n)
<1> DEFINE type == KtType[Up(n)]
<1>1. \A sort, calls : KtMember(n, sort, type, calls).at = n /\ KtMember(n, sort, type, calls).calls = calls
  BY DEF KtMember, Sym
<1>2. CASE kind[n] = "fn"
  <2>1. KtEmit(n) = {KtMember(n, IF type = << >> THEN "function" ELSE "method", type, KtCallSites(n))}
    BY <1>2 DEF KtEmit, KtTypes
  <2>2. KtGives(n) = KtCallSites(n)
    BY <1>2 DEF KtGives, KtHasConstructor
  <2> HIDE DEF type
  <2>. QED
    BY <2>1, <2>2, <1>1
<1>3. CASE kind[n] = "secondary"
  <2>1. KtEmit(n) = {Sym(n, "constructor", type, QualLast(type), KtCallSites(n), {})}
    BY <1>3 DEF KtEmit, KtTypes
  <2>2. KtGives(n) = KtCallSites(n)
    BY <1>3 DEF KtGives, KtHasConstructor
  <2>. QED
    BY <2>1, <2>2 DEF Sym
<1>4. CASE kind[n] \in KtTypes
  <2> DEFINE class == MemberOf(n, "class", type, {}, {})
             sites == UNION {KtCallSites(m) : m \in KtInitializers(n)}
             constructor == Sym(n, "constructor", QualJoin(type, name[n]), <<name[n]>>, sites, {})
  <2>1. /\ class.calls = {} /\ constructor.at = n /\ constructor.calls = sites
    BY DEF MemberOf, Sym
  <2>2. KtEmit(n) = {class} \cup IF KtHasConstructor(n) THEN {constructor} ELSE {}
    BY <1>4 DEF KtEmit, KtPrimaryConstructor, KtTypes
  <2>3. KtGives(n) = IF KtHasConstructor(n) THEN sites ELSE {}
    BY <1>4 DEF KtGives, KtTypes, KtHasConstructor
  <2> HIDE DEF class, sites, constructor
  <2>. QED
    BY <2>1, <2>2, <2>3
<1>5. CASE kind[n] \notin {"fn", "secondary"} \cup KtTypes
  <2>1. KtGives(n) = {}
    BY <1>5 DEF KtGives, KtHasConstructor, KtTypes
  <2>2. \A s \in KtEmit(n) : s.calls = {}
    BY <1>1, <1>5 DEF KtEmit, MemberOf, Sym
  <2>. QED
    BY <2>1, <2>2
<1>. QED
  BY <1>2, <1>3, <1>4, <1>5

LEMMA KotlinStep ==
  ASSUME IInv, KotlinNext
  PROVE  IInv'
<1>1. prof.lang = "kotlin" /\ prof.lang \in GivenLanguages
  BY DEF KotlinNext, KtFile, ExtractKotlinNodes, GivenLanguages, OuterBodyLanguages
<1>2. CASE KtFile
  <2>1. PICK l \in Levels : \E k \in KtUnder(Open(l)) : Grow(l, k)
    BY <1>2 DEF KtFile
  <2>2. PICK k \in KtUnder(Open(l)) : Grow(l, k)
    BY <2>1
  <2>3. k # "file" /\ Fits(k, kind[Open(l)])
    BY <1>1, KtUnderKinds
  <2>. QED
    BY <1>1, <2>2, <2>3, GrowOuter
<1>3. CASE ExtractKotlinNodes
  <2> DEFINE symbols == UNION {KtEmit(n) : n \in {n \in File : KtVisited(n)}}
  <2>1. Pass("parse", "done", symbols)
    BY <1>3 DEF ExtractKotlinNodes
  <2>2. \A n : Gives(n) = KtGives(n)
    BY <1>1 DEF Gives
  <2>3. \A s \in symbols : s.calls = {} \/ (s.at \in File /\ s.calls = KtGives(s.at))
    BY KtSymbolsOf
  <2>4. \A n \in File : KtGives(n) # {} => \E s \in symbols : s.at = n /\ s.calls = KtGives(n)
    <3> SUFFICES ASSUME NEW n \in File, KtGives(n) # {}
                 PROVE  \E s \in symbols : s.at = n /\ s.calls = KtGives(n)
      OBVIOUS
    <3>1. KtVisited(n)
      BY DEF KtGives
    <3>. QED
      BY <3>1, KtSymbolsOf
  <2> HIDE DEF symbols
  <2>5. Given(symbols)
    BY <2>2, <2>3, <2>4 DEF Given
  <2>. QED
    BY <1>1, <2>1, <2>5, PassOuter
<1>. QED
  BY <1>2, <1>3 DEF KotlinNext

\* The symbols of the containers and of what the C walk misreads.
LEMMA ObjcContainerOwns ==
  ASSUME Shape, Grammar, prof.lang = "objc", NEW d \in ObjcEntered(ObjcContainers), NEW s \in ObjcContainer(d)
  PROVE  COwn(s)
<1>1. d \in File /\ kind[d] \in ObjcContainers /\ CppEntered(d)
  BY DEF ObjcEntered, Of
<1>2. /\ \A n, sort, parent, calls : /\ ObjcSym(n, sort, parent, calls).at = n
                                      /\ ObjcSym(n, sort, parent, calls).calls = calls
                                      /\ ObjcSym(n, sort, parent, calls).sort = sort
      /\ \A n : ObjcCallSites(n) = CppCallSites(n)
  BY DEF ObjcSym, Sym, ObjcCallSites, CppCallSites
<1>3. \/ s.calls = {}
      \/ \E m \in Kids(d) \cap Of({"decl", "def"}) :
           s.at = m /\ s.calls = CppCallSites(m) /\ s.sort = "method"
  BY <1>2 DEF ObjcContainer, ObjcMembers
<1>4. ASSUME NEW m \in Kids(d) \cap Of({"decl", "def"}),
             s.at = m, s.calls = CppCallSites(m), s.sort = "method", s.calls # {}
      PROVE  COwn(s)
  <2>1. m \in File /\ kind[m] \in {"decl", "def"}
    BY DEF Of
  <2>2. kind[m] = "def"
    BY <2>1, <1>4, CLeafCalls DEF CLeaves, C
  <2>3. CppEntered(m)
    BY <2>1, <2>2, <1>1, CKid DEF ObjcContainers
  <2>. QED
    BY <2>1, <2>2, <2>3, <1>4 DEF COwn, CDefined, CBodies
<1>. QED
  BY <1>3, <1>4 DEF COwn

LEMMA ObjcDefFound ==
  ASSUME Shape, Rooted, Grammar, prof.lang = "objc", NEW n \in File, CDefined(n), kind[n] = "def"
  PROVE  \E d \in ObjcEntered(ObjcContainers) : CFinds(ObjcContainer(d), n)
<1>1. n # 1
  BY DEF Rooted
<1>2. Up(n) \in File /\ IsParent(lev, n, Up(n)) /\ n \in Kids(Up(n))
  BY <1>1, UpIs DEF Kids
<1>3. kind[Up(n)] = "impl"
  BY <1>2 DEF Grammar, Fits, CFits
<1>4. CppEntered(Up(n))
  BY <1>1, CEnteredUp DEF CDefined
<1>5. Up(n) \in ObjcEntered(ObjcContainers)
  BY <1>2, <1>3, <1>4 DEF ObjcEntered, Of, ObjcContainers
<1> DEFINE s == ObjcSym(n, "method", <<name[Up(n)]>>, ObjcCallSites(n))
<1>6. s.at = n /\ s.calls = CppCallSites(n)
  BY DEF ObjcSym, Sym, ObjcCallSites, CppCallSites
<1>7. s \in ObjcContainer(Up(n))
  BY <1>2 DEF ObjcContainer, ObjcMembers, Of
<1>. QED
  BY <1>5, <1>6, <1>7 DEF CFinds

LEMMA ObjcStep ==
  ASSUME IInv, ObjcNext
  PROVE  IInv'
<1>1. prof.lang = "objc" /\ prof.lang \in C /\ prof.lang \in GivenLanguages
  BY DEF ObjcNext, ObjcFile, ExtractObjCNodes, ObjcBlockTypedefs, ObjcMacroEnums, GivenLanguages, OuterBodyLanguages, C
<1>2. Shape /\ Rooted /\ Grammar
  BY <1>1 DEF IInv, OuterShape
<1>3. pass # "parse" => Given(out) /\ \A s \in out : s.sort = "type" => s.calls = {}
  BY <1>1 DEF IInv, OuterShape
<1>4. \A n, sort, parent : ObjcSym(n, sort, parent, {}).calls = {}
  BY DEF ObjcSym, Sym
<1>5. CASE ObjcFile
  <2>1. PICK l \in Levels : \E k \in ObjcUnder(Open(l)) : Grow(l, k)
    BY <1>5 DEF ObjcFile
  <2>2. PICK k \in ObjcUnder(Open(l)) : Grow(l, k)
    BY <2>1
  <2>3. k # "file" /\ Fits(k, kind[Open(l)])
    BY <1>1, ObjcUnderKinds
  <2>. QED
    BY <1>1, <2>2, <2>3, GrowOuter
<1>6. CASE ExtractObjCNodes
  <2> DEFINE misread == UNION {ObjcMisread(e) : e \in ObjcEntered({"menum"})}
             members == UNION {ObjcContainer(d) : d \in ObjcEntered(ObjcContainers)}
             symbols == CppVisit[1] \cup misread \cup members
  <2>1. Pass("parse", "blocks", symbols)
    BY <1>6 DEF ExtractObjCNodes
  <2>2. \A s \in misread : s.calls = {}
    BY <1>4 DEF ObjcMisread
  <2>3. \A s \in members : COwn(s)
    BY <1>1, <1>2, ObjcContainerOwns
  <2>4. \A s \in symbols : COwn(s)
    BY <2>2, <2>3, <1>1, <1>2, CVisitGives DEF COwn
  <2>5. \A n \in File : CDefined(n) => CFinds(symbols, n)
    <3> SUFFICES ASSUME NEW n \in File, CDefined(n) PROVE CFinds(symbols, n)
      OBVIOUS
    <3>1. CASE kind[n] \in {"fn", "outfn"}
      BY <3>1, <1>1, <1>2, CVisitGives DEF CFinds
    <3>2. CASE kind[n] = "def"
      <4>1. PICK d \in ObjcEntered(ObjcContainers) : CFinds(ObjcContainer(d), n)
        BY <3>2, <1>1, <1>2, ObjcDefFound
      <4>. QED
        BY <4>1 DEF CFinds
    <3>. QED
      BY <3>1, <3>2 DEF CDefined, CBodies
  <2> HIDE DEF symbols
  <2>6. Given(symbols)
    <3>1. \A n : Gives(n) = IF CDefined(n) THEN CppCallSites(n) ELSE {}
      BY <1>1, <1>2, CVisitGives
    <3>. QED
      BY <2>4, <2>5, <3>1 DEF Given, COwn, CFinds
  <2>7. \A s \in symbols : s.sort = "type" => s.calls = {}
    BY <2>4 DEF COwn
  <2>. QED
    BY <1>1, <2>1, <2>6, <2>7, PassOuter
<1>7. CASE ObjcBlockTypedefs
  <2> DEFINE types == {ObjcSym(n, "type", << >>, {}) : n \in Of({"blocktype"})}
             symbols == out \cup types
  <2>1. Pass("blocks", "enums", symbols) /\ pass # "parse"
    BY <1>7 DEF ObjcBlockTypedefs, Pass
  <2>2. \A s \in types : s.calls = {}
    BY <1>4
  <2>3. Given(symbols) /\ \A s \in symbols : s.sort = "type" => s.calls = {}
    BY <2>1, <2>2, <1>3 DEF Given
  <2> HIDE DEF symbols
  <2>. QED
    BY <1>1, <2>1, <2>3, PassOuter
<1>8. CASE ObjcMacroEnums
  <2> DEFINE kept == {s \in out : ~(s.sort = "type" /\ \E e \in ObjcEnumOf(name[s.at]) : s.at \in Under(e))}
             enums == {ObjcSym(e, "enum", << >>, {}) : e \in ObjcEntered({"menum"})}
             items == UNION {{ObjcSym(i, "const", <<name[e]>>, {}) : i \in Kids(e)} : e \in ObjcEntered({"menum"})}
             symbols == kept \cup enums \cup items
  <2>1. Pass("enums", "done", symbols) /\ pass # "parse"
    BY <1>8 DEF ObjcMacroEnums, Pass
  <2>2. (\A s \in enums : s.calls = {}) /\ (\A s \in items : s.calls = {})
    BY <1>4, Zenon
  <2>3. kept \subseteq out /\ \A s \in out : s.calls # {} => s \in kept
    BY <2>1, <1>3
  <2> HIDE DEF kept, enums, items
  <2>4. Given(symbols) /\ \A s \in symbols : s.sort = "type" => s.calls = {}
    BY <2>1, <2>2, <2>3, <1>3 DEF Given
  <2> HIDE DEF symbols
  <2>. QED
    BY <1>1, <2>1, <2>4, PassOuter
<1>. QED
  BY <1>5, <1>6, <1>7, <1>8 DEF ObjcNext

\* Every symbol a PHP node gets has no calls or those of its body, which has
\* a symbol.
LEMMA PhpSymbolsOf ==
  ASSUME NEW n \in File, PhpVisited(n)
  PROVE  /\ \A s \in PhpEmit(n) : PhpOwns(s)
         /\ n \in PhpBodies => \E s \in PhpEmit(n) : s.at = n /\ s.calls = PhpCallSites(n)
<1>1. /\ kind[n] \in {"fn", "method"} => n \in PhpBodies
      /\ n \in PhpBodies => kind[n] \in {"fn", "method"}
  BY DEF PhpBodies, Of
<1>2. \A class : PhpFunc(n, class).at = n /\ PhpFunc(n, class).calls = PhpCallSites(n)
  BY DEF PhpFunc, PhpSym, Sym
<1>3. \A m, sort, parent : PhpSym(m, sort, parent, {}).calls = {}
  BY DEF PhpSym, Sym
<1>4. CASE kind[n] \in {"fn", "method"}
  BY <1>1, <1>2, <1>3, <1>4 DEF PhpEmit, PhpOwns, PhpClasses
<1>5. CASE kind[n] \in PhpClasses
  BY <1>1, <1>5 DEF PhpEmit, PhpOwns, PhpClasses, Sym
<1>6. CASE kind[n] \notin PhpClasses \cup {"fn", "method"}
  BY <1>1, <1>3, <1>6 DEF PhpEmit, PhpOwns
<1>. QED
  BY <1>4, <1>5, <1>6

LEMMA PhpStep ==
  ASSUME IInv, PhpNext
  PROVE  IInv'
<1>1. prof.lang = "php" /\ prof.lang \in GivenLanguages /\ Shape /\ Rooted
  BY DEF PhpNext, PhpFile, ExtractPHPNodes, IInv, GivenLanguages, OuterBodyLanguages
<1>2. CASE PhpFile
  <2>1. PICK l \in Levels : \E k \in PhpUnder(Open(l)) : Grow(l, k)
    BY <1>2 DEF PhpFile
  <2>2. PICK k \in PhpUnder(Open(l)) : Grow(l, k)
    BY <2>1
  <2>3. k # "file" /\ Fits(k, kind[Open(l)])
    BY <1>1, PhpUnderKinds
  <2>. QED
    BY <1>1, <2>2, <2>3, GrowOuter
<1>3. CASE ExtractPHPNodes
  <2> DEFINE symbols == UNION {PhpEmit(n) : n \in {n \in File : n > 1 /\ PhpVisited(n)}}
  <2>1. Pass("parse", "done", symbols)
    BY <1>3 DEF ExtractPHPNodes
  <2>2. \A n : Gives(n) = IF n \in PhpBodies THEN PhpCallSites(n) ELSE {}
    BY <1>1 DEF Gives
  <2>3. \A s \in symbols : PhpOwns(s)
    BY PhpSymbolsOf
  <2>4. \A n \in PhpBodies : n \in File /\ n > 1 /\ PhpVisited(n)
    BY <1>1, TreeShape DEF PhpBodies, Of, Rooted, Shape, File, Nodes
  <2>5. \A n \in PhpBodies : \E s \in symbols : s.at = n /\ s.calls = PhpCallSites(n)
    BY <2>4, PhpSymbolsOf
  <2> HIDE DEF symbols
  <2>6. Given(symbols)
    BY <2>2, <2>3, <2>4, <2>5 DEF Given, PhpOwns
  <2>. QED
    BY <1>1, <2>1, <2>6, PassOuter
<1>. QED
  BY <1>2, <1>3 DEF PhpNext

\* Every symbol a Swift node gets has no calls or those of its body, which
\* has a symbol.
LEMMA SwiftSymbolsOf ==
  ASSUME NEW n \in File, SwiftVisited(n)
  PROVE  /\ \A s \in SwiftEmit(n) : SwiftOwns(s)
         /\ n \in SwiftBodies => \E s \in SwiftEmit(n) : s.at = n /\ s.calls = SwiftCallSites(n)
<1>1. /\ kind[n] \in SwiftBodied => n \in SwiftBodies
      /\ n \in SwiftBodies => kind[n] \in SwiftBodied
  BY DEF SwiftBodies, Of
<1>2. \A sort, nm, calls :
        /\ SwiftMember(n, sort, nm, calls).at = n
        /\ SwiftMember(n, sort, nm, calls).calls = calls
  BY DEF SwiftMember, Sym
<1>3. CASE kind[n] \in SwiftBodied
  BY <1>1, <1>2, <1>3 DEF SwiftEmit, SwiftOwns, SwiftBodied
<1>4. CASE kind[n] \notin SwiftBodied
  <2>1. \A s \in SwiftEmit(n) : s.calls = {}
    BY <1>2, <1>4 DEF SwiftEmit, SwiftBodied, MemberOf, Sym
  <2>. QED
    BY <2>1, <1>1, <1>4 DEF SwiftOwns
<1>. QED
  BY <1>3, <1>4

LEMMA SwiftStep ==
  ASSUME IInv, SwiftNext
  PROVE  IInv'
<1>1. prof.lang = "swift" /\ prof.lang \in GivenLanguages
  BY DEF SwiftNext, SwiftFile, SwiftVisitFile, SwiftConformances, GivenLanguages, OuterBodyLanguages
<1>2. CASE SwiftFile
  <2>1. PICK l \in Levels : \E k \in SwiftUnder(Open(l)) : Grow(l, k)
    BY <1>2 DEF SwiftFile
  <2>2. PICK k \in SwiftUnder(Open(l)) : Grow(l, k)
    BY <2>1
  <2>3. k # "file" /\ Fits(k, kind[Open(l)])
    BY <1>1, SwiftUnderKinds
  <2>. QED
    BY <1>1, <2>2, <2>3, GrowOuter
<1>3. CASE SwiftVisitFile
  <2> DEFINE symbols == UNION {SwiftEmit(n) : n \in {n \in File : SwiftVisited(n)}}
  <2>1. Pass("parse", "conformances", symbols)
    BY <1>3 DEF SwiftVisitFile
  <2>2. \A n : Gives(n) = IF n \in SwiftBodies THEN SwiftCallSites(n) ELSE {}
    BY <1>1 DEF Gives
  <2>3. \A s \in symbols : SwiftOwns(s)
    BY SwiftSymbolsOf
  <2>4. \A n \in SwiftBodies : n \in File /\ SwiftVisited(n)
    BY DEF SwiftBodies, Of
  <2>5. \A n \in SwiftBodies : \E s \in symbols : s.at = n /\ s.calls = SwiftCallSites(n)
    BY <2>4, SwiftSymbolsOf
  <2> HIDE DEF symbols
  <2>6. Given(symbols)
    BY <2>2, <2>3, <2>4, <2>5 DEF Given, SwiftOwns
  <2>. QED
    BY <1>1, <2>1, <2>6, PassOuter
<1>4. CASE SwiftConformances
  <2> DEFINE conforms(s) == s.sort = "class" /\ kind[s.at] = "class" /\ name[s.at] \in SwiftConforming
             marked(s) == Sym(s.at, s.sort, s.qual, s.parent, s.calls, {"implements"})
             symbols == {IF conforms(s) THEN marked(s) ELSE s : s \in out}
  <2>1. Pass("conformances", "done", symbols)
    BY <1>4 DEF SwiftConformances
  <2>2. Given(out)
    BY <1>1, <2>1 DEF IInv, OuterShape, Pass
  <2>3. \A s : marked(s).at = s.at /\ marked(s).calls = s.calls
    BY DEF Sym
  <2> HIDE DEF marked, conforms
  <2>4. Given(symbols)
    BY <2>2, <2>3 DEF Given
  <2> HIDE DEF symbols
  <2>. QED
    BY <1>1, <2>1, <2>4, PassOuter
<1>. QED
  BY <1>2, <1>3, <1>4 DEF SwiftNext

\* PyCtx says of a node what its definition does, from what it says of the
\* node above: there is such a function, since that one comes before it.
PyCtxStep(f, n) ==
  IF n = 1 THEN [on |-> TRUE, class |-> << >>, qual |-> << >>, inFunction |-> FALSE]
  ELSE LET c == f[Up(n)]
           q == QualJoin(c.qual, name[n])
       IN  CASE ~c.on -> c
             [] c.on /\ kind[n] = "def" -> [c EXCEPT !.qual = q, !.inFunction = TRUE]
             [] c.on /\ kind[n] = "class" ->
                  [on |-> TRUE, class |-> q, qual |-> q, inFunction |-> FALSE]
             [] c.on /\ kind[n] \in {"deco", "if"} -> c
             [] OTHER -> [c EXCEPT !.on = FALSE]

LEMMA PyContext ==
  ASSUME Shape
  PROVE  \A n \in File : PyCtx[n] = PyCtxStep(PyCtx, n)
<1> DEFINE Defined(g, k) == /\ g = [n \in File |-> g[n]]
                            /\ \A n \in 1 .. k : g[n] = PyCtxStep(g, n)
           T == {k \in 0 .. Len(lev) : ~\E g : Defined(g, k)}
<1>1. Len(lev) \in Nat /\ File = 1 .. Len(lev)
  BY TreeShape DEF Shape, File, Nodes
<1>2. \A n \in File : n # 1 => Up(n) \in File /\ Up(n) < n
  BY UpIs
<1>3. T = {}
  <2> SUFFICES ASSUME T # {} PROVE FALSE
    OBVIOUS
  <2>1. T \subseteq Nat
    BY <1>1
  <2>2. PICK k \in T : \A j \in T : k <= j
    <3> HIDE DEF T
    <3>. QED
      BY <2>1, LeastNat, Zenon
  <2>3. k \in 0 .. Len(lev) /\ ~\E g : Defined(g, k)
    OBVIOUS
  <2>4. k # 0
    <3>1. Defined([n \in File |-> 0], 0)
      OBVIOUS
    <3>. QED
      BY <3>1, <2>3, Zenon
  <2>5. k \in File /\ k - 1 \in 0 .. Len(lev)
    BY <2>3, <2>4, <1>1
  <2>6. k - 1 \notin T
    BY <2>1, <2>2, <2>5
  <2>7. PICK g : Defined(g, k - 1)
    BY <2>5, <2>6
  <2> DEFINE h == [n \in File |-> IF n = k THEN PyCtxStep(g, k) ELSE g[n]]
  <2>8. \A n \in File : n # k => h[n] = g[n]
    OBVIOUS
  <2>9. h[k] = PyCtxStep(g, k)
    BY <2>5
  <2>10. h = [n \in File |-> h[n]]
    OBVIOUS
  <2> HIDE DEF h
  <2>11. \A n \in 1 .. k : PyCtxStep(h, n) = PyCtxStep(g, n)
    <3> SUFFICES ASSUME NEW n \in 1 .. k PROVE PyCtxStep(h, n) = PyCtxStep(g, n)
      OBVIOUS
    <3>1. CASE n = 1
      BY <3>1, Zenon DEF PyCtxStep
    <3>2. CASE n # 1
      <4>1. Up(n) \in File /\ Up(n) # k
        BY <3>2, <2>5, <1>1, <1>2
      <4>2. h[Up(n)] = g[Up(n)]
        BY <4>1, <2>8
      <4>. QED
        BY <4>2, Zenon DEF PyCtxStep
    <3>. QED
      BY <3>1, <3>2
  <2>12. \A n \in 1 .. k : h[n] = PyCtxStep(h, n)
    <3> SUFFICES ASSUME NEW n \in 1 .. k PROVE h[n] = PyCtxStep(h, n)
      OBVIOUS
    <3>1. CASE n = k
      BY <3>1, <2>9, <2>11
    <3>2. CASE n # k
      <4>1. n \in 1 .. k - 1 /\ n \in File
        BY <3>2, <2>5, <1>1
      <4>. QED
        BY <4>1, <3>2, <2>7, <2>8, <2>11
    <3>. QED
      BY <3>1, <3>2
  <2>13. Defined(h, k)
    BY <2>10, <2>12
  <2>. QED
    BY <2>3, <2>13
<1>4. PICK g : Defined(g, Len(lev))
  <2>1. Len(lev) \notin T /\ Len(lev) \in 0 .. Len(lev)
    BY <1>1, <1>3
  <2>. QED
    BY <2>1
<1>5. g = [n \in File |-> PyCtxStep(g, n)]
  BY <1>1, <1>4
<1>6. PyCtx = [n \in File |-> PyCtxStep(PyCtx, n)]
  BY <1>5, Zenon DEF PyCtx, PyCtxStep
<1>. QED
  BY <1>6

\* pythonVisit enters every block.
LEMMA PyEntersBlocks ==
  ASSUME Shape, Rooted, PyGrammar
  PROVE  \A n \in File : kind[n] \in PyBlocks => PyCtx[n].on
<1> DEFINE On(c) == c = [on |-> TRUE, class |-> c.class, qual |-> c.qual,
                         inFunction |-> c.inFunction]
           T == {n \in File : kind[n] \in PyBlocks /\ ~On(PyCtx[n])}
<1>1. T = {}
  <2> SUFFICES ASSUME T # {} PROVE FALSE
    BY Zenon
  <2>1. T \subseteq Nat
    BY TreeShape DEF Shape, File, Nodes
  <2>2. PICK n \in T : \A m \in T : n <= m
    <3> HIDE DEF T
    <3>. QED
      BY <2>1, LeastNat, Zenon
  <2>3. n \in File /\ n \in Nat /\ kind[n] \in PyBlocks /\ ~On(PyCtx[n])
    BY <2>1
  <2>4. PyCtx[n] = PyCtxStep(PyCtx, n)
    BY <2>3, PyContext
  <2>5. n # 1
    <3> SUFFICES ASSUME n = 1 PROVE FALSE
      OBVIOUS
    <3>1. PyCtx[n] = [on |-> TRUE, class |-> << >>, qual |-> << >>, inFunction |-> FALSE]
      BY <2>4 DEF PyCtxStep
    <3>2. On(PyCtx[n])
      BY <3>1
    <3>. QED
      BY <3>2, <2>3
  <2> DEFINE c == PyCtx[Up(n)]
  <2>6. Up(n) \in File /\ Up(n) < n /\ kind[Up(n)] \in PyBlocks
    BY <2>3, <2>5, UpIs, Zenon DEF PyGrammar
  <2>7. On(c)
    <3>1. Up(n) \notin T
      <4>1. Up(n) \in Nat
        BY <2>6, TreeShape DEF Shape, File, Nodes
      <4> HIDE DEF T
      <4>. QED
        BY <4>1, <2>2, <2>3, <2>6
    <3>. QED
      BY <3>1, <2>6
  <2>8. kind[n] # "file"
    BY <2>3, <2>5 DEF Rooted, PyBlocks
  <2>. QED
    BY <2>3, <2>4, <2>5, <2>7, <2>8, Zenon DEF PyCtxStep, PyBlocks
<1>2. ASSUME NEW n \in File, kind[n] \in PyBlocks PROVE PyCtx[n].on
  <2>1. On(PyCtx[n])
    BY <1>1, <1>2
  <2>. QED
    BY <2>1
<1>. QED
  BY <1>2

LEMMA PyVisitsAll ==
  ASSUME Shape, Rooted, PyGrammar, NEW n \in Of({"def", "class"})
  PROVE  n \in PyVisited({kind[n]})
<1>1. n \in File /\ n # 1 /\ kind[n] \in PyBlocks
  BY DEF Of, Rooted, PyBlocks
<1>2. Up(n) \in File /\ kind[Up(n)] \in PyBlocks
  BY <1>1, UpIs DEF PyGrammar
<1>. QED
  BY <1>1, <1>2, PyEntersBlocks DEF PyVisited, Of

\* Every symbol of pythonVisit has no calls or those of its definition.
LEMMA PyMembersOwn == \A s \in PyMembers : PyOwns(s)
<1>1. \A n \in PyVisited({"def"}) : PyOwns(PyDef(n))
  <2> SUFFICES ASSUME NEW n \in PyVisited({"def"}) PROVE PyOwns(PyDef(n))
    OBVIOUS
  <2>1. PyDef(n).at = n /\ PyDef(n).calls = PyCallSites(n)
    BY DEF PyDef, MemberOf, Sym
  <2>2. n \in Of(PyDefiners)
    BY DEF PyVisited, Of, PyDefiners
  <2>. QED
    BY <2>1, <2>2 DEF PyOwns
<1>2. \A n \in PyVisited({"class"}) : PyOwns(PyClass(n))
  <2> SUFFICES ASSUME NEW n \in PyVisited({"class"}) PROVE PyOwns(PyClass(n))
    OBVIOUS
  <2>1. PyClass(n).at = n /\ PyClass(n).calls = PyCallSites(n)
    BY DEF PyClass, MemberOf, Sym
  <2>2. n \in Of(PyDefiners)
    BY DEF PyVisited, Of, PyDefiners
  <2>. QED
    BY <2>1, <2>2 DEF PyOwns
<1>3. \A n : \A s \in PyAssignment(n) : PyOwns(s)
  BY DEF PyAssignment, MemberOf, Sym, PyOwns
<1>. QED
  BY <1>1, <1>2, <1>3 DEF PyMembers

LEMMA PyStep ==
  ASSUME IInv, PyNext
  PROVE  IInv'
<1>1. prof.lang = "python" /\ Shape /\ Rooted /\ PyGrammar /\ PyOut
  BY DEF PyNext, PyFile, PyVisit, PyModuleAssignments, PyTopLevel, IInv, PyShape
<1>2. CASE PyFile
  <2>1. PICK l \in Levels : \E k \in PyUnder(Open(l)) : Grow(l, k)
    BY <1>2 DEF PyFile
  <2>2. PICK k \in PyUnder(Open(l)) : Grow(l, k)
    BY <2>1
  <2>3. k # "file"
    BY PyUnderKinds
  <2>4. Shape' /\ out' = {} /\ prof' = prof /\ pass' = "parse"
    BY <1>1, <2>2, GrowFacts
  <2>5. Rooted'
    BY <1>1, <2>2, <2>3, GrowRooted
  <2>6. PyGrammar'
    BY <1>1, <2>2, GrowPy
  <2>7. PyOut'
    BY <2>4 DEF PyOut
  <2>. QED
    BY <1>1, <2>4, <2>5, <2>6, <2>7 DEF IInv, GoShape, JavaShape, PyShape, JsShape, OuterShape, GivenLanguages, OuterBodyLanguages
<1>3. ASSUME NEW from, NEW to, NEW symbols, Pass(from, to, symbols), to # "parse",
             \A s \in symbols : PyOwns(s),
             \A n \in Of({"def", "class"}) :
               \E s \in symbols : s.at = n /\ s.calls = PyCallSites(n),
             to = "done" /\ PyCallSites(1) # {} =>
               \E s \in symbols : s.at = 1 /\ s.calls = PyCallSites(1)
      PROVE  IInv'
  <2>1. /\ Shape' /\ Rooted' /\ UNCHANGED fileVars /\ prof' = prof /\ out' = symbols
        /\ PyGrammar' /\ pass' = to
    BY <1>1, <1>3, PassFacts
  <2>2. /\ \A K : Of(K)' = Of(K)
        /\ \A n : PyCallSites(n)' = PyCallSites(n)
    BY <2>1, SameFile
  <2>3. \A s \in out' : PyOwns(s)'
    BY <1>3, <2>1, <2>2 DEF PyOwns
  <2>4. PyOut'
    BY <1>3, <2>1, <2>2, <2>3 DEF PyOut
  <2>. QED
    BY <1>1, <2>1, <2>4 DEF IInv, GoShape, JavaShape, PyShape, JsShape, OuterShape, GivenLanguages, OuterBodyLanguages
<1>4. CASE PyVisit
  <2> DEFINE symbols ==
        PyMembers \cup UNION {PyInstanceAttributes(n, PyMembers) : n \in PyVisited({"class"})}
  <2>1. Pass("parse", "assignments", symbols)
    BY <1>4 DEF PyVisit
  <2>2. \A n, m : \A s \in PyInstanceAttributes(n, m) : s.calls = {}
    BY DEF PyInstanceAttributes, MemberOf, Sym
  <2>3. \A s \in symbols : PyOwns(s)
    BY <2>2, PyMembersOwn DEF PyOwns
  <2>4. ASSUME NEW n \in Of({"def", "class"})
        PROVE  \E s \in symbols : s.at = n /\ s.calls = PyCallSites(n)
    <3>1. /\ PyDef(n).at = n /\ PyDef(n).calls = PyCallSites(n)
          /\ PyClass(n).at = n /\ PyClass(n).calls = PyCallSites(n)
      BY DEF PyDef, PyClass, MemberOf, Sym
    <3>2. n \in PyVisited({"def"}) \/ n \in PyVisited({"class"})
      BY <1>1, PyVisitsAll DEF Of
    <3>. QED
      BY <3>1, <3>2 DEF PyMembers
  <2> HIDE DEF symbols
  <2>. QED
    BY <2>1, <2>3, <2>4, <1>3
<1>5. CASE PyModuleAssignments
  <2> DEFINE values(plain) ==
        {MemberOf(a, "variable", << >>, {}, {"module-value"}) : a \in plain}
  <2>1. PICK plain : Pass("assignments", "toplevel", out \cup values(plain))
    BY <1>5, Zenon DEF PyModuleAssignments
  <2>2. \A s \in values(plain) : PyOwns(s)
    BY DEF MemberOf, Sym, PyOwns
  <2>3. \A s \in out \cup values(plain) : PyOwns(s)
    BY <1>1, <2>2 DEF PyOut
  <2>4. pass # "parse"
    BY <2>1 DEF Pass
  <2> HIDE DEF values
  <2>5. \A n \in Of({"def", "class"}) :
          \E s \in out \cup values(plain) : s.at = n /\ s.calls = PyCallSites(n)
    BY <1>1, <2>4 DEF PyOut
  <2>. QED
    BY <2>1, <2>3, <2>5, <1>3
<1>6. CASE PyTopLevel
  <2> DEFINE top == Sym(1, "function", <<"<top-level>">>, << >>, PyCallSites(1), {})
             symbols == IF PyCallSites(1) = {} THEN out ELSE out \cup {top}
  <2>1. Pass("toplevel", "done", symbols) /\ pass # "parse"
    BY <1>6 DEF PyTopLevel, Pass
  <2>2. 1 \in Of(PyDefiners)
    BY <1>1, TreeShape DEF Shape, Rooted, Of, PyDefiners, File, Nodes
  <2>3. PyOwns(top) /\ top.at = 1 /\ top.calls = PyCallSites(1)
    BY <2>2 DEF PyOwns, Sym
  <2>4. \A s \in symbols : PyOwns(s)
    BY <1>1, <2>3 DEF PyOut
  <2>5. \A n \in Of({"def", "class"}) : \E s \in symbols : s.at = n /\ s.calls = PyCallSites(n)
    BY <1>1, <2>1 DEF PyOut
  <2>6. PyCallSites(1) # {} => \E s \in symbols : s.at = 1 /\ s.calls = PyCallSites(1)
    BY <2>3
  <2> HIDE DEF symbols
  <2>. QED
    BY <2>1, <2>4, <2>5, <2>6, <1>3
<1>. QED
  BY <1>2, <1>4, <1>5, <1>6 DEF PyNext

\* The inductive invariant of the extraction: the tree is one, the grammar's
\* types stand where the walkers look for them, and after every pass each
\* symbol of a file has no calls or those that its language's walk collects
\* for the executable it stands on.
THEOREM Inductive == Spec => []IInv
<1>1. Init => IInv
  <2> SUFFICES ASSUME Init PROVE IInv
    OBVIOUS
  <2>1. /\ lev = <<0>> /\ kind = <<"file">> /\ pass = "parse" /\ out = {}
    BY Zenon DEF Init
  <2>2. File = {1} /\ Len(lev) = 1 /\ kind[1] = "file" /\ lev[1] = 0
    BY <2>1 DEF File, Nodes
  <2>3. Shape
    BY <2>1, <2>2 DEF Shape, IsTree
  <2>4. Rooted
    BY <2>2 DEF Rooted
  <2>5. GoGrammar
    BY <2>2 DEF GoGrammar, GoTop
  <2>6. JavaGrammar
    BY <2>2 DEF JavaGrammar, JavaHoused, JavaMethods
  <2>7. PyGrammar /\ PyOut
    BY <2>1, <2>2 DEF PyGrammar, IsParent, PyOut
  <2>8. Grammar
    BY <2>2 DEF Grammar, IsParent
  <2>. QED
    BY <2>1, <2>3, <2>4, <2>5, <2>6, <2>7, <2>8 DEF IInv, GoShape, JavaShape, PyShape, JsShape, OuterShape, GivenLanguages, OuterBodyLanguages
<1>2. IInv /\ [Next]_vars => IInv'
  <2> SUFFICES ASSUME IInv, [Next]_vars PROVE IInv'
    OBVIOUS
  <2>1. CASE Next
    BY <2>1, CppStep, CsStep, GoStep, JavaStep, JsStep, KotlinStep, ObjcStep, PhpStep, PyStep, RustStep,
       SwiftStep DEF Next
  <2>2. CASE UNCHANGED vars
    <3>1. /\ UNCHANGED fileVars /\ pass' = pass /\ out' = out
          /\ prof' = prof /\ lev' = lev /\ kind' = kind
      BY <2>2 DEF vars, fileVars
    <3>2. /\ File' = File /\ (GoWhole' <=> GoWhole) /\ (\A K : Of(K)' = Of(K))
          /\ \A n : /\ GoCallSites(n)' = GoCallSites(n)
                   /\ JavaCallSites(n)' = JavaCallSites(n)
                   /\ PyCallSites(n)' = PyCallSites(n)
                   /\ Gives(n)' = Gives(n)
          /\ \A s : JsOwns(s)' <=> JsOwns(s)
          /\ JsNestedFunctionDecls' = JsNestedFunctionDecls
          /\ Grammar' <=> Grammar
      BY <3>1, SameFile
    <3>3. /\ Shape' /\ Rooted' /\ (GoGrammar => GoGrammar') /\ (JavaGrammar => JavaGrammar')
          /\ PyGrammar => PyGrammar'
      BY <3>1, <3>2 DEF IInv, Shape, Rooted, GoGrammar, JavaGrammar, GoTop, GoExpr,
                        JavaHomes, JavaHoused, PyGrammar, PyBlocks, PyCallHolders
    <3>4. GoOut => GoOut'
      BY <3>1, <3>2 DEF GoOut, GoFunctions
    <3>5. \A s \in out : (JavaOwns(s) => JavaOwns(s)') /\ (PyOwns(s) => PyOwns(s)')
      BY <3>1, <3>2 DEF JavaOwns, PyOwns
    <3>6. Given(out) => Given(out)'
      BY <3>1, <3>2 DEF Given
    <3>7. PyOut => PyOut'
      BY <3>1, <3>2, <3>5 DEF PyOut
    <3>8. JsShape => JsShape'
      BY <3>1, <3>2 DEF JsShape, JsLocals, ThisAssigned
    <3>. QED
      BY <3>1, <3>2, <3>3, <3>4, <3>5, <3>6, <3>7, <3>8 DEF IInv, GoShape, JavaShape, PyShape, OuterShape, GivenLanguages, OuterBodyLanguages
  <2>. QED
    BY <2>1, <2>2
<1>. QED
  BY <1>1, <1>2, PTL DEF Spec

-----------------------------------------------------------------------------
(* What follows from the invariant                                         *)

\* A call or a selector in a finished Go file: the walk of a function n
\* collects it if and only if it stands below n and it is not one of the two
\* kinds that goCallSites leaves to others.
LEMMA GoCollected ==
  ASSUME NEW n, NEW u \in Of({"call", "sel"})
  PROVE  u \in GoCallSites(n) <=>
           /\ InSubtree(lev, n, u)
           /\ \/ kind[u] = "call" /\ kind[FirstKid(u)] \in {"ident", "sel"}
              \/ kind[u] = "sel" /\ ~IsCalled(u)
<1>1. \A K : u \in CollectCallSites(n, K, {}) <=> u \in K /\ InSubtree(lev, n, u)
  BY DEF CollectCallSites
<1>2. /\ u \in Of({"call"}) <=> kind[u] = "call"
      /\ u \in Of({"sel"}) <=> kind[u] = "sel"
  BY DEF Of
<1>. QED
  BY <1>1, <1>2 DEF GoCallSites

\* The first child of a Go call, its function, is one of four types.
LEMMA GoFunctionOf ==
  ASSUME Shape, GoGrammar, GoWhole, NEW u \in Of({"call"})
  PROVE  kind[FirstKid(u)] \in GoExpr
<1>1. PICK m \in File : IsParent(lev, m, u)
  BY DEF GoWhole, Of, Kids
<1>2. /\ u \in File /\ Len(lev) \in Nat /\ File = 1 .. Len(lev)
      /\ \A k \in 2 .. Len(lev) : lev[k] <= lev[k - 1] + 1
      /\ \A k \in 1 .. Len(lev) : lev[k] \in Nat
  BY TreeShape, Zenon DEF Shape, Of, File, Nodes
<1>3. u + 1 \in File /\ u + 1 \in u + 1 .. m /\ u + 1 \in 2 .. Len(lev) /\ (u + 1) - 1 = u
  BY <1>1, <1>2 DEF IsParent
<1>4. lev[u + 1] > lev[u] /\ lev[u + 1] <= lev[u] + 1 /\ lev[u] \in Nat /\ lev[u + 1] \in Nat
  BY <1>1, <1>2, <1>3 DEF IsParent
<1>5. lev[u + 1] = lev[u] + 1
  BY <1>4
<1>. QED
  BY <1>2, <1>3, <1>5 DEF GoGrammar, Of, FirstKid

\* For every Go file of every size: each call or reference belongs to the
\* function declaration around it and to no other, and what is called is
\* recorded once.
THEOREM GoUsesBelongOnce == Spec => []GoUsesOnce
<1>1. IInv => GoUsesOnce
  <2> SUFFICES ASSUME IInv, Done("go"), NEW u \in Of({"call", "sel"})
               PROVE  Owners(u) =
                        IF \/ kind[u] = "call" /\ kind[FirstKid(u)] \in {"call", "lit"}
                           \/ kind[u] = "sel" /\ IsCalled(u)
                        THEN {} ELSE Around(u, {"func", "method"})
    BY DEF GoUsesOnce
  <2>1. Shape /\ GoGrammar /\ GoOut /\ u \in File /\ kind[u] \in {"call", "sel"}
    BY DEF IInv, GoShape, Done, Of
  <2>2. kind[u] = "call" => kind[FirstKid(u)] \in GoExpr
    BY <2>1, GoFunctionOf DEF GoOut, Of
  <2> DEFINE Uncounted == \/ kind[u] = "call" /\ kind[FirstKid(u)] \in {"call", "lit"}
                          \/ kind[u] = "sel" /\ IsCalled(u)
  <2>3. \A n : u \in GoCallSites(n) <=> InSubtree(lev, n, u) /\ ~Uncounted
    BY <2>1, <2>2, GoCollected DEF GoExpr
  <2>4. CASE Uncounted
    <3>1. \A s \in out : u \notin s.calls
      BY <2>1, <2>3, <2>4 DEF GoOut
    <3>2. Owners(u) = {}
      BY <3>1 DEF Owners
    <3>. QED
      BY <3>2, <2>4
  <2>5. CASE ~Uncounted
    <3>1. Owners(u) = {n \in GoFunctions : u \in GoCallSites(n)}
      <4>1. \A s \in out : u \in s.calls => s.at \in GoFunctions /\ u \in GoCallSites(s.at)
        BY <2>1 DEF GoOut
      <4>2. \A n \in GoFunctions : u \in GoCallSites(n) => \E s \in out : s.at = n /\ u \in s.calls
        BY <2>1 DEF GoOut
      <4>. QED
        BY <4>1, <4>2 DEF Owners
    <3>2. \A n \in GoFunctions : InSubtree(lev, n, u) => n < u
      <4> SUFFICES ASSUME NEW n \in GoFunctions, InSubtree(lev, n, u) PROVE n < u
        OBVIOUS
      <4>1. n <= u /\ n # u /\ n \in Nat /\ u \in Nat
        BY <2>1, TreeShape DEF InSubtree, GoFunctions, Of, Shape, File, Nodes
      <4>. QED
        BY <4>1
    <3>3. Owners(u) = Around(u, {"func", "method"})
      BY <2>3, <2>5, <3>1, <3>2 DEF Around, GoFunctions
    <3>. QED
      BY <3>3, <2>5
  <2>. QED
    BY <2>4, <2>5
<1>. QED
  BY <1>1, Inductive, PTL

\* No executable, member or body stands between an executable and a call of
\* its own: members stand in types and bodies, which javaCallSites skips.
LEMMA JavaNoBarrier ==
  ASSUME Shape, Rooted, JavaGrammar, NEW s \in Of(JavaExecutables), NEW t \in Of(JavaBarriers),
         NEW c \in JavaCallSites(s), InSubtree(lev, t, c), s < t
  PROVE  FALSE
<1> DEFINE Skipped == Of({"lambda", "body"} \cup JavaTypes)
<1>1. /\ c \in File /\ InSubtree(lev, s, c)
      /\ Way(s, c) \cap Skipped = {}
  BY DEF JavaCallSites, CollectCallSites, JavaCalls, Of
<1>2. /\ IsTree(lev) /\ s \in File /\ t \in File
      /\ kind[s] \in JavaExecutables /\ kind[t] \in JavaBarriers
  BY DEF Shape, Of
<1>3. InSubtree(lev, s, t) /\ t \in s + 1 .. c
  <2>1. s \in Nodes(lev) /\ t \in Nodes(lev) /\ c \in Nodes(lev)
    BY <1>1, <1>2 DEF File
  <2>. QED
    BY <2>1, <1>1, <1>2, Nested
<1>4. kind[t] \in JavaHoused
  <2>1. t \in Way(s, c)
    BY <1>1, <1>3 DEF Way
  <2>2. kind[t] \notin {"lambda", "body"} \cup JavaTypes
    BY <2>1, <1>1, <1>2 DEF Of
  <2>. QED
    BY <2>2, <1>2 DEF JavaHoused, JavaBarriers, JavaExecutables
<1>5. PICK p \in File : IsParent(lev, t, p)
  <2>1. t \in 2 .. Len(lev)
    BY <1>2, TreeShape DEF File, Nodes
  <2>. QED
    BY <2>1, <1>2, ParentExists DEF File
<1>6. s <= p /\ p \in Nat /\ p < c /\ InSubtree(lev, p, c)
  <2>1. s \in Nodes(lev) /\ t \in Nodes(lev) /\ c \in Nodes(lev) /\ p \in Nodes(lev)
    BY <1>1, <1>2, <1>5 DEF File
  <2>. QED
    BY <2>1, <1>1, <1>2, <1>3, <1>5, AboveParent
<1>7. kind[p] \in JavaHomes
  BY <1>2, <1>4, <1>5 DEF JavaGrammar
<1>8. p # s
  BY <1>2, <1>7 DEF JavaHomes, JavaTypes, JavaExecutables, JavaMethods
<1>9. s \in Nat /\ s >= 1 /\ c \in Nat
  BY <1>1, <1>2, TreeShape DEF File, Nodes
<1>10. p \in Way(s, c) /\ p # 1
  BY <1>6, <1>8, <1>9 DEF Way
<1>11. kind[p] # "file"
  BY <1>5, <1>10 DEF Rooted
<1>12. p \in Skipped
  BY <1>5, <1>7, <1>11 DEF Of, JavaHomes
<1>. QED
  BY <1>1, <1>10, <1>12

LEMMA JavaOneOwner ==
  ASSUME Shape, Rooted, JavaGrammar, NEW s \in Of(JavaExecutables), NEW t \in Of(JavaExecutables),
         NEW c \in JavaCallSites(s), c \in JavaCallSites(t), s < t
  PROVE  FALSE
<1>1. t \in Of(JavaBarriers) /\ InSubtree(lev, t, c)
  BY DEF JavaBarriers, Of, JavaCallSites, CollectCallSites
<1>. QED
  BY <1>1, JavaNoBarrier

\* The last of a set of nodes.
LEMMA LastIs ==
  ASSUME Shape, NEW S, S \subseteq File
  PROVE  /\ S # {} => Last(S) \in S /\ \A m \in S : m <= Last(S)
         /\ \A n \in S : (\A m \in S : m <= n) => Last(S) = n
<1>1. IsTree(lev) /\ File = Nodes(lev) /\ \A n \in File : n \in Nat
  BY TreeShape DEF Shape, File, Nodes
<1>2. S # {} => \E n \in S : \A m \in S : m <= n
  BY <1>1, LastNode
<1>3. \A n, k \in S : (\A m \in S : m <= n) /\ (\A m \in S : m <= k) => n = k
  <2> SUFFICES ASSUME NEW n \in S, NEW k \in S, \A m \in S : m <= n, \A m \in S : m <= k
               PROVE  n = k
    OBVIOUS
  <2>1. n <= k /\ k <= n /\ n \in Nat /\ k \in Nat
    BY <1>1
  <2>. QED
    BY <2>1
<1>. QED
  BY <1>2, <1>3 DEF Last

\* In Java a call's owner is the innermost executable around it, and only
\* if no initializer, member or body of a class comes in between.
LEMMA JavaCallsInnermost ==
  ASSUME IInv, Done("java"), NEW c \in JavaCalls
  PROVE  LET around == Around(c, JavaBarriers)
             inner == Last(around)
         IN  Owners(c) =
               IF around # {} /\ kind[inner] \in JavaExecutables /\ inner \in {s.at : s \in out}
               THEN {inner} ELSE {}
<1> DEFINE around == Around(c, JavaBarriers)
           inner == Last(around)
<1>1. /\ Shape /\ Rooted /\ JavaGrammar /\ \A s \in out : JavaOwns(s)
      /\ c \in File /\ kind[c] \in {"call", "anon"}
  BY DEF IInv, JavaShape, Done, JavaCalls, Of
<1>2. \A n \in File : n \in Nat
  BY <1>1, TreeShape DEF Shape, File, Nodes
<1>3. around \subseteq File
  BY DEF Around, Of
<1>4. /\ around # {} => inner \in around /\ \A m \in around : m <= inner
      /\ \A n \in around : (\A m \in around : m <= n) => inner = n
  <2> HIDE DEF around
  <2>. QED
    BY <1>1, <1>3, LastIs
<1>5. ASSUME NEW s \in out, c \in s.calls
      PROVE  around # {} /\ s.at = inner /\ kind[inner] \in JavaExecutables
  <2>1. s.at \in Of(JavaExecutables) /\ c \in JavaCallSites(s.at)
    BY <1>1, <1>5 DEF JavaOwns, Of
  <2>2. s.at \in File /\ InSubtree(lev, s.at, c) /\ kind[s.at] \in JavaExecutables
    BY <2>1 DEF JavaCallSites, CollectCallSites, Of
  <2>3. s.at # c
    BY <2>2, <1>1 DEF JavaExecutables, JavaMethods
  <2>4. s.at < c
    BY <2>2, <2>3, <1>1, <1>2 DEF InSubtree
  <2>5. s.at \in around
    BY <2>2, <2>4 DEF Around, Of, JavaBarriers
  <2>6. \A m \in around : m <= s.at
    <3> SUFFICES ASSUME NEW m \in around, ~(m <= s.at) PROVE FALSE
      OBVIOUS
    <3>1. m \in Of(JavaBarriers) /\ InSubtree(lev, m, c) /\ m \in File
      BY DEF Around, Of
    <3>2. s.at < m
      BY <3>1, <2>2, <1>2
    <3>. QED
      BY <3>1, <3>2, <2>1, <1>1, JavaNoBarrier
  <2> HIDE DEF around
  <2>. QED
    BY <2>2, <2>5, <2>6, <1>4
<1>6. ASSUME around # {}, kind[inner] \in JavaExecutables, NEW s \in out, s.at = inner
      PROVE  c \in s.calls
  <2>1. inner \in File /\ inner < c /\ InSubtree(lev, inner, c)
    BY <1>4, <1>6 DEF Around, Of
  <2>2. Way(inner, c) \cap Of({"lambda", "body"} \cup JavaTypes) = {}
    <3> SUFFICES ASSUME NEW m \in Way(inner, c), m \in Of({"lambda", "body"} \cup JavaTypes)
                 PROVE  FALSE
      OBVIOUS
    <3>1. /\ m \in File /\ m \in inner + 1 .. c /\ InSubtree(lev, m, c)
          /\ kind[m] \in {"lambda", "body"} \cup JavaTypes
      BY DEF Way, Of
    <3>2. m # c
      BY <3>1, <1>1 DEF JavaTypes
    <3>3. m < c /\ inner < m
      <4> HIDE DEF inner
      <4>. QED
        BY <3>1, <3>2, <2>1, <1>1, <1>2
    <3>4. m \in around
      BY <3>1, <3>3 DEF Around, Of, JavaBarriers, JavaExecutables
    <3>5. m <= inner /\ m \in Nat /\ inner \in Nat
      BY <3>1, <3>4, <2>1, <1>2, <1>4, Zenon
    <3> HIDE DEF inner
    <3>. QED
      BY <3>3, <3>5
  <2>3. c \in JavaCallSites(inner)
    BY <2>1, <2>2 DEF JavaCallSites, CollectCallSites
  <2>4. s.calls = JavaCallSites(inner)
    BY <1>1, <1>6 DEF JavaOwns
  <2>. QED
    BY <2>3, <2>4
<1>7. CASE around # {} /\ kind[inner] \in JavaExecutables /\ inner \in {s.at : s \in out}
  <2>1. PICK s \in out : s.at = inner
    BY <1>7
  <2>2. c \in s.calls
    BY <2>1, <1>6, <1>7
  <2> HIDE DEF inner, around
  <2>3. Owners(c) = {inner}
    BY <2>1, <2>2, <1>5 DEF Owners
  <2>. QED
    BY <2>3, <1>7 DEF inner, around
<1>8. CASE ~(around # {} /\ kind[inner] \in JavaExecutables /\ inner \in {s.at : s \in out})
  <2> HIDE DEF inner, around
  <2>1. \A s \in out : c \notin s.calls
    BY <1>5, <1>8
  <2>2. Owners(c) = {}
    BY <2>1 DEF Owners
  <2>. QED
    BY <2>2, <1>8 DEF inner, around
<1>. QED
  BY <1>7, <1>8

LEMMA PyOneOwner ==
  ASSUME Shape, Rooted, NEW s \in Of(PyDefiners), NEW t \in Of(PyDefiners),
         NEW c \in PyCallSites(s), c \in PyCallSites(t), s < t
  PROVE  FALSE
<1>1. c \in File /\ InSubtree(lev, s, c) /\ InSubtree(lev, t, c)
  BY DEF PyCallSites, PyCalls, Of
<1>2. IsTree(lev) /\ s \in File /\ t \in File /\ kind[t] \in PyDefiners
  BY DEF Shape, Of
<1>3. t \in Way(s, c)
  <2>1. s \in Nodes(lev) /\ t \in Nodes(lev) /\ c \in Nodes(lev)
    BY <1>1, <1>2 DEF File
  <2>2. t \in s + 1 .. c
    BY <2>1, <1>1, <1>2, Nested
  <2>. QED
    BY <2>2, <1>1 DEF Way
<1>4. kind[t] \in {"def", "class"}
  <2>1. t # 1
    BY <1>2, TreeShape DEF File, Nodes
  <2>. QED
    BY <2>1, <1>2 DEF Rooted, PyDefiners
<1>5. t \in Way(s, c) \cap PyScopes
  BY <1>2, <1>3, <1>4 DEF PyScopes, Of
<1>6. \/ Way(s, c) \cap PyScopes = {}
      \/ \E d : Way(s, c) \cap PyScopes = {d} /\ kind[d] = "deco"
  BY DEF PyCallSites
<1>. QED
  BY <1>4, <1>5, <1>6

\* Headers, decorators, assignments and calls hold nothing but calls.
LEMMA PyHoldsCalls ==
  ASSUME Shape, PyGrammar, NEW h \in File, kind[h] \in PyCallHolders,
         NEW m \in File, InSubtree(lev, h, m), m # h
  PROVE  kind[m] = "call"
<1>1. \A n, p \in File : IsParent(lev, n, p) /\ kind[p] \in PyCallHolders => kind[n] \in {"call"}
  BY DEF PyGrammar
<1>2. {"call"} \subseteq PyCallHolders
  BY DEF PyCallHolders
<1>3. kind[m] \in {"call"}
  BY <1>1, <1>2, HoldsOnly, Zenon
<1>. QED
  BY <1>3

\* A call belongs to at most one of the definitions it stands in.
LEMMA PyOwnerIs ==
  ASSUME Shape, Rooted, NEW c \in File, NEW s \in Of({"file", "def", "class"}),
         InSubtree(lev, s, c), Way(s, c) \cap Of({"def", "class"}) = {}
  PROVE  PyOwner(c) = s
<1> DEFINE Owns(n) == /\ InSubtree(lev, n, c)
                      /\ Way(n, c) \cap Of({"def", "class"}) = {}
<1>1. ASSUME NEW n \in Of({"file", "def", "class"}), NEW m \in Of({"file", "def", "class"}),
             Owns(n), Owns(m), n < m
      PROVE  FALSE
  <2>1. /\ n \in Nodes(lev) /\ m \in Nodes(lev) /\ c \in Nodes(lev) /\ IsTree(lev)
        /\ m \in File /\ kind[m] \in {"file", "def", "class"}
    BY DEF Of, File, Shape
  <2>2. m \in n + 1 .. c
    BY <2>1, <1>1, Nested
  <2>3. m # 1
    BY <2>1, <2>2, TreeShape DEF Nodes
  <2>4. kind[m] \in {"def", "class"}
    BY <2>1, <2>3 DEF Rooted
  <2>. QED
    BY <2>1, <2>2, <2>4, <1>1 DEF Way, Of
<1>2. \A n \in Of({"file", "def", "class"}) : n \in Nat
  BY TreeShape DEF Shape, Of, File, Nodes
<1>3. \A n \in Of({"file", "def", "class"}) : Owns(n) => n = s
  <2> SUFFICES ASSUME NEW n \in Of({"file", "def", "class"}), Owns(n) PROVE n = s
    OBVIOUS
  <2>1. Owns(s)
    OBVIOUS
  <2>2. ~(n < s) /\ ~(s < n)
    BY <2>1, <1>1
  <2>. QED
    BY <2>2, <1>2
<1>. QED
  BY <1>3 DEF PyOwner

\* Every call stands in a definition or the module.
LEMMA PyOwnerExists ==
  ASSUME Shape, Rooted, NEW c \in File, kind[c] \notin {"file", "def", "class"}
  PROVE  /\ PyOwner(c) \in Of({"file", "def", "class"})
         /\ InSubtree(lev, PyOwner(c), c)
         /\ Way(PyOwner(c), c) \cap Of({"def", "class"}) = {}
<1> DEFINE S == {n \in Of({"file", "def", "class"}) : InSubtree(lev, n, c)}
<1>1. IsTree(lev) /\ File = Nodes(lev) /\ \A n \in File : n \in Nat
  BY TreeShape DEF Shape, File, Nodes
<1>2. S \subseteq File /\ 1 \in S
  BY <1>1, RootSubtree DEF Of, Rooted
<1>3. PICK s \in S : \A n \in S : n <= s
  <2> HIDE DEF S
  <2>. QED
    BY <1>1, <1>2, LastNode
<1>4. Way(s, c) \cap Of({"def", "class"}) = {}
  <2> SUFFICES ASSUME NEW m \in Way(s, c), m \in Of({"def", "class"}) PROVE FALSE
    OBVIOUS
  <2>1. m \in s + 1 .. c /\ m \in S
    BY DEF Way, Of
  <2>2. s \in Nat /\ c \in Nat /\ m \in Nat
    BY <2>1, <1>1, <1>2
  <2>3. m <= s
    BY <2>1, <1>3
  <2>. QED
    BY <2>1, <2>2, <2>3
<1>5. PyOwner(c) = s
  BY <1>4, PyOwnerIs
<1>. QED
  BY <1>4, <1>5

\* A header on the way to a call from the root makes the call nobody's.
LEMMA PyHeaderBars ==
  ASSUME Shape, Rooted, PyGrammar, NEW n \in Of(PyDefiners), NEW c \in PyCallSites(n),
         NEW h \in Way(1, c), kind[h] = "header"
  PROVE  FALSE
<1>1. /\ c \in File /\ InSubtree(lev, n, c) /\ Way(n, c) \cap PyHeader(n) = {}
      /\ \A d \in Way(n, c) \cap PyScopes : kind[d] = "deco"
  BY DEF PyCallSites, PyCalls, Of
<1>2. /\ IsTree(lev) /\ File = Nodes(lev) /\ \A k \in File : k \in Nat /\ k >= 1
      /\ n \in File /\ kind[n] \in PyDefiners
      /\ \A k \in 1 .. c : k \in File
  BY <1>1, TreeShape DEF Shape, Of, File, Nodes
<1>3. h \in File /\ InSubtree(lev, h, c) /\ h # 1 /\ h <= c
  <2>1. h \in 2 .. c /\ InSubtree(lev, h, c)
    BY DEF Way
  <2>. QED
    BY <2>1, <1>1, <1>2
<1>4. n # h
  BY <1>2 DEF PyDefiners
<1>5. CASE h < n
  <2>1. InSubtree(lev, h, n)
    BY <1>1, <1>2, <1>3, <1>5, Nested
  <2>2. kind[n] = "call"
    BY <2>1, <1>2, <1>3, <1>4, PyHoldsCalls DEF PyCallHolders
  <2>. QED
    BY <2>2, <1>2 DEF PyDefiners
<1>6. CASE n < h
  <2>1. InSubtree(lev, n, h) /\ h \in n + 1 .. c
    BY <1>1, <1>2, <1>3, <1>6, Nested
  <2>2. h \in Way(n, c)
    BY <2>1, <1>3 DEF Way
  <2>3. Up(h) \in File /\ Up(h) < h /\ IsParent(lev, h, Up(h))
    BY <1>3, UpIs
  <2>4. kind[Up(h)] \in {"def", "class"}
    BY <2>3, <1>3 DEF PyGrammar
  <2>5. n <= Up(h) /\ Up(h) < c /\ InSubtree(lev, Up(h), c)
    BY <2>1, <2>3, <1>1, <1>2, <1>3, <1>6, AboveParent, Zenon
  <2>6. Up(h) # n
    BY <2>2, <1>1, <1>3 DEF PyHeader, Of
  <2>7. Up(h) \in Way(n, c)
    BY <2>3, <2>5, <2>6, <1>1, <1>2 DEF Way
  <2>8. Up(h) \in PyScopes
    BY <2>3, <2>4 DEF PyScopes, Of
  <2>. QED
    BY <2>4, <2>7, <2>8, <1>1
<1>. QED
  BY <1>2, <1>3, <1>4, <1>5, <1>6

\* A definition collects every call it is the owner of: a decorated
\* definition on the way down is entered through one decorator only.
LEMMA PyCollects ==
  ASSUME Shape, Rooted, PyGrammar, NEW n \in Of(PyDefiners), NEW c \in PyCalls,
         c \notin PyOwnerless, InSubtree(lev, n, c), Way(n, c) \cap Of({"def", "class"}) = {}
  PROVE  c \in PyCallSites(n)
<1> DEFINE scopes == Way(n, c) \cap PyScopes
<1>1. /\ IsTree(lev) /\ File = Nodes(lev) /\ \A k \in File : k \in Nat /\ k >= 1
      /\ n \in File /\ c \in File /\ kind[c] \in {"call", "decorator"}
      /\ \A k \in 1 .. c : k \in File
  BY TreeShape DEF Shape, Of, PyCalls, File, Nodes
<1>2. Way(n, c) \cap PyHeader(n) = {}
  <2> SUFFICES ASSUME NEW h \in Way(n, c), h \in PyHeader(n) PROVE FALSE
    OBVIOUS
  <2>1. kind[h] = "header" /\ h \in n + 1 .. c /\ InSubtree(lev, h, c)
    BY DEF PyHeader, Of, Way
  <2>2. h \in Way(1, c)
    BY <2>1, <1>1 DEF Way
  <2>. QED
    BY <2>1, <2>2 DEF PyOwnerless
<1>3. \A d \in scopes : /\ d \in File /\ d \in n + 1 .. c /\ InSubtree(lev, d, c)
                       /\ kind[d] = "deco" /\ d # c
  <2> SUFFICES ASSUME NEW d \in scopes
               PROVE  /\ d \in File /\ d \in n + 1 .. c /\ InSubtree(lev, d, c)
                      /\ kind[d] = "deco" /\ d # c
    OBVIOUS
  <2>1. d \in n + 1 .. c /\ InSubtree(lev, d, c) /\ d \in File /\ kind[d] \in {"def", "class", "deco"}
    BY DEF Way, PyScopes, Of
  <2>2. kind[d] = "deco"
    BY <2>1 DEF Of
  <2>. QED
    BY <2>1, <2>2, <1>1
<1>4. ASSUME NEW d \in scopes
      PROVE  \E e \in Way(d, c) : e \in File /\ IsParent(lev, e, d) /\ kind[e] = "decorator"
  <2>0. d \in File /\ d \in n + 1 .. c /\ InSubtree(lev, d, c) /\ kind[d] = "deco" /\ d # c
    BY <1>3
  <2>1. PICK e \in Way(d, c) : e \in File /\ IsParent(lev, e, d)
    BY <2>0, <1>1, ChildTowards
  <2>2. kind[e] \in {"decorator", "def", "class"}
    BY <2>0, <2>1 DEF PyGrammar
  <2>3. e \in Way(n, c)
    <3>1. e \in d + 1 .. c /\ InSubtree(lev, e, c)
      BY <2>1 DEF Way
    <3>. QED
      BY <3>1, <2>0, <1>1 DEF Way
  <2>4. kind[e] = "decorator"
    BY <2>1, <2>2, <2>3 DEF Of
  <2>. QED
    BY <2>1, <2>4
<1>5. ASSUME NEW d \in scopes, NEW f \in scopes, d < f PROVE FALSE
  <2>0. /\ d \in File /\ InSubtree(lev, d, c) /\ f \in File /\ InSubtree(lev, f, c)
        /\ kind[f] = "deco"
    BY <1>3
  <2>1. PICK e \in Way(d, c) : e \in File /\ IsParent(lev, e, d) /\ kind[e] = "decorator"
    BY <1>4
  <2>2. e \in d + 1 .. c /\ InSubtree(lev, e, c)
    BY <2>1 DEF Way
  <2>3. e # f
    BY <2>0, <2>1
  <2>4. CASE e < f
    <3>1. InSubtree(lev, e, f)
      BY <2>0, <2>1, <2>2, <2>4, <1>1, Nested
    <3>2. kind[f] = "call"
      BY <3>1, <2>0, <2>1, <2>3, PyHoldsCalls DEF PyCallHolders
    <3>. QED
      BY <3>2, <2>0
  <2>5. CASE f < e
    <3>1. InSubtree(lev, f, e)
      BY <2>0, <2>1, <2>2, <2>5, <1>1, Nested
    <3>2. f <= d
      BY <3>1, <2>0, <2>1, <2>2, <2>5, <1>1, AboveParent
    <3>. QED
      BY <3>2, <2>0, <1>1, <1>5
  <2>. QED
    BY <2>0, <2>1, <2>3, <2>4, <2>5, <1>1
<1>6. \A d, f \in scopes : d = f
  <2> SUFFICES ASSUME NEW d \in scopes, NEW f \in scopes PROVE d = f
    OBVIOUS
  <2>1. ~(d < f) /\ ~(f < d)
    BY <1>5
  <2>2. d \in Nat /\ f \in Nat
    BY <1>1, <1>3
  <2> HIDE DEF scopes
  <2>. QED
    BY <2>1, <2>2
<1>7. \/ scopes = {}
      \/ \E d \in scopes : /\ scopes = {d} /\ kind[d] = "deco"
                           /\ \E e \in Way(d, c) : kind[e] = "decorator"
  BY <1>3, <1>4, <1>6
<1>. QED
  BY <1>2, <1>7 DEF PyCallSites

\* In Python a call outside headers belongs to the innermost definition whose
\* body it stands in, or to the module.
LEMMA PyCallsInnermost ==
  ASSUME IInv, Done("python"), NEW c \in PyCalls
  PROVE  Owners(c) = IF c \in PyOwnerless THEN {} ELSE {PyOwner(c)}
<1>1. /\ Shape /\ Rooted /\ PyGrammar /\ PyOut /\ pass = "done"
      /\ c \in File /\ kind[c] \in {"call", "decorator"}
  BY DEF IInv, PyShape, Done, PyCalls, Of
<1>2. ASSUME NEW s \in out, c \in s.calls
      PROVE  c \notin PyOwnerless /\ s.at = PyOwner(c)
  <2>1. s.at \in Of(PyDefiners) /\ c \in PyCallSites(s.at)
    BY <1>1, <1>2 DEF PyOut, PyOwns
  <2>2. c \notin PyOwnerless
    BY <2>1, <1>1, PyHeaderBars DEF PyOwnerless
  <2>3. InSubtree(lev, s.at, c) /\ Way(s.at, c) \cap Of({"def", "class"}) = {}
    <3>1. \A d \in Way(s.at, c) \cap PyScopes : kind[d] = "deco"
      BY <2>1 DEF PyCallSites
    <3>. QED
      BY <3>1, <2>1 DEF PyCallSites, PyScopes, Of
  <2>. QED
    BY <2>1, <2>2, <2>3, <1>1, PyOwnerIs DEF PyDefiners
<1>3. ASSUME c \notin PyOwnerless
      PROVE  \E s \in out : c \in s.calls
  <2> DEFINE n == PyOwner(c)
  <2>1. /\ n \in Of(PyDefiners) /\ InSubtree(lev, n, c)
        /\ Way(n, c) \cap Of({"def", "class"}) = {}
    BY <1>1, PyOwnerExists DEF PyDefiners
  <2> HIDE DEF n
  <2>2. c \in PyCallSites(n)
    BY <2>1, <1>1, <1>3, PyCollects
  <2>3. CASE n = 1
    BY <2>2, <2>3, <1>1 DEF PyOut
  <2>4. CASE n # 1
    <3>1. n \in Of({"def", "class"})
      BY <2>1, <2>4, <1>1 DEF Rooted, Of, PyDefiners
    <3>. QED
      BY <3>1, <2>2, <1>1 DEF PyOut
  <2>. QED
    BY <2>3, <2>4
<1>. QED
  BY <1>2, <1>3 DEF Owners

\* For every Java or Python file of every size: when the passes are done, each
\* call belongs to the innermost executable it stands in and to no other
\* (metadata.go, javaCallSites and pythonCallSites, with the symbols of
\* extractJavaNodes and extractPythonNodes).
THEOREM InnermostOwnsCalls == Spec => []CallsToInnermost
<1>1. IInv => CallsToInnermost
  BY PyCallsInnermost, JavaCallsInnermost DEF CallsToInnermost, PyInnermost, JavaInnermost
<1>. QED
  BY <1>1, Inductive, PTL

\* The walks over a PHP or Swift file stop at bodies, so none of the bodies
\* with a symbol is in another.
LEMMA PhpOneOwner ==
  ASSUME Shape, Rooted, NEW s \in PhpBodies, NEW t \in PhpBodies,
         NEW c \in PhpCallSites(s), c \in PhpCallSites(t), s < t
  PROVE  FALSE
<1>1. /\ IsTree(lev) /\ c \in File /\ InSubtree(lev, s, c) /\ InSubtree(lev, t, c)
      /\ s \in File /\ t \in File /\ s \in Of({"fn", "method"})
  BY DEF Shape, PhpCallSites, CollectCallSites, PhpBodies, Of
<1>2. InSubtree(lev, s, t)
  BY <1>1, Nested DEF File
<1>3. s # 1
  BY <1>1 DEF Rooted, Of
<1>4. s \in Way(1, t)
  BY <1>1, <1>2, <1>3, TreeShape DEF Way, File, Nodes
<1>5. s = t
  BY <1>1, <1>4 DEF PhpBodies, PhpVisited
<1>. QED
  BY <1>5, <1>1, TreeShape DEF File, Nodes

LEMMA SwiftOneOwner ==
  ASSUME Shape, Rooted, NEW s \in SwiftBodies, NEW t \in SwiftBodies,
         NEW c \in SwiftCallSites(s), c \in SwiftCallSites(t), s < t
  PROVE  FALSE
<1>1. /\ IsTree(lev) /\ c \in File /\ InSubtree(lev, s, c) /\ InSubtree(lev, t, c)
      /\ s \in File /\ t \in File /\ kind[s] \in SwiftBodied
  BY DEF Shape, SwiftCallSites, CollectCallSites, SwiftBodies, Of
<1>2. /\ \A k \in File : k \in Nat /\ k >= 1
      /\ s # 1 /\ t \in 2 .. Len(lev)
  BY <1>1, TreeShape DEF Rooted, SwiftBodied, File, Nodes
<1>3. Up(t) \in File /\ IsParent(lev, t, Up(t))
  BY <1>1, <1>2, ParentExists DEF Up, File
<1>4. s <= Up(t) /\ Up(t) < t
  <2>1. InSubtree(lev, s, t) /\ InSubtree(lev, t, t)
    BY <1>1, <1>2, Nested DEF InSubtree, File
  <2>2. s <= Up(t) /\ Up(t) < c
    BY <2>1, <1>1, <1>3, AboveParent DEF File
  <2>. QED
    BY <2>2, <1>3 DEF IsParent
<1>5. InSubtree(lev, s, Up(t))
  <2>1. InSubtree(lev, s, t)
    BY <1>1, Nested DEF File
  <2>2. s \in Nat /\ t \in Nat /\ Up(t) \in Nat
    BY <1>1, <1>2, <1>3, Zenon
  <2>3. \A k \in s + 1 .. Up(t) : k \in s + 1 .. t
    BY <2>2, <1>4
  <2>. QED
    BY <2>1, <2>3, <1>4 DEF InSubtree
<1>6. s \in Way(1, Up(t))
  BY <1>1, <1>2, <1>3, <1>4, <1>5 DEF Way
<1>7. s \in Of(SwiftBodied \cup {"prop", "call"})
  BY <1>1 DEF Of
<1>8. Way(1, Up(t)) \cap Of(SwiftBodied \cup {"prop", "call"}) = {}
  BY DEF SwiftBodies, SwiftVisited
<1>. QED
  BY <1>6, <1>7, <1>8

\* What the invariant says of the symbols of a PHP or Swift file with calls.
LEMMA GivenOwns ==
  ASSUME IInv, NEW s \in out, s.calls # {}
  PROVE  /\ prof.lang = "php" => PhpOwns(s)
         /\ prof.lang = "swift" => SwiftOwns(s)
<1>1. prof.lang \in GivenLanguages => s.at \in File /\ s.calls = Gives(s.at)
  BY DEF IInv, Shape, OuterShape, Given
<1>. QED
  BY <1>1 DEF Gives, GivenLanguages, OuterBodyLanguages, PhpOwns, SwiftOwns

\* For every Java, PHP, Python or Swift file of every size, after every
\* pass: no call belongs to symbols that stand on two nodes.
THEOREM OneOwnerPerCall == Spec => []OneOwner
<1>1. IInv => OneOwner
  <2> SUFFICES ASSUME IInv, prof.lang \in {"java", "php", "python", "swift"}, NEW s \in out, NEW t \in out,
                      s.calls \cap t.calls # {}
               PROVE  s.at = t.at
    BY DEF OneOwner
  <2>1. PICK c : c \in s.calls /\ c \in t.calls
    OBVIOUS
  <2>2. Shape /\ Rooted
    BY DEF IInv
  <2>3. s.at \in File /\ t.at \in File => s.at \in Nat /\ t.at \in Nat
    BY <2>2, TreeShape DEF Shape, File, Nodes
  <2>4. CASE prof.lang = "java"
    <3>1. JavaGrammar /\ JavaOwns(s) /\ JavaOwns(t)
      BY <2>4 DEF IInv, JavaShape
    <3>2. /\ s.at \in Of(JavaExecutables) /\ c \in JavaCallSites(s.at)
          /\ t.at \in Of(JavaExecutables) /\ c \in JavaCallSites(t.at)
      BY <3>1, <2>1 DEF JavaOwns, Of
    <3>3. ~(s.at < t.at) /\ ~(t.at < s.at)
      BY <3>1, <3>2, <2>2, JavaOneOwner
    <3>. QED
      BY <3>2, <3>3, <2>3 DEF Of
  <2>5. CASE prof.lang = "python"
    <3>1. PyOwns(s) /\ PyOwns(t)
      BY <2>5 DEF IInv, PyShape, PyOut
    <3>2. /\ s.at \in Of(PyDefiners) /\ c \in PyCallSites(s.at)
          /\ t.at \in Of(PyDefiners) /\ c \in PyCallSites(t.at)
      BY <3>1, <2>1 DEF PyOwns
    <3>3. ~(s.at < t.at) /\ ~(t.at < s.at)
      BY <3>2, <2>2, PyOneOwner
    <3>. QED
      BY <3>2, <3>3, <2>3 DEF Of
  <2>6. CASE prof.lang = "php"
    <3>1. PhpOwns(s) /\ PhpOwns(t)
      BY <2>1, <2>6, GivenOwns
    <3>2. /\ s.at \in PhpBodies /\ c \in PhpCallSites(s.at)
          /\ t.at \in PhpBodies /\ c \in PhpCallSites(t.at)
      BY <3>1, <2>1 DEF PhpOwns
    <3>3. ~(s.at < t.at) /\ ~(t.at < s.at)
      BY <3>2, <2>2, PhpOneOwner
    <3>. QED
      BY <3>2, <3>3, <2>3 DEF PhpBodies, Of
  <2>7. CASE prof.lang = "swift"
    <3>1. SwiftOwns(s) /\ SwiftOwns(t)
      BY <2>1, <2>7, GivenOwns
    <3>2. /\ s.at \in SwiftBodies /\ c \in SwiftCallSites(s.at)
          /\ t.at \in SwiftBodies /\ c \in SwiftCallSites(t.at)
      BY <3>1, <2>1 DEF SwiftOwns
    <3>3. ~(s.at < t.at) /\ ~(t.at < s.at)
      BY <3>2, <2>2, SwiftOneOwner
    <3>. QED
      BY <3>2, <3>3, <2>3 DEF SwiftBodies, Of
  <2>. QED
    BY <2>4, <2>5, <2>6, <2>7
<1>. QED
  BY <1>1, Inductive, PTL
-----------------------------------------------------------------------------
(* Whose the calls are in the languages whose walks stop at bodies         *)

\* The owners of a call are the nodes whose symbols are given it.
LEMMA OuterOwners ==
  ASSUME IInv, pass = "done", prof.lang \in GivenLanguages, NEW c
  PROVE  Owners(c) = {n \in File : c \in Gives(n)}
<1>1. Given(out)
  BY DEF IInv, OuterShape
<1>2. \A s \in out : c \in s.calls => s.at \in File /\ c \in Gives(s.at)
  BY <1>1 DEF Given
<1>3. \A n \in File : c \in Gives(n) => \E s \in out : s.at = n /\ c \in s.calls
  BY <1>1 DEF Given
<1>. QED
  BY <1>2, <1>3 DEF Owners

LEMMA AroundIs ==
  ASSUME NEW c \in File, NEW K
  PROVE  \A n : n \in Around(c, K) <=> Above(n, c) /\ kind[n] \in K
BY DEF Around, Above, Of

LEMMA BelowIs ==
  ASSUME Shape, NEW n \in File, NEW c \in File, kind[n] # kind[c]
  PROVE  InSubtree(lev, n, c) <=> Above(n, c)
<1>1. n \in Nat /\ c \in Nat
  BY TreeShape DEF Shape, File, Nodes
<1>. QED
  BY <1>1 DEF Above, InSubtree

LEMMA PhpOutermost ==
  ASSUME Shape, Rooted, prof.lang = "php", NEW c \in Of({"call"})
  PROVE  {n \in File : c \in Gives(n)} = UNION {BodySymbol(n, c) : n \in OuterBody(c)}
<1> DEFINE bodies == {"fn", "method"}
<1>1. c \in File /\ kind[c] = "call"
  BY DEF Of
<1>2. \A n \in File : n \in Nat /\ n >= 1
  BY TreeShape DEF Shape, File, Nodes
<1>3. ASSUME NEW n \in File, kind[n] \in bodies
      PROVE  PhpVisited(n) <=> Around(n, bodies) = {}
  <2>1. n # 1
    BY <1>3 DEF Rooted
  <2>2. \A m \in 2 .. n : m \in File
    BY <1>3, TreeShape DEF Shape, File, Nodes
  <2>3. \A m : m \in Way(1, n) /\ m # n <=> m # 1 /\ Above(m, n)
    BY <2>1, <2>2, <1>2, <1>3 DEF Way, Above
  <2>4. \A m : m \in Way(1, n) => m \in File
    BY <2>2 DEF Way
  <2>5. PhpVisited(n) <=> \A m : Above(m, n) /\ m # 1 => kind[m] \notin bodies
    BY <2>3, <2>4 DEF PhpVisited, Of
  <2>6. \A m : Above(m, n) /\ kind[m] \in bodies => m # 1
    BY DEF Rooted
  <2>. QED
    BY <2>5, <2>6, <1>3, AroundIs
<1>4. \A n : c \in Gives(n) <=> n \in File /\ kind[n] \in bodies /\ PhpVisited(n) /\ Above(n, c)
  <2>1. \A n : c \in PhpCallSites(n) <=> InSubtree(lev, n, c)
    BY DEF PhpCallSites, CollectCallSites
  <2>2. \A n : n \in PhpBodies <=> n \in File /\ kind[n] \in bodies /\ PhpVisited(n)
    BY DEF PhpBodies, Of
  <2>3. \A n \in PhpBodies : InSubtree(lev, n, c) <=> Above(n, c)
    BY <2>2, <1>1, BelowIs
  <2>. QED
    BY <2>1, <2>2, <2>3 DEF Gives
<1>5. OuterBody(c) = {n \in Around(c, bodies) : Around(n, bodies) = {}}
  BY DEF OuterBody
<1>6. \A n \in OuterBody(c) : BodySymbol(n, c) = {n}
  BY <1>1, <1>5, AroundIs DEF BodySymbol
<1>7. \A n : n \in OuterBody(c) <=> n \in File /\ kind[n] \in bodies /\ PhpVisited(n) /\ Above(n, c)
  BY <1>1, <1>3, <1>5, AroundIs DEF Above
<1>. QED
  BY <1>4, <1>6, <1>7

LEMMA SwiftOutermost ==
  ASSUME Shape, Rooted, Grammar, prof.lang = "swift", NEW c \in Of({"call"})
  PROVE  {n \in File : c \in Gives(n)} = UNION {BodySymbol(n, c) : n \in OuterBody(c)}
<1>1. c \in File /\ kind[c] = "call"
  BY DEF Of
<1>2. \A n \in File : n \in Nat /\ n >= 1
  BY TreeShape DEF Shape, File, Nodes
<1>3. ASSUME NEW n \in File, kind[n] \in SwiftBodied
      PROVE  SwiftVisited(n) <=> Around(n, SwiftBodied) = {}
  <2>1. n # 1 /\ n > 1
    BY <1>2, <1>3 DEF Rooted, SwiftBodied
  <2>2. \A m : m \in Way(1, Up(n)) <=> Above(m, n) /\ m # 1
    BY <1>3, <2>1, WayUp
  <2>3. SwiftVisited(n) <=> \A m : Above(m, n) /\ m # 1 => kind[m] \notin SwiftBodied \cup {"prop", "call"}
    BY <2>1, <2>2 DEF SwiftVisited, Of, Above
  <2>4. \A m : Above(m, n) /\ kind[m] \in SwiftBodied => m # 1
    BY DEF Rooted, SwiftBodied
  <2>5. ASSUME NEW m, Above(m, n), kind[m] \in {"prop", "call"} PROVE FALSE
    <3> DEFINE K == {"prop", "call"}
               J == {"call"}
    <3>1. \A a, b \in File : IsParent(lev, a, b) /\ kind[b] \in K => kind[a] \in J
      BY DEF Grammar, Fits
    <3>2. m \in File /\ InSubtree(lev, m, n) /\ n # m /\ J \subseteq K
      BY <2>5, <1>2, <1>3 DEF Above
    <3>3. kind[n] \in J
      <4> HIDE DEF J, K
      <4>1. kind[m] \in K
        BY <2>5 DEF K
      <4>. QED
        BY <3>1, <3>2, <4>1, <1>3, HoldsOnly
    <3>. QED
      BY <3>3, <1>3 DEF SwiftBodied
  <2>. QED
    BY <2>3, <2>4, <2>5, <1>3, AroundIs
<1>4. \A n : c \in Gives(n) <=> n \in File /\ kind[n] \in SwiftBodied /\ SwiftVisited(n) /\ Above(n, c)
  <2>1. \A n : c \in SwiftCallSites(n) <=> InSubtree(lev, n, c)
    BY DEF SwiftCallSites, CollectCallSites
  <2>2. \A n : n \in SwiftBodies <=> n \in File /\ kind[n] \in SwiftBodied /\ SwiftVisited(n)
    BY DEF SwiftBodies, Of
  <2>3. \A n \in SwiftBodies : InSubtree(lev, n, c) <=> Above(n, c)
    BY <2>2, <1>1, BelowIs DEF SwiftBodied
  <2>. QED
    BY <2>1, <2>2, <2>3 DEF Gives
<1>5. OuterBody(c) = {n \in Around(c, SwiftBodied) : Around(n, SwiftBodied) = {}}
  BY DEF OuterBody
<1>6. \A n \in OuterBody(c) : BodySymbol(n, c) = {n}
  BY <1>1, <1>5, AroundIs DEF BodySymbol, SwiftBodied
<1>7. \A n : n \in OuterBody(c) <=> n \in File /\ kind[n] \in SwiftBodied /\ SwiftVisited(n) /\ Above(n, c)
  BY <1>1, <1>3, <1>5, AroundIs DEF Above
<1>. QED
  BY <1>4, <1>6, <1>7

\* C#: what the walk enters, of the nodes that matter.
LEMMA CsVisitedIs ==
  ASSUME Shape, Rooted, Grammar, prof.lang = "csharp", NEW n \in File, n # 1
  PROVE  /\ CsVisited(n) <=> \A m : Above(m, n) /\ m # 1 => kind[m] \in CsHomes \cup {"stmt"}
         /\ kind[n] \in CsOuter => (CsVisited(n) <=> Around(n, CsOuter) = {})
<1> DEFINE Entered == CsHomes \cup {"stmt"}
           J == {"call"}
           K == {"prop", "event", "field", "call", "initializer"}
<1>1. \A m \in File : m \in Nat /\ m >= 1
  BY TreeShape DEF Shape, File, Nodes
<1>2. \A m : m \in Way(1, Up(n)) <=> Above(m, n) /\ m # 1
  BY WayUp
<1>3. CsVisited(n) <=> \A m : Above(m, n) /\ m # 1 => kind[m] \in Entered
  BY <1>1, <1>2 DEF CsVisited, CsHomes
<1>4. ASSUME kind[n] \in CsOuter, CsVisited(n), NEW m, m \in Around(n, CsOuter) PROVE FALSE
  <2>1. Above(m, n) /\ kind[m] \in CsOuter /\ m # 1
    BY <1>4, AroundIs DEF Rooted, CsOuter, CsBodied
  <2>2. kind[m] = "stmt"
    BY <2>1, <1>3, <1>4 DEF CsOuter, CsBodied, CsHomes, CsTypes
  <2>3. PICK e \in Way(m, n) : e \in File /\ IsParent(lev, e, m)
    BY <2>1, <1>1, ChildTowards DEF Above
  <2>4. kind[e] \in CsLocals \cup {"call"}
    BY <2>1, <2>2, <2>3 DEF Grammar, Fits, Above
  <2>5. e # n
    BY <2>4, <1>4 DEF CsLocals, CsOuter, CsBodied
  <2>6. Above(e, n) /\ e # 1
    BY <2>1, <2>3, <2>5, <1>1 DEF Way, Above
  <2>. QED
    BY <2>4, <2>6, <1>3, <1>4 DEF CsLocals, CsHomes, CsTypes
<1>5. ASSUME kind[n] \in CsOuter, Around(n, CsOuter) = {}, NEW m, Above(m, n), m # 1
      PROVE  kind[m] \in Entered
  <2>1. m \in File /\ kind[m] \notin CsOuter /\ kind[m] # "file"
    BY <1>5, AroundIs DEF Above, Rooted
  <2>2. kind[m] \notin CsLocals
    <3> SUFFICES ASSUME kind[m] \in CsLocals PROVE FALSE
      OBVIOUS
    <3> DEFINE B == {"stmt", "method", "ctor"}
    <3>1. \A a, b \in File : IsParent(lev, a, b) /\ kind[a] \in CsLocals => kind[b] \in CsLocals \cup B
      BY DEF Grammar, Fits
    <3>2. kind[1] \notin CsLocals
      BY DEF Rooted, CsLocals
    <3>3. PICK k \in Of(B) : Above(k, m)
      <4> HIDE DEF B
      <4>. QED
        BY <2>1, <3>1, <3>2, StandsIn
    <3>4. Above(k, n) /\ kind[k] \in CsOuter
      BY <2>1, <3>3, <1>1, <1>5, AboveTrans DEF Above, Of, CsOuter, CsBodied
    <3>. QED
      BY <3>4, <1>5, AroundIs
  <2>3. kind[m] \notin K
    <3> SUFFICES ASSUME kind[m] \in K PROVE FALSE
      OBVIOUS
    <3>1. \A a, b \in File : IsParent(lev, a, b) /\ kind[b] \in K => kind[a] \in J
      BY DEF Grammar, Fits
    <3>2. InSubtree(lev, m, n) /\ n # m /\ J \subseteq K
      BY <2>1, <1>1, <1>5 DEF Above
    <3>3. kind[n] \in J
      <4> HIDE DEF J, K
      <4>. QED
        BY <2>1, <3>1, <3>2, HoldsOnly
    <3>. QED
      BY <3>3, <1>5 DEF CsOuter, CsBodied
  <2>4. kind[m] \in CsHomes \cup CsOuter \cup CsLocals \cup {"field", "call", "initializer", "file"}
    <3>1. PICK e \in Way(m, n) : e \in File /\ IsParent(lev, e, m)
      BY <2>1, <1>1, <1>5, ChildTowards DEF Above
    <3>. QED
      BY <2>1, <3>1 DEF Grammar, Fits
  <2>. QED
    BY <2>1, <2>2, <2>3, <2>4
<1>. QED
  BY <1>3, <1>4, <1>5

LEMMA CsOutermost ==
  ASSUME Shape, Rooted, Grammar, prof.lang = "csharp", NEW c \in Of({"call"})
  PROVE  {n \in File : c \in Gives(n)} = UNION {BodySymbol(n, c) : n \in OuterBody(c)}
<1>1. /\ c \in File /\ kind[c] = "call"
      /\ 1 \in File /\ kind[1] = "file" /\ \A n \in File : n \in Nat /\ n >= 1
  BY TreeShape DEF Of, Rooted, Shape, File, Nodes
<1>2. \A n : c \in CsCallSites(n) <=> InSubtree(lev, n, c)
  BY DEF CsCallSites, CollectCallSites
<1>8. \A n : c \in CsMethodSites(n) <=> InSubtree(lev, n, c)
  BY <1>1, <1>2 DEF CsMethodSites, CsConstructorInitializerSites
<1>3. \A m : m \in OuterBody(c) <=> Above(m, c) /\ kind[m] \in CsOuter /\ m # 1 /\ CsVisited(m)
  <2>1. OuterBody(c) = {m \in Around(c, CsOuter) : Around(m, CsOuter) = {}}
    BY DEF OuterBody, CsOuter
  <2>2. \A m : kind[m] \in CsOuter => m # 1
    BY <1>1 DEF CsOuter, CsBodied
  <2>. QED
    BY <1>1, <2>1, <2>2, AroundIs, CsVisitedIs DEF Above
<1>4. \A m : kind[m] \in CsBodied => BodySymbol(m, c) = {m}
  BY DEF BodySymbol, CsBodied
<1>5. \A m : kind[m] = "stmt" =>
        BodySymbol(m, c) = IF Kids(m) \cap Of({"local"}) # {} THEN Kids(m)
                           ELSE IF m \in Kids(1) THEN {1} ELSE {}
  BY DEF BodySymbol
<1>6. ASSUME NEW n \in File, c \in Gives(n) PROVE \E m \in OuterBody(c) : n \in BodySymbol(m, c)
  <2>1. c \in CsGives(n)
    BY <1>6 DEF Gives
  <2>2. CASE n = 1
    <3>1. PICK m \in CsTopLevelStatements : InSubtree(lev, m, c)
      BY <2>1, <2>2, <1>2 DEF CsGives
    <3>2. m \in File /\ IsParent(lev, m, 1) /\ kind[m] = "stmt" /\ Kids(m) \cap Of({"local"}) = {} /\ m # 1
      BY <1>1 DEF CsTopLevelStatements, Kids, Of
    <3>3. Above(m, c)
      BY <3>1, <3>2, <1>1, BelowIs
    <3>4. \A k : Above(k, m) => k = 1
      <4>1. Up(m) = 1
        BY <3>2, <1>1, UpUnique
      <4>2. \A k : ~Above(k, 1)
        BY <1>1 DEF Above
      <4>. QED
        BY <4>1, <4>2, <3>2, AboveUp
    <3>5. CsVisited(m)
      BY <3>2, <3>4, CsVisitedIs
    <3>6. m \in OuterBody(c) /\ m \in Kids(1)
      BY <1>3, <3>2, <3>3, <3>5 DEF CsOuter, Kids
    <3>. QED
      BY <3>2, <3>6, <1>5, <2>2
  <2>3. CASE n # 1 /\ kind[n] \in CsBodied
    <3>1. CsVisited(n) /\ InSubtree(lev, n, c)
      BY <2>1, <2>3, <1>8 DEF CsGives, CsBodied
    <3>2. Above(n, c)
      BY <3>1, <2>3, <1>1, BelowIs DEF CsBodied
    <3>3. n \in OuterBody(c)
      BY <3>1, <3>2, <2>3, <1>3 DEF CsOuter
    <3>. QED
      BY <3>3, <2>3, <1>4
  <2>4. CASE n # 1 /\ kind[n] = "local"
    <3>1. CsVisited(n) /\ InSubtree(lev, n, c)
      BY <2>1, <2>4, <1>8 DEF CsGives
    <3> DEFINE p == Up(n)
    <3>2. p \in File /\ Above(p, n) /\ IsParent(lev, n, p) /\ \A k : Above(k, p) => Above(k, n)
      BY <2>4, AboveUp DEF Above
    <3> HIDE DEF p
    <3>3. kind[p] \in CsLocals \cup {"stmt", "method", "ctor"}
      BY <3>2, <2>4 DEF Grammar, Fits, CsLocals
    <3>4. p # 1
      BY <3>3, <1>1 DEF CsLocals
    <3>5. kind[p] = "stmt"
      BY <3>1, <3>2, <3>3, <3>4, <2>4, CsVisitedIs DEF CsLocals, CsHomes, CsTypes
    <3>6. CsVisited(p)
      BY <3>1, <3>2, <3>4, <2>4, CsVisitedIs
    <3>7. Above(p, c)
      <4>1. InSubtree(lev, p, c)
        BY <3>1, <3>2, <1>1, AboveTrans DEF Above
      <4>. QED
        BY <4>1, <3>2, <3>5, <1>1, BelowIs
    <3>8. n \in Kids(p) /\ n \in Of({"local"})
      BY <3>2, <2>4 DEF Kids, Of
    <3>9. p \in OuterBody(c)
      BY <3>4, <3>5, <3>6, <3>7, <1>3 DEF CsOuter
    <3>. QED
      BY <3>5, <3>8, <3>9, <1>5
  <2>. QED
    BY <2>1, <2>2, <2>3, <2>4 DEF CsGives
<1>7. ASSUME NEW m \in OuterBody(c), NEW n \in BodySymbol(m, c) PROVE n \in File /\ c \in Gives(n)
  <2>1. m \in File /\ Above(m, c) /\ kind[m] \in CsOuter /\ m # 1 /\ CsVisited(m) /\ InSubtree(lev, m, c)
    BY <1>3, <1>7 DEF Above
  <2>2. n \in File /\ c \in CsGives(n)
    <3>1. CASE kind[m] \in CsBodied
      BY <3>1, <2>1, <1>8, <1>4, <1>7 DEF CsGives
    <3>2. CASE kind[m] = "stmt" /\ Kids(m) \cap Of({"local"}) # {}
      <4>1. n \in File /\ IsParent(lev, n, m) /\ \A k \in File : IsParent(lev, k, m) => k = n
        BY <3>2, <2>1, <1>5, <1>7 DEF Kids, Grammar
      <4>2. kind[n] = "local"
        BY <3>2, <4>1 DEF Kids, Of
      <4>3. n # 1 /\ Up(n) = m
        BY <4>1, <4>2, <2>1, <1>1, UpUnique
      <4>4. \A k : Above(k, n) => k = m \/ Above(k, m)
        BY <4>1, <4>3, AboveUp
      <4>5. CsVisited(n)
        BY <4>1, <4>3, <4>4, <3>2, <2>1, CsVisitedIs
      <4>6. InSubtree(lev, n, c)
        <5>1. PICK e \in Way(m, c) : e \in File /\ IsParent(lev, e, m)
          BY <2>1, <1>1, ChildTowards DEF Above
        <5>. QED
          BY <5>1, <4>1 DEF Way
      <4>. QED
        BY <4>1, <4>2, <4>3, <4>5, <4>6, <1>8 DEF CsGives
    <3>3. CASE kind[m] = "stmt" /\ Kids(m) \cap Of({"local"}) = {}
      <4>1. n = 1 /\ m \in Kids(1)
        BY <3>3, <1>5, <1>7
      <4>2. m \in CsTopLevelStatements
        BY <4>1, <3>3, <2>1 DEF CsTopLevelStatements, Of
      <4>. QED
        BY <4>1, <4>2, <2>1, <1>1, <1>2 DEF CsGives
    <3>. QED
      BY <3>1, <3>2, <3>3, <2>1 DEF CsOuter
  <2>. QED
    BY <2>2 DEF Gives
<1>. QED
  BY <1>6, <1>7

\* The call of another constructor is the constructor's, when it is one.
LEMMA CsInitializers ==
  ASSUME Shape, Rooted, Grammar, prof.lang = "csharp", NEW c \in Of({"initializer"})
  PROVE  {n \in File : c \in Gives(n)} = IF name[c] = "spaced" THEN {Up(c)} ELSE {}
<1> DEFINE p == Up(c)
           K == {kind[x] : x \in File} \ (CsHomes \cup {"file"})
           J == K \ CsBodied
<1>1. /\ c \in File /\ kind[c] = "initializer" /\ kind[1] = "file" /\ IsTree(lev)
      /\ \A n \in File : n \in Nat /\ n >= 1
  BY TreeShape DEF Of, Rooted, Shape, File, Nodes
<1>2. p \in File /\ IsParent(lev, c, p) /\ c # 1 /\ \A q \in File : IsParent(lev, c, q) => q = p
  BY <1>1, UpIs, UpUnique
<1> HIDE DEF p
<1>3. kind[p] = "ctor" /\ p # 1
  BY <1>1, <1>2 DEF Grammar, Fits
<1>4. ASSUME NEW a \in File, NEW b \in File, IsParent(lev, a, b), kind[b] \in K
      PROVE  kind[a] \in J
  <2>1. kind[a] # "file"
    BY <1>1, <1>4 DEF Rooted, IsParent
  <2>2. kind[a] \notin CsHomes \cup CsBodied
    BY <1>4 DEF Grammar, Fits
  <2>. QED
    BY <2>1, <2>2
<1>5. CsVisited(p)
  <2> SUFFICES ASSUME NEW m, Above(m, p), m # 1 PROVE kind[m] \in CsHomes \cup {"stmt"}
    BY <1>2, <1>3, CsVisitedIs
  <2>1. m \in File /\ InSubtree(lev, m, p) /\ p # m /\ kind[m] # "file"
    BY <1>1, <1>2 DEF Above, Rooted
  <2>2. kind[m] \notin K
    <3> SUFFICES ASSUME kind[m] \in K PROVE FALSE
      OBVIOUS
    <3>1. J \subseteq K
      OBVIOUS
    <3>2. kind[p] \in J
      <4> HIDE DEF J, K
      <4>. QED
        BY <1>2, <1>4, <2>1, <3>1, HoldsOnly
    <3>. QED
      BY <3>2, <1>3 DEF CsBodied
  <2>. QED
    BY <2>1, <2>2
<1>6. \A n : c \notin CsCallSites(n)
  BY <1>1 DEF CsCallSites, CollectCallSites, Of
<1>7. \A n : c \in CsMethodSites(n) <=> kind[n] = "ctor" /\ c \in Kids(n) /\ name[c] = "spaced"
  BY <1>1, <1>6 DEF CsMethodSites, CsConstructorInitializerSites
<1>8. \A n \in File : c \in Kids(n) <=> n = p
  BY <1>1, <1>2 DEF Kids
<1>9. \A n \in File : c \in Gives(n) <=> n = p /\ name[c] = "spaced"
  BY <1>1, <1>3, <1>5, <1>6, <1>7, <1>8 DEF Gives, CsGives, CsBodied
<1>. QED
  BY <1>2, <1>9 DEF p

\* Kotlin: what the walk enters, of the nodes that are no part of a body.
LEMMA KtVisitedIs ==
  ASSUME Shape, Rooted, Grammar, prof.lang = "kotlin", NEW n \in File, n # 1
  PROVE  /\ KtVisited(n) <=> \A m : Above(m, n) /\ m # 1 => kind[m] \in KtHomes \cup {"primary"}
         /\ kind[n] \notin KtInBodies => (KtVisited(n) <=> Around(n, KtBodies) = {})
<1>1. \A m \in File : m \in Nat /\ m >= 1
  BY TreeShape DEF Shape, File, Nodes
<1>2. \A m : m \in Way(1, Up(n)) <=> Above(m, n) /\ m # 1
  BY WayUp
<1>3. KtVisited(n) <=> \A m : Above(m, n) /\ m # 1 => kind[m] \in KtHomes \cup {"primary"}
  BY <1>1, <1>2 DEF KtVisited, KtHomes
<1>4. ASSUME kind[n] \notin KtInBodies, KtVisited(n), NEW m, m \in Around(n, KtBodies) PROVE FALSE
  <2>1. Above(m, n) /\ kind[m] \in KtBodies /\ m # 1
    BY <1>4, AroundIs DEF Rooted, KtBodies
  <2>2. kind[m] = "primary"
    BY <2>1, <1>3, <1>4 DEF KtBodies, KtHomes, KtTypes
  <2>3. PICK e \in Way(m, n) : e \in File /\ IsParent(lev, e, m)
    BY <2>1, <1>1, ChildTowards DEF Above
  <2>4. kind[e] \in {"param", "call"}
    BY <2>1, <2>2, <2>3 DEF Grammar, Fits, Above
  <2>5. e # n
    BY <2>4, <1>4 DEF KtInBodies
  <2>6. Above(e, n) /\ e # 1
    BY <2>1, <2>3, <2>5, <1>1 DEF Way, Above
  <2>. QED
    BY <2>4, <2>6, <1>3, <1>4 DEF KtHomes, KtTypes
<1>5. ASSUME Around(n, KtBodies) = {}, NEW m, Above(m, n), m # 1
      PROVE  kind[m] \in KtHomes
  <2>1. m \in File /\ kind[m] \notin KtBodies /\ kind[m] # "file"
    BY <1>5, AroundIs DEF Above, Rooted
  <2>2. kind[m] \notin KtInBodies
    <3> SUFFICES ASSUME kind[m] \in KtInBodies PROVE FALSE
      OBVIOUS
    <3>1. \A a, b \in File : IsParent(lev, a, b) /\ kind[a] \in KtInBodies => kind[b] \in KtInBodies \cup KtBodies
      BY DEF Grammar, Fits
    <3>2. kind[1] \notin KtInBodies
      BY DEF Rooted, KtInBodies
    <3>3. PICK k \in Of(KtBodies) : Above(k, m)
      BY <2>1, <3>1, <3>2, StandsIn
    <3>4. Above(k, n) /\ kind[k] \in KtBodies
      BY <2>1, <3>3, <1>1, <1>5, AboveTrans DEF Above, Of
    <3>. QED
      BY <3>4, <1>5, AroundIs
  <2>3. PICK e \in Way(m, n) : e \in File /\ IsParent(lev, e, m)
    BY <2>1, <1>1, <1>5, ChildTowards DEF Above
  <2>4. kind[m] \in KtHomes \cup KtBodies \cup KtInBodies \cup {"file"}
    BY <2>1, <2>3 DEF Grammar, Fits
  <2>. QED
    BY <2>1, <2>2, <2>4
<1>. QED
  BY <1>3, <1>4, <1>5

LEMMA KtOutermost ==
  ASSUME Shape, Rooted, Grammar, prof.lang = "kotlin", NEW c \in Of({"call"})
  PROVE  {n \in File : c \in Gives(n)} = UNION {BodySymbol(n, c) : n \in OuterBody(c)}
<1> DEFINE D(n) == Around(c, {"default"}) \cap Kids(n)
<1>1. /\ c \in File /\ kind[c] = "call" /\ kind[1] = "file"
      /\ \A n \in File : n \in Nat /\ n >= 1
  BY TreeShape DEF Of, Rooted, Shape, File, Nodes
<1>2. ASSUME NEW n \in File
      PROVE  c \in KtCallSites(n) <=> InSubtree(lev, n, c) /\ D(n) = {}
  <2>1. \A m : m \in Way(n, c) \cap (Of({"default"}) \cap Kids(n)) <=> m \in D(n)
    <3>1. \A m \in Kids(n) : m \in File /\ n < m
      BY DEF Kids, IsParent
    <3>2. \A m \in Of({"default"}) : m # c
      BY <1>1 DEF Of
    <3>. QED
      BY <3>1, <3>2, <1>1 DEF Way, Around, InSubtree, Of
  <2>. QED
    BY <2>1 DEF KtCallSites, CollectCallSites
<1>3. ASSUME NEW n \in File, kind[n] # "fn" PROVE D(n) = {}
  <2>1. \A m \in D(n) : m \in File /\ kind[m] = "default" /\ IsParent(lev, m, n)
    BY DEF Around, Of, Kids
  <2>. QED
    BY <2>1, <1>3 DEF Grammar, Fits
<1>4. \A m : m \in OuterBody(c) <=> Above(m, c) /\ kind[m] \in KtBodies /\ m # 1 /\ KtVisited(m)
  <2>1. OuterBody(c) = {m \in Around(c, KtBodies) : Around(m, KtBodies) = {}}
    BY DEF OuterBody, KtBodies
  <2>2. \A m : kind[m] \in KtBodies => m # 1 /\ kind[m] \notin KtInBodies
    BY <1>1 DEF KtBodies, KtInBodies
  <2>. QED
    BY <1>1, <2>1, <2>2, AroundIs, KtVisitedIs DEF Above
<1>5. \A m : kind[m] \in {"val", "init", "primary"} =>
        BodySymbol(m, c) = {Up(m)} \cap {k \in File : /\ kind[m] = "val" => Kids(m) \cap Of({"getter"}) = {}
                                                    /\ KtHasConstructor(k)}
  BY DEF BodySymbol
<1>6. \A m : kind[m] = "entry" => BodySymbol(m, c) = {}
  BY DEF BodySymbol
<1>7. \A m : kind[m] = "fn" => BodySymbol(m, c) = IF D(m) = {} THEN {m} ELSE {}
  BY DEF BodySymbol
<1>8. \A m : kind[m] = "secondary" => BodySymbol(m, c) = {m}
  BY DEF BodySymbol
<1>9. \A n : KtHasConstructor(n) => kind[n] = "class"
  BY DEF KtHasConstructor
<1> HIDE DEF D
<1>10. ASSUME NEW n \in File, c \in Gives(n) PROVE \E m \in OuterBody(c) : n \in BodySymbol(m, c)
  <2>1. c \in KtGives(n)
    BY <1>10 DEF Gives
  <2>2. CASE kind[n] \in {"fn", "secondary"}
    <3>1. KtVisited(n) /\ InSubtree(lev, n, c) /\ D(n) = {}
      BY <2>1, <2>2, <1>2, <1>9 DEF KtGives
    <3>2. Above(n, c) /\ n # 1
      BY <3>1, <2>2, <1>1, BelowIs
    <3>3. n \in OuterBody(c)
      BY <3>1, <3>2, <2>2, <1>4 DEF KtBodies
    <3>. QED
      BY <3>1, <3>3, <2>2, <1>7, <1>8
  <2>3. CASE KtHasConstructor(n)
    <3>1. PICK m \in KtInitializers(n) : c \in KtCallSites(m)
      BY <2>1, <2>3, <1>9 DEF KtGives
    <3>2. KtVisited(n) /\ kind[n] = "class" /\ n # 1
      BY <2>1, <2>3, <1>1, <1>9 DEF KtGives
    <3>3. /\ m \in File /\ IsParent(lev, m, n) /\ kind[m] \in {"val", "init", "primary"} /\ m # 1
          /\ kind[m] = "val" => Kids(m) \cap Of({"getter"}) = {}
      BY <3>1, <1>1 DEF KtInitializers, Kids
    <3>4. Up(m) = n
      BY <3>3, UpUnique
    <3>5. Above(m, c)
      BY <3>1, <3>3, <1>1, <1>2, BelowIs
    <3>6. \A k : Above(k, m) => k = n \/ Above(k, n)
      BY <3>3, <3>4, AboveUp
    <3>7. KtVisited(m)
      BY <3>2, <3>3, <3>6, KtVisitedIs DEF KtHomes, KtTypes
    <3>8. m \in OuterBody(c)
      BY <3>3, <3>5, <3>7, <1>4 DEF KtBodies
    <3>. QED
      BY <3>3, <3>4, <3>8, <2>3, <1>5
  <2>. QED
    BY <2>1, <2>2, <2>3 DEF KtGives
<1>11. ASSUME NEW m \in OuterBody(c), NEW n \in BodySymbol(m, c) PROVE n \in File /\ c \in Gives(n)
  <2>1. m \in File /\ Above(m, c) /\ kind[m] \in KtBodies /\ m # 1 /\ KtVisited(m) /\ InSubtree(lev, m, c)
    BY <1>4, <1>11 DEF Above
  <2>2. n \in File /\ c \in KtGives(n)
    <3>1. CASE kind[m] \in {"fn", "secondary"}
      <4>1. n = m /\ D(m) = {}
        BY <3>1, <2>1, <1>3, <1>7, <1>8, <1>11
      <4>2. KtGives(m) = KtCallSites(m)
        BY <3>1, <2>1, <1>9 DEF KtGives
      <4>. QED
        BY <4>1, <4>2, <2>1, <1>2
    <3>2. CASE kind[m] \in {"val", "init", "primary"}
      <4>1. /\ n = Up(m) /\ n \in File /\ KtHasConstructor(n) /\ kind[n] = "class" /\ n # 1
            /\ kind[m] = "val" => Kids(m) \cap Of({"getter"}) = {}
        BY <3>2, <1>1, <1>5, <1>9, <1>11
      <4>2. IsParent(lev, m, n) /\ \A k : Above(k, n) => Above(k, m)
        BY <4>1, <2>1, AboveUp
      <4>3. KtVisited(n)
        BY <4>1, <4>2, <2>1, KtVisitedIs
      <4>4. m \in KtInitializers(n)
        BY <4>1, <4>2, <3>2, <2>1 DEF KtInitializers, Kids
      <4>5. c \in KtCallSites(m)
        BY <3>2, <2>1, <1>2, <1>3
      <4>. QED
        BY <4>1, <4>3, <4>4, <4>5 DEF KtGives
    <3>3. kind[m] # "entry"
      BY <1>6, <1>11
    <3>. QED
      BY <3>1, <3>2, <3>3, <2>1 DEF KtBodies
  <2>. QED
    BY <2>2 DEF Gives
<1>. QED
  BY <1>10, <1>11

\* C, C++ and Objective-C: a definition holds no other.
LEMMA COutermost ==
  ASSUME Shape, Rooted, Grammar, prof.lang \in C, NEW c \in Of({"call"})
  PROVE  {n \in File : c \in Gives(n)} = UNION {BodySymbol(n, c) : n \in OuterBody(c)}
<1> DEFINE bodies == IF prof.lang = "objc" THEN {"fn", "def"} ELSE {"fn", "outfn"}
<1>1. c \in File /\ kind[c] = "call" /\ \A k \in File : k \in Nat /\ k >= 1
  BY TreeShape DEF Of, Shape, File, Nodes
<1>2. bodies \subseteq CBodies
  BY DEF CBodies
<1>3. ASSUME NEW n \in File, kind[n] \in CBodies PROVE kind[n] \in bodies
  <2>1. n # 1
    BY <1>3 DEF Rooted, CBodies
  <2>2. Up(n) \in File /\ IsParent(lev, n, Up(n))
    BY <2>1, UpIs
  <2>. QED
    BY <2>2, <1>3 DEF Grammar, Fits, CFits, C, CBodies
<1>4. ASSUME NEW n, NEW m, Above(m, n), n \in File, kind[n] \in CBodies, kind[m] \in CBodies PROVE FALSE
  <2> DEFINE K == CBodies \cup CInBodies
  <2>1. \A a, b \in File : IsParent(lev, a, b) /\ kind[b] \in K => kind[a] \in CInBodies
    BY DEF Grammar, Fits, CFits, C
  <2>2. m \in File /\ InSubtree(lev, m, n) /\ n # m /\ CInBodies \subseteq K /\ kind[m] \in K
    BY <1>1, <1>4 DEF Above
  <2>3. kind[n] \in CInBodies
    <3> HIDE DEF K
    <3>. QED
      BY <2>1, <2>2, <1>4, HoldsOnly
  <2>. QED
    BY <2>3, <1>4 DEF CBodies, CInBodies
<1>5. OuterBody(c) = {n \in Around(c, bodies) : Around(n, bodies) = {}}
  BY DEF OuterBody, C
<1> HIDE DEF bodies
<1>6. \A n : n \in OuterBody(c) <=> Above(n, c) /\ kind[n] \in CBodies
  BY <1>1, <1>2, <1>3, <1>4, <1>5, AroundIs DEF Above
<1>7. \A n \in OuterBody(c) : BodySymbol(n, c) = IF CDefined(n) THEN {n} ELSE {}
  BY <1>6 DEF BodySymbol, CDefined, CBodies, C
<1>8. \A n \in File : c \in Gives(n) <=> CDefined(n) /\ Above(n, c)
  <2>1. \A n \in File : Gives(n) = IF CDefined(n) THEN CppCallSites(n) ELSE {}
    BY CVisitGives
  <2>2. \A n \in File : c \in CppCallSites(n) <=> InSubtree(lev, n, c)
    BY DEF CppCallSites, CollectCallSites
  <2>3. \A n \in File : CDefined(n) => (InSubtree(lev, n, c) <=> Above(n, c))
    BY <1>1, BelowIs DEF CDefined, CBodies
  <2>. QED
    BY <2>1, <2>2, <2>3
<1>9. \A n : CDefined(n) => kind[n] \in CBodies
  BY DEF CDefined
<1>. QED
  BY <1>6, <1>7, <1>8, <1>9 DEF Above

-----------------------------------------------------------------------------
(* Whose the calls are in Rust                                             *)

\* Lines go on with the nodes of the file.
LEMMA RustLineGrows ==
  ASSUME Shape, NEW m \in File, NEW n \in File, m <= n
  PROVE  RustLine(m) \in Nat /\ RustLine(n) \in Nat /\ RustLine(m) <= RustLine(n)
<1> DEFINE Lines(k) == {j \in File : j <= k /\ kind[j] # "here"}
<1>1. Len(lev) \in Nat /\ File = 1 .. Len(lev)
  BY TreeShape DEF Shape, File, Nodes
<1>2. IsFiniteSet(File)
  BY <1>1, FS_Interval
<1>3. \A k : IsFiniteSet(Lines(k)) /\ Cardinality(Lines(k)) \in Nat
  <2>1. \A k : Lines(k) \subseteq File
    OBVIOUS
  <2> HIDE DEF Lines
  <2>. QED
    BY <2>1, <1>2, FS_Subset, FS_CardinalityType
<1>4. Lines(m) \subseteq Lines(n)
  BY <1>1
<1>5. Cardinality(Lines(m)) <= Cardinality(Lines(n))
  <2> HIDE DEF Lines
  <2>. QED
    BY <1>3, <1>4, FS_Subset
<1>. QED
  BY <1>3, <1>5 DEF RustLine

\* A function g around a function f of the file's items shares a line with f
\* at every call in f: no macro stands between them.
LEMMA RustSharesLine ==
  ASSUME Shape, NEW f \in RustFunctions, NEW g, Above(g, f), kind[g] = "fn",
         NEW u \in File, Above(f, u)
  PROVE  f \in RustNested(g) /\ SharesLine(f, RustSiteLine(g, u))
<1>1. /\ IsTree(lev) /\ f \in File /\ kind[f] = "fn" /\ g \in File /\ g < f /\ f < u
      /\ InSubtree(lev, g, f) /\ InSubtree(lev, f, u)
      /\ \A k \in File : k \in Nat /\ k >= 1
      /\ \A k \in 1 .. u : k \in File
  BY TreeShape DEF Shape, File, Nodes, RustFunctions, Of, Above
<1>2. ASSUME NEW m \in Way(g, f), kind[m] = "macro" PROVE FALSE
  <2>1. m \in File /\ g < m /\ m \in Way(1, f) \cap Of({"macro"}) /\ InSubtree(lev, m, f)
    BY <1>1, <1>2 DEF Way, Of
  <2>2. InSubtree(lev, g, m)
    BY <2>1, <1>1, Nested DEF File
  <2>. QED
    BY <2>1, <2>2, <1>1 DEF RustFunctions, RustRead
<1>3. f \in RustNested(g)
  BY <1>1, <1>2 DEF RustNested, Under, Subtree, Of, File
<1>4. ASSUME NEW m \in Way(g, u) \cap Of({"macro"}) PROVE m \in Subtree(lev, f)
  <2>1. m \in File /\ g < m /\ InSubtree(lev, m, u) /\ kind[m] = "macro"
    BY <1>1 DEF Way, Of
  <2>2. m # f
    BY <2>1, <1>1
  <2>3. CASE m < f
    <3>1. InSubtree(lev, m, f)
      BY <2>1, <2>3, <1>1, Nested DEF File
    <3>2. m \in Way(g, f)
      BY <2>1, <2>3, <3>1, <1>1 DEF Way
    <3>. QED
      BY <3>2, <2>1, <1>2
  <2>4. CASE f < m
    <3>1. InSubtree(lev, f, m)
      BY <2>1, <2>4, <1>1, Nested DEF File
    <3>. QED
      BY <3>1, <2>1 DEF Subtree, File
  <2>. QED
    BY <2>1, <2>2, <2>3, <2>4, <1>1
<1> DEFINE macros == Way(g, u) \cap Of({"macro"})
           w == IF macros = {} THEN u ELSE CHOOSE m \in macros : \A k \in macros : m <= k
<1>5. w \in Subtree(lev, f)
  <2>1. u \in Subtree(lev, f)
    BY <1>1 DEF Subtree, File
  <2>2. macros # {} => \E m \in macros : \A k \in macros : m <= k
    <3>1. macros \subseteq Nat
      BY <1>1 DEF Of
    <3> HIDE DEF macros
    <3>. QED
      BY <3>1, LeastNat, Zenon
  <2>3. macros # {} => w \in macros
    <3> HIDE DEF macros
    <3>. QED
      BY <2>2
  <2>. QED
    BY <2>1, <2>3, <1>4
<1>6. RustSiteLine(g, u) = RustLine(w)
  BY DEF RustSiteLine
<1> HIDE DEF w
<1>7. w \in File /\ f <= w
  BY <1>5 DEF Subtree, InSubtree, File
<1>8. RustLine(f) <= RustLine(w) /\ RustLine(w) \in Nat /\ RustLine(f) \in Nat
  BY <1>1, <1>7, RustLineGrows
<1>. QED
  BY <1>3, <1>5, <1>6, <1>8 DEF SharesLine

\* In Rust the owner of a site is the innermost function around it.
LEMMA RustInnermost ==
  ASSUME IInv, Done("rust"), NEW u \in UNION {RustSites(f) : f \in RustFunctions}
  PROVE  LET f == Last(Around(u, {"fn"}) \cap RustFunctions)
         IN  Owners(u) = IF RustLost(f, u) THEN {} ELSE {f}
<1> DEFINE fns == Around(u, {"fn"}) \cap RustFunctions
           f == Last(fns)
<1>1. /\ Shape /\ Rooted /\ IsTree(lev)
      /\ \A k \in File : k \in Nat /\ k >= 1
  BY TreeShape DEF IInv, Shape, File, Nodes
<1>2. PICK o \in RustFunctions : u \in RustSites(o)
  OBVIOUS
<1>3. ASSUME NEW g \in File, kind[g] = "fn"
      PROVE  u \in RustSites(g) => u \in File /\ Above(g, u) /\ kind[u] \in RustCalls \cup {"macro"}
  <2> HAVE u \in RustSites(g)
  <2>1. u \in File /\ kind[u] \in RustCalls \cup {"macro"} /\ InSubtree(lev, g, u)
    BY DEF RustSites, CollectCallSites, Of, Under, Subtree
  <2>2. kind[g] # kind[u]
    BY <2>1, <1>3 DEF RustCalls
  <2>. QED
    BY <2>1, <2>2, <1>1, BelowIs
<1>4. \A g \in RustFunctions : g \in File /\ kind[g] = "fn"
  BY DEF RustFunctions, Of
<1>5. u \in File /\ Above(o, u) /\ kind[u] \in RustCalls \cup {"macro"}
  BY <1>2, <1>3, <1>4
<1>6. \A g : g \in fns <=> Above(g, u) /\ g \in RustFunctions
  BY <1>4, <1>5, AroundIs
<1>7. f \in fns /\ \A g \in fns : g <= f
  <2>1. fns \subseteq File /\ fns # {}
    BY <1>2, <1>4, <1>5, <1>6
  <2> HIDE DEF fns
  <2>. QED
    BY <2>1, <1>1, LastIs
<1> HIDE DEF f, fns
<1>8. f \in RustFunctions /\ f \in File /\ kind[f] = "fn" /\ Above(f, u) /\ InSubtree(lev, f, u) /\ o <= f
  BY <1>2, <1>4, <1>5, <1>6, <1>7 DEF Above
<1>9. u \in RustSites(f)
  <2>1. CASE kind[u] \in RustCalls
    BY <2>1, <1>5, <1>8 DEF RustSites, CollectCallSites, Of
  <2>2. CASE kind[u] = "macro"
    <3>1. Way(o, Up(u)) \cap Of({"macro"}) = {}
      BY <2>2, <1>2 DEF RustSites, CollectCallSites, Of, RustCalls
    <3>2. u # 1 /\ Up(u) \in File
      <4>1. u # 1
        BY <1>1, <1>4, <1>5 DEF Above
      <4>. QED
        BY <4>1, <1>1, <1>5, UpIs
    <3>3. Way(f, Up(u)) \subseteq Way(o, Up(u))
      <4>1. o \in Nat /\ f \in Nat /\ Up(u) \in Nat /\ o <= f
        BY <3>2, <1>1, <1>4, <1>8
      <4>. QED
        BY <4>1 DEF Way
    <3>4. u \in Under(f)
      BY <1>1, <1>5, <1>8 DEF Under, Subtree, File, Above
    <3>5. u \in Of({"macro"}) \cap Under(f) /\ Way(f, Up(u)) \cap Of({"macro"}) = {}
      BY <3>1, <3>3, <3>4, <2>2, <1>5 DEF Of
    <3>. QED
      BY <3>5 DEF RustSites
  <2>. QED
    BY <2>1, <2>2, <1>5
<1>10. ASSUME NEW g \in File, kind[g] = "fn"
       PROVE  RustEntered(g) <=> g \in RustFunctions /\ Around(g, {"block"}) = {}
  <2>1. \A m \in Way(1, g) : m \in File /\ m <= g /\ InSubtree(lev, m, g)
    <3>1. \A m \in 1 .. g : m \in File
      BY <1>10, TreeShape DEF Shape, File, Nodes, IInv
    <3>. QED
      BY <3>1, <1>1, <1>10 DEF Way
  <2>2. \A m \in Way(1, g) : kind[m] = "block" => m \in Around(g, {"block"})
    BY <2>1, <1>1, <1>10 DEF Around, Of
  <2>3. \A m \in Around(g, {"block"}) : m \in Way(1, g) /\ kind[m] = "block"
    BY <1>1, <1>10 DEF Around, Of, Way, Rooted
  <2>4. RustEntered(g) <=> /\ \A m \in Way(1, g) : kind[m] # "block"
                           /\ \A m \in Way(1, g) : kind[m] = "macro" => RustRead(m)
    BY DEF RustEntered
  <2>5. (\A m \in Way(1, g) : kind[m] # "block") <=> Around(g, {"block"}) = {}
    BY <2>2, <2>3
  <2>6. g \in RustFunctions <=> \A m \in Way(1, g) : kind[m] = "macro" => RustRead(m)
    BY <2>1, <1>10 DEF RustFunctions, Of
  <2>. QED
    BY <2>4, <2>5, <2>6
<1>11. Owners(u) = {n \in File : kind[n] = "fn" /\ RustEntered(n) /\ u \in RustCallSites(n)}
  <2>1. Owners(u) = {n \in File : u \in Gives(n)}
    BY OuterOwners DEF Done, GivenLanguages
  <2>2. \A n : Gives(n) = IF kind[n] = "fn" /\ RustEntered(n) THEN RustCallSites(n) ELSE {}
    BY DEF Gives, Done
  <2>. QED
    BY <2>1, <2>2
<1>12. ASSUME NEW g \in Owners(u) PROVE g = f
  <2>1. g \in File /\ kind[g] = "fn" /\ g \in RustFunctions /\ u \in RustCallSites(g)
    BY <1>10, <1>11
  <2>2. u \in RustSites(g)
    BY <2>1 DEF RustCallSites
  <2>3. Above(g, u) /\ g \in fns /\ g <= f
    BY <2>1, <2>2, <1>3, <1>6, <1>7
  <2>4. CASE g < f
    <3>1. Above(g, f)
      BY <2>3, <2>4, <1>1, <1>5, <1>8, AboveBoth
    <3>2. f \in RustNested(g) /\ SharesLine(f, RustSiteLine(g, u))
      BY <3>1, <2>1, <1>1, <1>5, <1>8, RustSharesLine
    <3>. QED
      BY <3>2, <2>1 DEF RustCallSites
  <2>. QED
    BY <2>1, <2>3, <2>4, <1>1, <1>8
<1>13. f \in Owners(u) <=> ~RustLost(f, u)
  <2>1. f \in Owners(u) <=> RustEntered(f) /\ u \in RustCallSites(f)
    BY <1>8, <1>11
  <2>2. RustEntered(f) <=> Around(f, {"block"}) = {}
    BY <1>8, <1>10
  <2>3. u \in RustCallSites(f) <=> \A g \in RustNested(f) : ~SharesLine(g, RustSiteLine(f, u))
    BY <1>9 DEF RustCallSites
  <2>. QED
    BY <2>1, <2>2, <2>3 DEF RustLost
<1>14. Owners(u) = IF RustLost(f, u) THEN {} ELSE {f}
  BY <1>12, <1>13
<1>. QED
  BY <1>14 DEF f, fns

-----------------------------------------------------------------------------
(* Whose the calls are in JavaScript                                       *)

\* The body that a node's calls are collected from: the node itself, its
\* value or one of its decorators.
LEMMA JsBodyOf ==
  ASSUME Shape, NEW n \in File, NEW c \in JsGives(n)
  PROVE  \E b \in File :
           /\ kind[b] \in JsOpaque /\ Above(b, c) /\ c \in File /\ c \in JsCallSites(b)
           /\ \/ b = n /\ kind[b] \notin {"arrow", "funcexp", "deco"}
              \/ b # 1 /\ Up(b) = n /\ kind[b] \in {"arrow", "funcexp", "deco"} /\ kind[n] \notin JsOpaque
<1>1. IsTree(lev) /\ \A k \in File : k \in Nat /\ k >= 1
  BY TreeShape DEF Shape, File, Nodes
<1>2. ASSUME NEW b \in File, kind[b] \in JsOpaque, c \in JsCallSites(b) PROVE Above(b, c) /\ c \in File
  <2>1. c \in File /\ kind[c] = "call" /\ InSubtree(lev, b, c)
    BY <1>2 DEF JsCallSites, CollectCallSites, Of
  <2>. QED
    BY <2>1, <1>2, BelowIs DEF JsOpaque
<1>3. ASSUME NEW b \in Kids(n) PROVE b \in File /\ b # 1 /\ Up(b) = n
  <2>1. b \in File /\ IsParent(lev, b, n)
    BY DEF Kids
  <2>. QED
    BY <2>1, <1>1, UpUnique DEF IsParent
<1>4. CASE kind[n] \in {"fn", "method", "define"}
  <2>1. c \in JsCallSites(n) /\ kind[n] \in JsOpaque
    BY <1>4 DEF JsGives, JsValued, JsOpaque
  <2>2. kind[n] \notin {"arrow", "funcexp", "deco"}
    BY <1>4
  <2>3. Above(n, c) /\ c \in File
    BY <2>1, <1>2
  <2>. QED
    BY <2>1, <2>2, <2>3
<1>5. CASE kind[n] \in JsValued /\ Value(n) \in JsFnValues
  <2>1. c \in JsCallSites(FirstKid(n)) /\ kind[n] \notin JsOpaque
    BY <1>5 DEF JsGives, JsValued, JsOpaque
  <2>2. Kids(n) # {} /\ kind[FirstKid(n)] \in {"arrow", "funcexp"}
    BY <1>5 DEF Value, JsFnValues
  <2>3. FirstKid(n) \in Kids(n)
    <3>1. PICK m \in File : IsParent(lev, m, n)
      BY <2>2 DEF Kids
    <3>2. InSubtree(lev, n, m) /\ m # n
      BY <3>1, <1>1 DEF IsParent, InSubtree
    <3>3. n + 1 \in File /\ lev[n + 1] = lev[n] + 1 /\ InSubtree(lev, n, n + 1)
      BY <3>2, <1>1, FirstChildBefore DEF File
    <3>4. lev[n] \in Nat
      BY TreeShape DEF Shape, File, Nodes
    <3>. QED
      BY <3>3, <3>4, <1>1 DEF FirstKid, Kids, IsParent, InSubtree
  <2>4. kind[FirstKid(n)] \in JsOpaque
    BY <2>2 DEF JsOpaque
  <2>. QED
    BY <2>1, <2>2, <2>3, <2>4, <1>2, <1>3
<1>6. CASE kind[n] \in {"class", "classexp"}
  <2>1. c \in JsDecoratorCalls(n) /\ kind[n] \notin JsOpaque
    BY <1>6 DEF JsGives, JsValued, JsOpaque
  <2>2. PICK d \in Kids(n) : kind[d] = "deco" /\ c \in JsCallSites(d)
    BY <2>1 DEF JsDecoratorCalls
  <2>3. kind[d] \in JsOpaque
    BY <2>2 DEF JsOpaque
  <2>. QED
    BY <2>1, <2>2, <2>3, <1>2, <1>3
<1>. QED
  BY <1>4, <1>5, <1>6 DEF JsGives

\* Of two bodies around a call the symbols of the outer one's node or of the
\* inner one's are none: nothing below a body is seen.
LEMMA JsOneBody ==
  ASSUME Shape, Rooted, Grammar, prof.lang = "javascript", NEW c,
         NEW n \in File, JsSeen(n), c \in JsGives(n),
         NEW m \in File, JsSeen(m), c \in JsGives(m)
  PROVE  n = m
<1>1. IsTree(lev) /\ \A k \in File : k \in Nat /\ k >= 1
  BY TreeShape DEF Shape, File, Nodes
<1> DEFINE BodyOf(b, k) ==
             /\ kind[b] \in JsOpaque /\ Above(b, c) /\ c \in File /\ c \in JsCallSites(b)
             /\ \/ b = k /\ kind[b] \notin {"arrow", "funcexp", "deco"}
                \/ b # 1 /\ Up(b) = k /\ kind[b] \in {"arrow", "funcexp", "deco"} /\ kind[k] \notin JsOpaque
<1>2. ASSUME NEW i \in File, NEW j \in File, JsSeen(i), JsSeen(j),
             NEW a \in File, NEW b \in File, BodyOf(a, i), BodyOf(b, j), a < b
      PROVE  FALSE
  <2>1. Above(a, b)
    BY <1>2, <1>1, AboveBoth DEF Above
  <2>2. ~JsSeen(b) /\ kind[a] \in JsOpaque
    BY <2>1, <1>2, JsUnseenBelow
  <2>3. b # 1 /\ Up(b) = j /\ kind[j] \notin JsOpaque
    BY <2>2, <1>2
  <2>4. a = j \/ Above(a, j)
    BY <2>1, <2>3, <1>2, AboveUp
  <2>5. Above(a, j)
    BY <2>2, <2>3, <2>4
  <2>. QED
    BY <2>2, <2>5, <1>2, JsUnseenBelow
<1>3. PICK a \in File : BodyOf(a, n)
  BY JsBodyOf
<1>4. PICK b \in File : BodyOf(b, m)
  BY JsBodyOf
<1>5. ~(a < b) /\ ~(b < a)
  BY <1>2, <1>3, <1>4
<1>6. a = b
  BY <1>1, <1>5
<1>. QED
  BY <1>3, <1>4, <1>6

\* In JavaScript a call in a function declaration that has a symbol belongs
\* to the innermost one, and no call belongs to symbols of two nodes.
LEMMA JsInnermost ==
  ASSUME IInv, Done("javascript"), NEW c \in Of({"call"})
  PROVE  LET fns == Around(c, {"fn"}) \cap {s.at : s \in out}
         IN  IF fns = {} THEN Cardinality(Owners(c)) <= 1 ELSE Owners(c) = {Last(fns)}
<1> DEFINE fns == Around(c, {"fn"}) \cap {s.at : s \in out}
           L == Last(fns)
<1>1. /\ Shape /\ Rooted /\ Grammar /\ IsTree(lev) /\ prof.lang = "javascript"
      /\ (\A s \in out : JsOwns(s)) /\ JsLocals(out)
      /\ c \in File /\ kind[c] = "call"
      /\ \A k \in File : k \in Nat /\ k >= 1
  BY TreeShape DEF IInv, Shape, File, Nodes, JsShape, Done, Of
<1>2. \A n : n \in fns <=> Above(n, c) /\ kind[n] = "fn" /\ \E s \in out : s.at = n
  BY <1>1, AroundIs
<1>3. \A n \in fns : n \in File /\ kind[n] = "fn" /\ Above(n, c) /\ n \in Of({"fn"})
  BY <1>2 DEF Above, Of
<1>4. \A n : n \in Owners(c) <=> \E s \in out : s.at = n /\ c \in s.calls
  BY DEF Owners
<1> HIDE DEF fns
<1>5. ASSUME NEW n \in Owners(c)
      PROVE  /\ n \in File /\ c \in JsGives(n) /\ (JsSeen(n) \/ n \in JsNestedFunctionDecls)
             /\ kind[n] = "fn" => n \in fns
  <2>1. PICK s \in out : s.at = n /\ c \in s.calls
    BY <1>4
  <2>2. n \in File /\ c \in JsGives(n) /\ (JsSeen(n) \/ n \in JsNestedFunctionDecls)
    BY <2>1, <1>1 DEF JsOwns
  <2>3. ASSUME kind[n] = "fn" PROVE n \in fns
    <3>1. c \in JsCallSites(n)
      BY <2>2, <2>3 DEF JsGives, JsValued
    <3>2. InSubtree(lev, n, c) /\ kind[n] # kind[c]
      BY <3>1, <2>3, <1>1 DEF JsCallSites, CollectCallSites
    <3>. QED
      BY <3>2, <2>1, <2>2, <2>3, <1>1, <1>2, BelowIs
  <2>. QED
    BY <2>2, <2>3
<1>6. JsNestedFunctionDecls \subseteq Of({"fn"})
  BY DEF JsNestedFunctionDecls
<1>7. CASE fns = {}
  <2>1. \A n \in Owners(c) : n \in File /\ c \in JsGives(n) /\ JsSeen(n)
    BY <1>5, <1>6, <1>7 DEF Of
  <2>2. \A n, m \in Owners(c) : n = m
    BY <2>1, <1>1, JsOneBody
  <2>3. Owners(c) = {} \/ \E n : Owners(c) = {n}
    BY <2>2
  <2>4. Cardinality(Owners(c)) <= 1
    <3>1. CASE Owners(c) = {}
      BY <3>1, FS_EmptySet
    <3>2. CASE \E n : Owners(c) = {n}
      <4>1. PICK n : Owners(c) = {n}
        BY <3>2
      <4>2. Cardinality({n}) = 1
        BY FS_Singleton
      <4>. QED
        BY <4>1, <4>2
    <3>. QED
      BY <2>3, <3>1, <3>2
  <2>. QED
    BY <2>4, <1>7 DEF fns
<1>8. CASE fns # {}
  <2>1. L \in fns /\ \A n \in fns : n <= L
    <3>1. fns \subseteq File
      BY <1>3
    <3>. QED
      BY <3>1, <1>1, <1>8, LastIs
  <2> HIDE DEF L
  <2>2. L \in File /\ kind[L] = "fn" /\ Above(L, c) /\ InSubtree(lev, L, c) /\ L \in Of({"fn"})
    BY <2>1, <1>3 DEF Above
  <2>3. PICK t \in out : t.at = L
    BY <2>1, <1>2
  <2>4. t.calls = JsCallSites(L) /\ (JsSeen(L) \/ L \in JsNestedFunctionDecls)
    BY <2>2, <2>3, <1>1 DEF JsOwns, JsGives, JsValued
  <2>5. Way(L, c) \cap JsNestedFunctionDecls = {}
    <3> SUFFICES ASSUME NEW m \in Way(L, c), m \in JsNestedFunctionDecls PROVE FALSE
      OBVIOUS
    <3>1. m \in File /\ kind[m] = "fn" /\ L < m /\ InSubtree(lev, m, c)
      BY <2>2, <1>1, <1>6 DEF Way, Of
    <3>2. Above(m, c)
      BY <3>1, <1>1, BelowIs
    <3>3. \E s \in out : s.at = m
      BY <1>1 DEF JsLocals
    <3>4. m \in fns
      BY <3>1, <3>2, <3>3, <1>2
    <3>. QED
      BY <3>1, <3>4, <2>1, <2>2, <1>1
  <2>6. c \in JsCallSites(L)
    BY <2>2, <2>5, <1>1 DEF JsCallSites, CollectCallSites, Of
  <2>7. L \in Owners(c)
    BY <2>3, <2>4, <2>6, <1>4
  <2>8. ASSUME NEW n \in Owners(c), n # L PROVE FALSE
    <3>1. n \in File /\ c \in JsGives(n) /\ (JsSeen(n) \/ n \in JsNestedFunctionDecls)
      BY <2>8, <1>5
    <3>2. PICK b \in File :
            /\ kind[b] \in JsOpaque /\ Above(b, c) /\ c \in File /\ c \in JsCallSites(b)
            /\ \/ b = n
               \/ b # 1 /\ Up(b) = n /\ kind[b] \in {"arrow", "funcexp", "deco"} /\ kind[n] \notin JsOpaque
      BY <3>1, <1>1, JsBodyOf
    <3>3. kind[L] \in JsOpaque
      BY <2>2 DEF JsOpaque
    <3>4. b # L
      BY <3>2, <2>2, <2>8
    <3>5. CASE b < L
      <4>1. Above(b, L)
        BY <3>2, <3>5, <2>2, <1>1, AboveBoth
      <4>2. ~JsSeen(L)
        BY <4>1, <3>2, <2>2, <1>1, JsUnseenBelow
      <4>3. L \in Way(b, c) \cap JsNestedFunctionDecls
        BY <4>2, <3>5, <2>2, <2>4, <1>1 DEF Way, Above
      <4>. QED
        BY <4>3, <3>2 DEF JsCallSites, CollectCallSites
    <3>6. CASE L < b
      <4>1. Above(L, b)
        BY <3>2, <3>6, <2>2, <1>1, AboveBoth DEF Above
      <4>2. Above(L, n)
        <5>1. CASE b = n
          BY <5>1, <4>1
        <5>2. CASE b # n
          BY <5>2, <4>1, <3>2, <2>8, AboveUp, <1>1
        <5>. QED
          BY <5>1, <5>2
      <4>3. ~JsSeen(n)
        BY <4>2, <3>1, <3>3, <1>1, JsUnseenBelow
      <4>4. n \in fns
        BY <4>3, <3>1, <2>8, <1>5, <1>6 DEF Of
      <4>. QED
        BY <4>2, <4>4, <3>1, <2>1, <2>2, <1>1 DEF Above
    <3>. QED
      BY <3>2, <3>4, <3>5, <3>6, <2>2, <1>1
  <2>9. Owners(c) = {L}
    BY <2>7, <2>8
  <2>. QED
    BY <2>9, <1>8 DEF fns, L
<1>. QED
  BY <1>7, <1>8

\* For every file of these nine languages, of every size: a call belongs to the
\* innermost function that has symbols, in JavaScript and Rust, and in C,
\* C++, C#, Kotlin, Objective-C, PHP and Swift to the outermost body around
\* it, the call of one C# constructor by another to the one that calls
\* (FnCallsToInnermost).
THEOREM FunctionsOwnCalls == Spec => []FnCallsToInnermost
<1>1. IInv => FnCallsToInnermost
  <2> SUFFICES ASSUME IInv PROVE FnCallsToInnermost
    OBVIOUS
  <2>1. ASSUME pass = "done", prof.lang \in OuterBodyLanguages, NEW c \in Of({"call"})
        PROVE  Owners(c) = UNION {BodySymbol(n, c) : n \in OuterBody(c)}
    <3>1. Shape /\ Rooted /\ Grammar /\ prof.lang \in GivenLanguages
      BY <2>1 DEF IInv, OuterShape, GivenLanguages
    <3>2. Owners(c) = {n \in File : c \in Gives(n)}
      BY <3>1, <2>1, OuterOwners
    <3>3. CASE prof.lang = "php"
      BY <3>1, <3>2, <3>3, PhpOutermost
    <3>4. CASE prof.lang = "swift"
      BY <3>1, <3>2, <3>4, SwiftOutermost
    <3>5. CASE prof.lang = "csharp"
      BY <3>1, <3>2, <3>5, CsOutermost
    <3>6. CASE prof.lang = "kotlin"
      BY <3>1, <3>2, <3>6, KtOutermost
    <3>7. CASE prof.lang \in {"c", "cpp", "objc"}
      BY <3>1, <3>2, <3>7, COutermost DEF C
    <3>. QED
      BY <2>1, <3>3, <3>4, <3>5, <3>6, <3>7 DEF OuterBodyLanguages
  <2>2. ASSUME Done("csharp"), NEW c \in Of({"initializer"})
        PROVE  Owners(c) = IF name[c] = "spaced" THEN {Up(c)} ELSE {}
    <3>1. /\ Shape /\ Rooted /\ Grammar /\ pass = "done"
          /\ prof.lang = "csharp" /\ prof.lang \in GivenLanguages
      BY <2>2 DEF IInv, OuterShape, GivenLanguages, OuterBodyLanguages, Done
    <3>2. Owners(c) = {n \in File : c \in Gives(n)}
      BY <3>1, <2>2, OuterOwners
    <3>. QED
      BY <3>1, <3>2, CsInitializers
  <2>. QED
    BY <2>1, <2>2, JsInnermost, RustInnermost DEF FnCallsToInnermost, Done
<1>. QED
  BY <1>1, Inductive, PTL

-----------------------------------------------------------------------------
(* The access of C++ methods                                               *)

\* CppOwner says of a node what its definition does: a path of names.
CppOwnerStep(f, n) ==
  IF n # 1 /\ kind[Up(n)] = "class" THEN QualJoin(f[Up(n)], name[Up(n)]) ELSE << >>

LEMMA CppOwnerIs ==
  ASSUME Shape
  PROVE  \A n \in File : CppOwner[n] = CppOwnerStep(CppOwner, n)
<1> DEFINE Defined(g, k) == /\ g = [n \in File |-> g[n]]
                            /\ \A n \in 1 .. k : g[n] = CppOwnerStep(g, n)
           T == {k \in 0 .. Len(lev) : ~\E g : Defined(g, k)}
<1>1. Len(lev) \in Nat /\ File = 1 .. Len(lev)
  BY TreeShape DEF Shape, File, Nodes
<1>2. \A n \in File : n # 1 => Up(n) \in File /\ Up(n) < n
  BY UpIs
<1>3. T = {}
  <2> SUFFICES ASSUME T # {} PROVE FALSE
    OBVIOUS
  <2>1. T \subseteq Nat
    BY <1>1
  <2>2. PICK k \in T : \A j \in T : k <= j
    <3> HIDE DEF T
    <3>. QED
      BY <2>1, LeastNat, Zenon
  <2>3. k \in 0 .. Len(lev) /\ ~\E g : Defined(g, k)
    OBVIOUS
  <2>4. k # 0
    <3>1. Defined([n \in File |-> 0], 0)
      OBVIOUS
    <3>. QED
      BY <3>1, <2>3, Zenon
  <2>5. k \in File /\ k - 1 \in 0 .. Len(lev)
    BY <2>3, <2>4, <1>1
  <2>6. k - 1 \notin T
    BY <2>1, <2>2, <2>5
  <2>7. PICK g : Defined(g, k - 1)
    BY <2>5, <2>6
  <2> DEFINE h == [n \in File |-> IF n = k THEN CppOwnerStep(g, k) ELSE g[n]]
  <2>8. \A n \in File : n # k => h[n] = g[n]
    OBVIOUS
  <2>9. h[k] = CppOwnerStep(g, k)
    BY <2>5
  <2>10. h = [n \in File |-> h[n]]
    OBVIOUS
  <2> HIDE DEF h
  <2>11. \A n \in 1 .. k : CppOwnerStep(h, n) = CppOwnerStep(g, n)
    <3> SUFFICES ASSUME NEW n \in 1 .. k, n # 1 PROVE h[Up(n)] = g[Up(n)]
      BY DEF CppOwnerStep
    <3>1. Up(n) \in File /\ Up(n) # k
      BY <2>5, <1>1, <1>2
    <3>. QED
      BY <3>1, <2>8
  <2>12. \A n \in 1 .. k : h[n] = CppOwnerStep(h, n)
    <3> SUFFICES ASSUME NEW n \in 1 .. k PROVE h[n] = CppOwnerStep(h, n)
      OBVIOUS
    <3>1. CASE n = k
      BY <3>1, <2>9, <2>11
    <3>2. CASE n # k
      <4>1. n \in 1 .. k - 1 /\ n \in File
        BY <3>2, <2>5, <1>1
      <4>. QED
        BY <4>1, <3>2, <2>7, <2>8, <2>11
    <3>. QED
      BY <3>1, <3>2
  <2>13. Defined(h, k)
    BY <2>10, <2>12
  <2>. QED
    BY <2>3, <2>13
<1>4. PICK g : Defined(g, Len(lev))
  <2>1. Len(lev) \notin T /\ Len(lev) \in 0 .. Len(lev)
    BY <1>1, <1>3
  <2>. QED
    BY <2>1
<1>5. g = [n \in File |-> CppOwnerStep(g, n)]
  BY <1>1, <1>4
<1>6. CppOwner = [n \in File |-> CppOwnerStep(CppOwner, n)]
  BY <1>5 DEF CppOwner, CppOwnerStep
<1>. QED
  BY <1>6

AllNames == {name[m] : m \in Nat}

LEMMA CppOwnerPath ==
  ASSUME Shape
  PROVE  \A n \in File : CppOwner[n] \in Seq(AllNames)
<1> DEFINE T == {n \in File : CppOwner[n] \notin Seq(AllNames)}
<1>1. \A n \in File : n \in Nat /\ name[n] \in AllNames
  BY TreeShape DEF Shape, File, Nodes, AllNames
<1> SUFFICES ASSUME T # {} PROVE FALSE
  OBVIOUS
<1>2. PICK n \in T : \A m \in T : n <= m
  <2>1. T \subseteq Nat
    BY <1>1
  <2> HIDE DEF T
  <2>. QED
    BY <2>1, LeastNat, Zenon
<1>3. n \in File /\ n \in Nat /\ CppOwner[n] \notin Seq(AllNames)
  BY <1>1, <1>2
<1>4. CppOwner[n] = CppOwnerStep(CppOwner, n)
  BY <1>3, CppOwnerIs
<1>5. CASE n # 1 /\ kind[Up(n)] = "class"
  <2>1. Up(n) \in File /\ Up(n) < n /\ Up(n) \in Nat /\ name[Up(n)] \in AllNames
    BY <1>1, <1>3, <1>5, UpIs, Zenon
  <2>2. Up(n) \notin T
    <3> HIDE DEF T
    <3>. QED
      BY <2>1, <1>2, <1>3
  <2>3. CppOwner[Up(n)] \in Seq(AllNames)
    BY <2>1, <2>2
  <2>4. CppOwner[n] = Append(CppOwner[Up(n)], name[Up(n)])
    BY <1>4, <1>5 DEF CppOwnerStep, QualJoin
  <2>. QED
    BY <2>1, <2>3, <2>4, <1>3
<1>6. CASE ~(n # 1 /\ kind[Up(n)] = "class")
  BY <1>3, <1>4, <1>6 DEF CppOwnerStep
<1>. QED
  BY <1>5, <1>6

\* The name of a method: the last of several names, and not the class's.
MethodName(q) == q \in Seq(AllNames) /\ Len(q) >= 2 /\ q[Len(q)] # q[Len(q) - 1]

LEMMA MethodIs ==
  ASSUME NEW owner \in Seq(AllNames), owner # << >>, NEW nm \in AllNames
  PROVE  MethodName(QualJoin(owner, nm)) <=> <<nm>> # QualLast(owner)
<1>1. Len(owner) \in Nat \ {0}
  OBVIOUS
<1>2. /\ QualJoin(owner, nm) \in Seq(AllNames) /\ Len(QualJoin(owner, nm)) = Len(owner) + 1
      /\ QualJoin(owner, nm)[Len(owner) + 1] = nm
      /\ QualJoin(owner, nm)[Len(owner)] = owner[Len(owner)]
  BY <1>1 DEF QualJoin
<1>3. QualLast(owner) = <<owner[Len(owner)]>>
  BY DEF QualLast
<1>4. <<nm>> = QualLast(owner) <=> nm = owner[Len(owner)]
  BY <1>3
<1>. QED
  BY <1>1, <1>2, <1>4 DEF MethodName

\* Every node but the root has one of the names of its type.
Names ==
  /\ prof \in Profiles /\ Len(name) = Len(lev) /\ \E S : name \in Seq(S)
  /\ \A n \in File : n # 1 => name[n] \in prof.names[kind[n]]

\* Every step is the parser's or leaves the file as it is.
LEMMA ParsesOrPasses ==
  ASSUME Next
  PROVE  UNCHANGED fileVars \/ \E l \in Levels : \E k : Grow(l, k)
<1>1. \A from, to, symbols : Pass(from, to, symbols) => UNCHANGED fileVars
  BY DEF Pass
<1> DEFINE G == UNCHANGED fileVars \/ \E l \in Levels : \E k : Grow(l, k)
<1>2. CppNext => G
  BY <1>1 DEF CppNext, CppFile, ExtractCNodes
<1>3. CsNext => G
  BY <1>1 DEF CsNext, CsFile, ExtractCSharpNodes
<1>4. GoNext => G
  BY <1>1 DEF GoNext, GoFile, GoExtract
<1>5. JavaNext => G
  BY <1>1 DEF JavaNext, JavaFile, JavaVisitFile, JavaReattachOrphans
<1>6. JsNext => G
  BY <1>1 DEF JsNext, JsFile, JsVisit, JsLocalFunctions, JsDedupe, JsExports
<1>7. KotlinNext => G
  BY <1>1 DEF KotlinNext, KtFile, ExtractKotlinNodes
<1>8. ObjcNext => G
  BY <1>1 DEF ObjcNext, ObjcFile, ExtractObjCNodes, ObjcBlockTypedefs, ObjcMacroEnums
<1>9. PhpNext => G
  BY <1>1 DEF PhpNext, PhpFile, ExtractPHPNodes
<1>10. PyNext => G
  BY <1>1 DEF PyNext, PyFile, PyVisit, PyModuleAssignments, PyTopLevel
<1>11. RustNext => G
  BY <1>1 DEF RustNext, RustFile, RustVisitFile, RustImplTraits
<1>12. SwiftNext => G
  BY <1>1 DEF SwiftNext, SwiftFile, SwiftVisitFile, SwiftConformances
<1>. QED
  BY <1>2, <1>3, <1>4, <1>5, <1>6, <1>7, <1>8, <1>9, <1>10, <1>11, <1>12 DEF Next

LEMMA GrowNames ==
  ASSUME Shape, Names, NEW l \in Levels, NEW k, Grow(l, k)
  PROVE  Names'
<1> DEFINE N == Len(lev')
<1>1. /\ N = Len(lev) + 1 /\ kind'[N] = k /\ prof' = prof
      /\ File' = File \cup {N}
      /\ \A n \in File : kind'[n] = kind[n]
  BY GrowFacts
<1>2. PICK nm \in prof.names[k] : name' = Append(name, nm)
  BY DEF Grow
<1>3. PICK S : name \in Seq(S)
  BY DEF Names
<1>4. Len(name) = Len(lev) /\ Len(name) \in Nat /\ File = 1 .. Len(lev)
  BY <1>3 DEF Names, File, Nodes
<1>5. /\ name' \in Seq(S \cup {nm}) /\ Len(name') = Len(name) + 1
      /\ name'[Len(name) + 1] = nm
      /\ \A n \in 1 .. Len(name) : name'[n] = name[n]
  <2>1. name \in Seq(S \cup {nm})
    BY <1>3
  <2>. QED
    BY <2>1, <1>2
<1>6. \A n \in File' : n # 1 => name'[n] \in prof'.names[kind'[n]]
  BY <1>1, <1>2, <1>4, <1>5 DEF Names
<1>. QED
  BY <1>1, <1>4, <1>5, <1>6 DEF Names

\* In every file of every size each node but the root has a name of its
\* type's names: what the extractors compare names with is of the grammar.
THEOREM NamesInvariant == Spec => []Names
<1>1. Init => Names
  <2> SUFFICES ASSUME Init PROVE Names
    OBVIOUS
  <2>1. prof \in Profiles /\ lev = <<0>> /\ \E e : name = <<e>>
    BY Zenon DEF Init
  <2>2. File = {1} /\ Len(lev) = 1 /\ Len(name) = 1
    BY <2>1 DEF File, Nodes
  <2>3. \E S : name \in Seq(S)
    <3>1. PICK e : name = <<e>>
      BY <2>1
    <3>2. name \in Seq({e})
      BY <3>1
    <3>. QED
      BY <3>2
  <2>. QED
    BY <2>1, <2>2, <2>3 DEF Names
<1>2. IInv /\ Names /\ [Next]_vars => Names'
  <2> SUFFICES ASSUME IInv, Names, [Next]_vars PROVE Names'
    OBVIOUS
  <2>1. CASE UNCHANGED fileVars
    <3>1. File' = File /\ prof' = prof /\ kind' = kind /\ name' = name /\ lev' = lev
      BY <2>1 DEF fileVars, File
    <3>. QED
      BY <3>1 DEF Names
  <2>2. CASE \E l \in Levels : \E k : Grow(l, k)
    BY <2>2, GrowNames DEF IInv
  <2>3. UNCHANGED vars => UNCHANGED fileVars
    BY DEF vars, fileVars
  <2>. QED
    BY <2>1, <2>2, <2>3, ParsesOrPasses
<1>. QED
  BY <1>1, <1>2, Inductive, PTL DEF Spec

\* An access specifier gives one of the accesses.
LEMMA Sections ==
  ASSUME Shape, Rooted, Names
  PROVE  \A n : CppSection(n) \in CppAccess
<1> SUFFICES ASSUME NEW n PROVE CppSection(n) \in CppAccess
  OBVIOUS
<1> DEFINE before == {a \in Of({"access"}) : a < n /\ Up(a) = Up(n)}
           last == CHOOSE a \in before : \A b \in before : b <= a
<1>1. CppSection(n) = IF before = {} THEN "private" ELSE name[last]
  BY DEF CppSection
<1>2. CASE before # {}
  <2>1. before \subseteq Nodes(lev) /\ IsTree(lev)
    BY DEF Of, File, Shape
  <2>2. last \in before
    <3> HIDE DEF before
    <3>. QED
      BY <2>1, <1>2, LastNode
  <2>3. last \in File /\ kind[last] = "access" /\ last # 1
    BY <2>2, Zenon DEF Of, Rooted
  <2>4. name[last] \in prof.names["access"] /\ prof \in Profiles
    BY <2>3 DEF Names
  <2>5. "access" \in DOMAIN prof.names
    BY <2>3 DEF Shape, File, Nodes
  <2> HIDE DEF last, before
  <2>. QED
    BY <2>4, <2>5, <1>1, <1>2, AccessAssumption
<1>3. CASE before = {}
  BY <1>1, <1>3 DEF CppAccess
<1>. QED
  BY <1>2, <1>3

\* A method symbol has the name of one and no access that none of its
\* declarations has.
Accesses(q) == {CppSection(n) : n \in CppDeclarations(q)}

Honest(s) ==
  s.sort = "method" =>
    s.at \in File /\ MethodName(s.qual) /\ s.marks \cap CppAccess \subseteq Accesses(s.qual)

LEMMA CFuncHas ==
  ASSUME NEW n \in Nat, NEW owner \in Seq(AllNames), NEW marks
  PROVE  LET f == CppFunc(n, owner, marks) IN
         /\ f.at = n /\ f.marks = marks /\ f.qual = QualJoin(owner, name[n])
         /\ owner = << >> => f.sort # "method"
         /\ owner # << >> => (f.sort = "method" <=> MethodName(f.qual))
<1> DEFINE f == CppFunc(n, owner, marks)
<1>1. f.at = n /\ f.marks = marks /\ f.qual = QualJoin(owner, name[n])
  BY DEF CppFunc, Sym
<1>2. f.sort = IF owner = << >> THEN "function"
               ELSE IF <<name[n]>> = QualLast(owner) THEN "constructor" ELSE "method"
  BY DEF CppFunc, Sym
<1>3. name[n] \in AllNames
  BY DEF AllNames
<1>. QED
  BY <1>1, <1>2, <1>3, MethodIs

\* The path of a class, and its members' names.
LEMMA CPathIs ==
  ASSUME Shape, NEW n \in File
  PROVE  CppPath(n) \in Seq(AllNames) /\ CppPath(n) # << >>
<1>1. CppOwner[n] \in Seq(AllNames)
  BY CppOwnerPath
<1>2. name[n] \in AllNames
  BY TreeShape DEF Shape, File, Nodes, AllNames
<1>. QED
  BY <1>1, <1>2 DEF CppPath, QualJoin

LEMMA CMemberHonest ==
  ASSUME Shape, NEW n \in File, kind[n] = "class", CppEntered(n),
         NEW k \in Kids(n), kind[k] # "class", NEW s \in CppMember(k, CppPath(n))
  PROVE  Honest(s)
<1>1. k \in File /\ k \in Nat /\ Up(k) = n
  BY CKid, TreeShape DEF Shape, File, Nodes
<1>2. CppPath(n) \in Seq(AllNames) /\ CppPath(n) # << >>
  BY CPathIs
<1>3. CASE kind[k] \in {"fn", "proto"}
  <2>1. PICK marks : s = CppFunc(k, CppPath(n), marks) /\ marks \cap CppAccess \subseteq {CppSection(k)}
    BY <1>3 DEF CppMember, CppAccess
  <2>2. /\ s.at = k /\ s.marks = marks /\ s.qual = QualJoin(CppPath(n), name[k])
        /\ s.sort = "method" => MethodName(s.qual)
    BY <1>1, <1>2, <2>1, CFuncHas
  <2>3. k \in CppDeclarations(s.qual)
    BY <1>1, <1>3, <2>2 DEF CppDeclarations, Of
  <2>. QED
    BY <1>1, <2>1, <2>2, <2>3 DEF Honest, Accesses
<1>4. CASE kind[k] = "friend"
  <2>1. s = CppFunc(k, << >>, {"friend"})
    BY <1>4 DEF CppMember
  <2>2. << >> \in Seq(AllNames)
    OBVIOUS
  <2>3. s.sort # "method"
    BY <1>1, <2>1, <2>2, CFuncHas, Zenon
  <2>. QED
    BY <2>3 DEF Honest
<1>5. CASE kind[k] = "enum"
  <2>1. s \in CppEnum(k, CppPath(n))
    BY <1>5 DEF CppMember
  <2>2. \A parent, marks : \A r \in CEnumMembers(k, parent, marks) : r.sort # "method"
    BY DEF CEnumMembers, Sym
  <2>3. \/ s \in CEnumMembers(k, CppPath(n), {CppSection(k)})
        \/ s \in CEnumMembers(k, QualJoin(CppPath(n), name[k]), {CppSection(k)})
        \/ s = Sym(k, "enum", <<name[k]>>, CppPath(n), {}, {CppSection(k)})
    BY <2>1, ZenonT(30) DEF CppEnum
  <2>. QED
    BY <2>2, <2>3 DEF Sym, Honest
<1>6. CASE kind[k] = "var"
  BY <1>6 DEF CppMember, Honest, Sym
<1>7. kind[k] \in {"fn", "proto", "friend", "enum", "var"}
  BY DEF CppMember
<1>. QED
  BY <1>3, <1>4, <1>5, <1>6, <1>7

LEMMA CClassHonest ==
  ASSUME Shape, NEW n \in File, kind[n] = "class", CppEntered(n), NEW s \in CppClass[n]
  PROVE  Honest(s)
<1> DEFINE T == {k \in File : /\ kind[k] = "class" /\ CppEntered(k)
                              /\ \E r \in CppClass[k] : ~Honest(r)}
<1>1. IsTree(lev) /\ \A k \in File : k \in Nat /\ k >= 1
  BY TreeShape DEF Shape, File, Nodes
<1> SUFFICES ASSUME T # {} PROVE FALSE
  OBVIOUS
<1>2. PICK d \in T : \A k \in T : k <= d
  <2>1. T \subseteq Nodes(lev)
    BY DEF File
  <2> HIDE DEF T
  <2>. QED
    BY <2>1, <1>1, LastNode
<1>3. d \in File /\ kind[d] = "class" /\ CppEntered(d)
  OBVIOUS
<1>4. PICK r \in CppClass[d] : ~Honest(r)
  OBVIOUS
<1>5. r.sort = "method"
  BY <1>4 DEF Honest
<1>6. CppClass[d] = CppClassStep(CppClass, d)
  BY <1>3, CppClassIs
<1>7. PICK k \in Kids(d) : r \in (IF kind[k] = "class" THEN CppClass[k] ELSE CppMember(k, CppPath(d)))
  BY <1>4, <1>5, <1>6 DEF CppClassStep, Sym
<1>8. CASE kind[k] = "class"
  <2>1. k \in File /\ d < k /\ CppEntered(k)
    BY <1>3, <1>8, CKid
  <2>2. k \in T
    BY <2>1, <1>4, <1>7, <1>8
  <2> HIDE DEF T
  <2>. QED
    BY <2>1, <2>2, <1>1, <1>2, <1>3
<1>9. CASE kind[k] # "class"
  BY <1>3, <1>4, <1>7, <1>9, CMemberHonest
<1>. QED
  BY <1>8, <1>9

LEMMA CDefinitionHonest ==
  ASSUME Shape, NEW k \in File, CppEntered(k), NEW s \in CppDefinition(k)
  PROVE  Honest(s)
<1>1. k \in Nat /\ << >> \in Seq(AllNames)
  BY TreeShape DEF Shape, File, Nodes
<1>2. CASE kind[k] = "fn"
  <2>1. s = CppFunc(k, << >>, {})
    BY <1>2 DEF CppDefinition
  <2>2. s.sort # "method"
    BY <2>1 DEF CppFunc, Sym
  <2>. QED
    BY <2>2 DEF Honest
<1>3. CASE kind[k] = "outfn"
  <2> DEFINE owner == CppDeclaratorOwner(k)
             c == Cardinality(CppOwners(k))
  <2>1. s = CppFunc(k, owner, {})
    BY <1>3 DEF CppDefinition
  <2>2. c \in Nat
    <3>1. IsFiniteSet(File)
      BY TreeShape, FS_Interval DEF Shape, File, Nodes
    <3>2. CppOwners(k) \in SUBSET File
      BY DEF CppOwners, Kids
    <3>3. IsFiniteSet(CppOwners(k))
      BY <3>1, <3>2, FS_Subset
    <3>. QED
      BY <3>3, FS_CardinalityType
  <2>3. owner \in Seq(AllNames)
    <3>1. \A i \in 1 .. c : name[k + i] \in AllNames
      BY <2>2, <1>1 DEF AllNames
    <3>2. owner = [i \in 1 .. c |-> name[k + i]]
      BY DEF CppDeclaratorOwner
    <3> HIDE DEF c, owner
    <3>. QED
      BY <3>1, <3>2, <2>2
  <2>4. s.at = k /\ s.marks = {} /\ (s.sort = "method" => MethodName(s.qual))
    <3> HIDE DEF owner
    <3>. QED
      BY <2>1, <2>3, <1>1, CFuncHas
  <2>. QED
    BY <2>4 DEF Honest
<1>4. CASE kind[k] = "class"
  BY <1>4, CClassHonest DEF CppDefinition
<1>. QED
  BY <1>2, <1>3, <1>4 DEF CppDefinition

\* The declared access that a symbol gets is another's.
LEMMA CVisibleIs ==
  ASSUME Shape, NEW symbols, NEW s \in symbols, \A d \in symbols : Honest(d)
  PROVE  LET v == CppVisible(s, symbols) IN
         \/ v = s /\ CppDeclared(s, symbols) = {}
         \/ /\ v.at = s.at /\ v.sort = s.sort /\ v.qual = s.qual
            /\ \E d \in CppDeclared(s, symbols) : v.marks \cap CppAccess = d.marks \cap CppAccess
<1> DEFINE declared == CppDeclared(s, symbols)
           last == CHOOSE d \in declared : \A e \in declared : e.at <= d.at
           v == CppVisible(s, symbols)
<1>1. v = IF declared = {} THEN s
          ELSE Sym(s.at, s.sort, s.qual, s.parent, s.calls,
                   (s.marks \cap {"declaration"}) \cup (last.marks \ {"declaration"}))
  BY DEF CppVisible
<1>2. CASE declared # {}
  <2>1. last \in declared
    <3>1. \A d \in declared : d.at \in File
      BY DEF CppDeclared, Honest
    <3> HIDE DEF declared
    <3> DEFINE T == {d.at : d \in declared}
    <3>2. IsTree(lev) /\ T \subseteq Nodes(lev) /\ T # {}
      BY <1>2, <3>1 DEF File, Shape
    <3>3. PICK x \in T : \A y \in T : y <= x
      <4> HIDE DEF T
      <4>. QED
        BY <3>2, LastNode
    <3>4. PICK d \in declared : d.at = x
      BY <3>3
    <3>5. \A e \in declared : e.at <= d.at
      BY <3>3, <3>4
    <3>. QED
      BY <3>4, <3>5
  <2> HIDE DEF last, declared
  <2>2. v.marks \cap CppAccess = last.marks \cap CppAccess
    BY <1>1, <1>2 DEF Sym, CppAccess
  <2>3. v.at = s.at /\ v.sort = s.sort /\ v.qual = s.qual
    BY <1>1, <1>2 DEF Sym
  <2>. QED
    BY <2>1, <2>2, <2>3 DEF declared
<1>3. CASE declared = {}
  BY <1>1, <1>3
<1>. QED
  BY <1>2, <1>3

LEMMA CTypeSorts ==
  \A k : \A s \in CType(k) : s.sort # "method"
<1>1. \A n : \A s \in CEmit(n) : s.sort # "method"
  <2> SUFFICES ASSUME NEW n, NEW s \in CEmit(n) PROVE s.sort # "method"
    OBVIOUS
  <2>1. \A r \in CTypeSym(n, "class") \cup CTypeSym(n, "enum") : r.sort # "method"
    BY DEF CTypeSym, Sym
  <2>2. \A parent, marks : \A r \in CEnumMembers(n, parent, marks) : r.sort # "method"
    BY DEF CEnumMembers, Sym
  <2>3. CTypedefSort(n) # "method"
    BY DEF CTypedefSort
  <2>. QED
    BY <2>1, <2>2, <2>3 DEF CEmit, Sym
<1>. QED
  BY <1>1 DEF CType

\* Honest symbols of the regions in one make honest symbols of that one.
LEMMA CKeptHonest ==
  ASSUME Shape, NEW d \in File, kind[d] \in CVisited, CppEntered(d),
         \A m \in File : d < m /\ kind[m] \in CVisited /\ CppEntered(m) => \A r \in CppVisit[m] : Honest(r),
         NEW s \in CppKept(d, UNION {CppDecl(CppVisit, k) : k \in Kids(d)})
  PROVE  Honest(s)
<1>1. \A k \in File : k \in Nat /\ k >= 1
  BY TreeShape DEF Shape, File, Nodes
<1>2. kind[d] \notin {"off", "class"}
  BY DEF CVisited
<1>3. PICK k \in Kids(d) : s \in CppDecl(CppVisit, k)
  BY DEF CppKept
<1>4. k \in File /\ k \in Nat /\ Up(k) = d /\ d < k /\ CppEntered(k)
  BY <1>1, <1>2, CKid
<1>5. CASE kind[k] \in {"fn", "outfn", "class"}
  BY <1>3, <1>4, <1>5, CDefinitionHonest DEF CppDecl
<1>6. CASE kind[k] = "tmpl"
  <2>1. PICK m \in Kids(k) : s \in CppDefinition(m)
    BY <1>3, <1>6 DEF CppDecl
  <2>2. m \in File /\ CppEntered(m)
    BY <1>4, <1>6, <2>1, CKid
  <2>. QED
    BY <2>1, <2>2, CDefinitionHonest
<1>7. CASE kind[k] = "proto"
  <2>1. s = CppFunc(k, << >>, {"declaration"})
    BY <1>3, <1>7 DEF CppDecl
  <2>. QED
    BY <2>1 DEF CppFunc, Sym, Honest
<1>8. CASE kind[k] = "var"
  BY <1>3, <1>8 DEF CppDecl, Sym, Honest
<1>9. CASE kind[k] \in {"typedef", "record", "enum"}
  BY <1>3, <1>9, CTypeSorts DEF CppDecl, Honest
<1>10. CASE kind[k] \in {"ns", "cond", "alt"}
  <2>1. s \in CppVisit[k] \/ s.sort = "namespace"
    BY <1>3, <1>10 DEF CppDecl, Sym
  <2>2. kind[k] \in CVisited
    BY <1>10 DEF CVisited
  <2>. QED
    BY <2>1, <2>2, <1>4 DEF Honest
<1>11. CASE kind[k] = "off"
  <2>1. PICK m \in Kids(k) \cap Of({"alt"}) : s \in CppVisit[m]
    BY <1>3, <1>11 DEF CppDecl
  <2>2. kind[m] = "alt" /\ kind[m] \in CVisited
    BY DEF Of, CVisited
  <2>3. m \in File /\ d < m /\ CppEntered(m)
    BY <2>1, <2>2, <1>1, <1>4, CKid
  <2>. QED
    BY <2>1, <2>2, <2>3
<1>. QED
  BY <1>3, <1>5, <1>6, <1>7, <1>8, <1>9, <1>10, <1>11 DEF CppDecl

LEMMA CVisibleHonest ==
  ASSUME Shape, NEW symbols, \A d \in symbols : Honest(d), NEW s \in symbols
  PROVE  Honest(CppVisible(s, symbols))
<1> DEFINE v == CppVisible(s, symbols)
<1>1. v = s \/ (/\ v.at = s.at /\ v.sort = s.sort /\ v.qual = s.qual
                /\ \E d \in CppDeclared(s, symbols) : v.marks \cap CppAccess = d.marks \cap CppAccess)
  BY CVisibleIs
<1> HIDE DEF v
<1>2. CASE v = s
  BY <1>2 DEF v
<1>3. CASE v # s
  <2>1. PICK d \in CppDeclared(s, symbols) : v.marks \cap CppAccess = d.marks \cap CppAccess
    BY <1>1, <1>3
  <2>2. d \in symbols /\ d.sort = "method" /\ d.qual = s.qual
    BY DEF CppDeclared
  <2>3. Honest(d) /\ Honest(s)
    BY <2>2
  <2>4. Honest(v)
    BY <1>1, <1>3, <2>1, <2>2, <2>3 DEF Honest
  <2>. QED
    BY <2>4 DEF v
<1>. QED
  BY <1>2, <1>3

LEMMA CVisitHonest ==
  ASSUME Shape, prof.lang = "cpp", NEW n \in File, kind[n] \in CVisited, CppEntered(n),
         NEW s \in CppVisit[n]
  PROVE  Honest(s)
<1> DEFINE T == {k \in File : /\ kind[k] \in CVisited /\ CppEntered(k)
                              /\ \E r \in CppVisit[k] : ~Honest(r)}
<1>1. IsTree(lev) /\ \A k \in File : k \in Nat /\ k >= 1
  BY TreeShape DEF Shape, File, Nodes
<1> SUFFICES ASSUME T # {} PROVE FALSE
  OBVIOUS
<1>2. PICK d \in T : \A k \in T : k <= d
  <2>1. T \subseteq Nodes(lev)
    BY DEF File
  <2> HIDE DEF T
  <2>. QED
    BY <2>1, <1>1, LastNode
<1>3. d \in File /\ kind[d] \in CVisited /\ CppEntered(d)
  OBVIOUS
<1>4. PICK r \in CppVisit[d] : ~Honest(r)
  OBVIOUS
<1>5. \A m \in File : d < m /\ kind[m] \in CVisited /\ CppEntered(m) => \A q \in CppVisit[m] : Honest(q)
  <2> SUFFICES ASSUME NEW m \in File, d < m, m \in T PROVE FALSE
    OBVIOUS
  <2>1. ~(m <= d)
    BY <1>1, <1>3
  <2> HIDE DEF T
  <2>. QED
    BY <2>1, <1>2
<1> HIDE DEF T
<1> DEFINE kept == CppKept(d, UNION {CppDecl(CppVisit, k) : k \in Kids(d)})
<1>6. \A q \in kept : Honest(q)
  BY <1>3, <1>5, CKeptHonest
<1>7. CppVisit[d] = {CppVisible(q, kept) : q \in kept}
  BY <1>3, CppVisitIs, Zenon DEF CppVisitStep
<1> HIDE DEF kept
<1>8. PICK q \in kept : r = CppVisible(q, kept)
  BY <1>4, <1>7
<1>. QED
  BY <1>4, <1>6, <1>8, CVisibleHonest

-----------------------------------------------------------------------------
\* What stands between the file and a declaration in a class.
CDeclares(k) ==
  /\ k \in File /\ kind[k] \in {"fn", "proto"} /\ k # 1
  /\ kind[Up(k)] = "class" /\ CppEntered(Up(k))

LEMMA CDeclarationWay ==
  ASSUME Shape, Rooted, Grammar, prof.lang \in C, NEW k, CDeclares(k), NEW a, Above(a, k)
  PROVE  /\ a \in File /\ kind[a] \in CWays /\ CppEntered(a)
         /\ kind[a] = "class" \/ a # Up(k)
         /\ \E x \in Kids(a) : /\ x \in File /\ a < x /\ Up(x) = a /\ IsParent(lev, x, a)
                               /\ x = k \/ (Above(x, k) /\ kind[x] \in CWays /\ CppEntered(x))
<1>1. k \in File /\ k # 1 /\ kind[Up(k)] = "class" /\ CppEntered(Up(k))
  BY DEF CDeclares
<1>2. /\ IsTree(lev) /\ \A m \in File : m \in Nat /\ m >= 1
      /\ \A m \in 1 .. k : m \in File
  BY <1>1, TreeShape DEF Shape, File, Nodes
<1>3. Up(k) \in File /\ \A m : Above(m, k) <=> m = Up(k) \/ Above(m, Up(k))
  BY <1>1, AboveUp, UpIs
<1>4. ASSUME NEW m, Above(m, k) PROVE kind[m] \in CWays /\ CppEntered(m)
  <2>1. CASE m = Up(k)
    BY <2>1, <1>1 DEF CWays
  <2>2. CASE Above(m, Up(k))
    <3>1. kind[Up(k)] \in CWays
      BY <1>1 DEF CWays
    <3>2. \A e : e \in Way(1, m) => e \in Way(1, Up(k))
      <4> SUFFICES ASSUME NEW e \in Way(1, m) PROVE e \in Way(1, Up(k))
        OBVIOUS
      <4>1. m \in File /\ m < Up(k) /\ InSubtree(lev, m, Up(k)) /\ m < k
        BY <2>2, <1>4 DEF Above
      <4>2. e \in 2 .. m /\ InSubtree(lev, e, m)
        BY <4>1, <1>2 DEF Way
      <4>3. e \in File
        BY <4>1, <4>2, <1>2, <1>1
      <4>4. InSubtree(lev, e, Up(k))
        BY <4>1, <4>2, <4>3, <1>3, AboveTrans, Zenon
      <4>. QED
        BY <4>1, <4>2, <4>4, <1>2, <1>3 DEF Way
    <3>. QED
      BY <2>2, <3>1, <3>2, <1>1, <1>3, CWaysUp DEF CppEntered
  <2>. QED
    BY <2>1, <2>2, <1>3, <1>4
<1>5. a \in File /\ a < k /\ InSubtree(lev, a, k) /\ a # k
  BY <1>1, <1>2 DEF Above
<1>6. PICK x \in Way(a, k) : x \in File /\ IsParent(lev, x, a)
  BY <1>1, <1>5, ChildTowards
<1>7. x \in Kids(a) /\ InSubtree(lev, x, k) /\ a < x /\ x <= k /\ Up(x) = a
  BY <1>2, <1>5, <1>6, UpUnique DEF Way, Kids
<1>8. x = k \/ Above(x, k)
  BY <1>1, <1>2, <1>6, <1>7 DEF Above
<1>. QED
  BY <1>1, <1>4, <1>5, <1>6, <1>7, <1>8

HasAccess(symbols, k) ==
  \E r \in symbols : /\ r.at = k /\ r.sort = "method" /\ r.qual = QualJoin(CppPath(Up(k)), name[k])
                     /\ r.marks \cap CppAccess # {}

LEMMA CClassDeclares ==
  ASSUME Shape, Rooted, Grammar, Names, prof.lang \in C, NEW k, CDeclares(k),
         MethodName(QualJoin(CppPath(Up(k)), name[k])),
         NEW e \in File, kind[e] = "class", Above(e, k)
  PROVE  HasAccess(CppClass[e], k)
<1> DEFINE T == {m \in File : kind[m] = "class" /\ Above(m, k) /\ ~HasAccess(CppClass[m], k)}
<1>1. IsTree(lev) /\ \A m \in File : m \in Nat /\ m >= 1
  BY TreeShape DEF Shape, File, Nodes
<1> SUFFICES ASSUME T # {} PROVE FALSE
  OBVIOUS
<1>2. PICK d \in T : \A m \in T : m <= d
  <2>1. T \subseteq Nodes(lev)
    BY DEF File
  <2> HIDE DEF T
  <2>. QED
    BY <2>1, <1>1, LastNode
<1>3. d \in File /\ kind[d] = "class" /\ Above(d, k) /\ ~HasAccess(CppClass[d], k)
  OBVIOUS
<1>4. PICK x \in Kids(d) : /\ x \in File /\ d < x /\ Up(x) = d /\ IsParent(lev, x, d)
                           /\ x = k \/ (Above(x, k) /\ kind[x] \in CWays /\ CppEntered(x))
  BY <1>3, CDeclarationWay
<1>5. \A s \in (IF kind[x] = "class" THEN CppClass[x] ELSE CppMember(x, CppPath(d))) : s \in CppClass[d]
  <2>1. CppClass[d] = CppClassStep(CppClass, d)
    BY <1>3, CppClassIs
  <2>. QED
    BY <2>1, <1>4 DEF CppClassStep
<1>6. CASE x = k
  <2>1. kind[k] \in {"fn", "proto"} /\ Up(k) = d /\ k \in Nat
    BY <1>1, <1>4, <1>6 DEF CDeclares
  <2>2. PICK marks : CppSection(k) \in marks /\ CppFunc(k, CppPath(d), marks) \in CppMember(k, CppPath(d))
    <3>1. CASE kind[k] = "fn"
      BY <3>1 DEF CppMember
    <3>2. CASE kind[k] = "proto"
      BY <3>2 DEF CppMember
    <3>. QED
      BY <2>1, <3>1, <3>2
  <2> DEFINE f == CppFunc(k, CppPath(d), marks)
  <2>3. f \in CppClass[d]
    BY <2>1, <2>2, <1>5, <1>6
  <2>4. CppPath(d) \in Seq(AllNames) /\ CppPath(d) # << >>
    BY <1>3, CPathIs
  <2>5. f.at = k /\ f.sort = "method" /\ f.qual = QualJoin(CppPath(Up(k)), name[k]) /\ f.marks = marks
    BY <2>1, <2>4, CFuncHas
  <2>6. CppSection(k) \in f.marks \cap CppAccess
    BY <2>2, <2>5, Sections
  <2> HIDE DEF f
  <2>. QED
    BY <2>3, <2>5, <2>6, <1>3 DEF HasAccess
<1>7. CASE x # k
  <2>1. Above(x, k) /\ kind[x] \in CWays /\ CppEntered(x)
    BY <1>4, <1>7
  <2>2. kind[x] \in {"class", "cond"}
    BY <2>1, <1>3, <1>4 DEF Grammar, Fits, CFits, C
  <2>3. kind[x] # "cond"
    <3>1. x # 1
      BY <1>1, <1>3, <1>4
    <3>. QED
      BY <2>1, <3>1, <1>3, <1>4, CEnteredUp
  <2>4. HasAccess(CppClass[x], k)
    <3>1. x \notin T
      <4>1. ~(x <= d)
        BY <1>1, <1>3, <1>4
      <4> HIDE DEF T
      <4>. QED
        BY <4>1, <1>2
    <3>. QED
      BY <3>1, <2>1, <2>2, <2>3, <1>4
  <2>. QED
    BY <2>2, <2>3, <2>4, <1>3, <1>5 DEF HasAccess
<1>. QED
  BY <1>6, <1>7

\* Symbols keep the access that a declaration gave one of them.
LEMMA CVisibleKeeps ==
  ASSUME Shape, NEW symbols, \A d \in symbols : Honest(d), NEW r \in symbols, r.sort = "method",
         r.marks \cap CppAccess # {}, NEW s \in symbols, s.qual = r.qual
  PROVE  LET v == CppVisible(s, symbols) IN
         v.at = s.at /\ v.sort = s.sort /\ v.qual = s.qual /\ v.marks \cap CppAccess # {}
<1> DEFINE v == CppVisible(s, symbols)
<1>1. r \in CppDeclared(s, symbols)
  BY DEF CppDeclared
<1>2. \/ v = s /\ CppDeclared(s, symbols) = {}
      \/ /\ v.at = s.at /\ v.sort = s.sort /\ v.qual = s.qual
         /\ \E d \in CppDeclared(s, symbols) : v.marks \cap CppAccess = d.marks \cap CppAccess
  BY CVisibleIs
<1>3. \A d \in CppDeclared(s, symbols) : d.marks \cap CppAccess # {}
  BY DEF CppDeclared
<1> HIDE DEF v
<1>4. v.at = s.at /\ v.sort = s.sort /\ v.qual = s.qual /\ v.marks \cap CppAccess # {}
  BY <1>1, <1>2, <1>3
<1>. QED
  BY <1>4 DEF v

LEMMA CRegionHonest ==
  ASSUME Shape, prof.lang = "cpp", NEW d \in File, kind[d] \in CVisited, CppEntered(d)
  PROVE  LET kept == CppKept(d, UNION {CppDecl(CppVisit, k) : k \in Kids(d)}) IN
         /\ CppVisit[d] = {CppVisible(s, kept) : s \in kept}
         /\ \A s \in kept : Honest(s)
<1>1. CppVisit[d] = CppVisitStep(CppVisit, d)
  BY CppVisitIs
<1>2. \A m \in File : d < m /\ kind[m] \in CVisited /\ CppEntered(m) => \A r \in CppVisit[m] : Honest(r)
  BY CVisitHonest
<1>3. \A s \in CppKept(d, UNION {CppDecl(CppVisit, k) : k \in Kids(d)}) : Honest(s)
  BY <1>2, CKeptHonest
<1>. QED
  BY <1>1, <1>3 DEF CppVisitStep

LEMMA CVisitDeclares ==
  ASSUME Shape, Rooted, Grammar, Names, prof.lang = "cpp", NEW k, CDeclares(k),
         MethodName(QualJoin(CppPath(Up(k)), name[k])),
         NEW e \in File, kind[e] \in CVisited, Above(e, k)
  PROVE  HasAccess(CppVisit[e], k)
<1> DEFINE T == {m \in File : kind[m] \in CVisited /\ Above(m, k) /\ ~HasAccess(CppVisit[m], k)}
<1>1. /\ IsTree(lev) /\ \A m \in File : m \in Nat /\ m >= 1
      /\ prof.lang \in C
  BY TreeShape DEF Shape, File, Nodes, C
<1> SUFFICES ASSUME T # {} PROVE FALSE
  OBVIOUS
<1>2. PICK d \in T : \A m \in T : m <= d
  <2>1. T \subseteq Nodes(lev)
    BY DEF File
  <2> HIDE DEF T
  <2>. QED
    BY <2>1, <1>1, LastNode
<1>3. d \in File /\ kind[d] \in CVisited /\ Above(d, k) /\ ~HasAccess(CppVisit[d], k)
  OBVIOUS
<1>4. \A m \in File : d < m /\ kind[m] \in CVisited /\ Above(m, k) => HasAccess(CppVisit[m], k)
  <2> SUFFICES ASSUME NEW m \in File, d < m, m \in T PROVE FALSE
    OBVIOUS
  <2>1. ~(m <= d)
    BY <1>1, <1>3
  <2> HIDE DEF T
  <2>. QED
    BY <2>1, <1>2
<1> HIDE DEF T
<1>5. CppEntered(d) /\ kind[Up(k)] = "class" /\ kind[d] # "class" /\ kind[d] # "off"
  BY <1>1, <1>3, CDeclarationWay DEF CDeclares, CVisited
<1>6. PICK x \in Kids(d) : /\ x \in File /\ d < x /\ Up(x) = d /\ IsParent(lev, x, d)
                           /\ x = k \/ (Above(x, k) /\ kind[x] \in CWays /\ CppEntered(x))
  BY <1>1, <1>3, CDeclarationWay
<1>7. Above(x, k) /\ kind[x] \in CWays /\ CppEntered(x) /\ x # 1
  BY <1>1, <1>3, <1>5, <1>6
<1>8. HasAccess(CppDecl(CppVisit, x), k)
  <2>1. CASE kind[x] \in {"ns", "cond", "alt"}
    <3>1. HasAccess(CppVisit[x], k)
      BY <2>1, <1>4, <1>6, <1>7 DEF CVisited
    <3>2. CppVisit[x] \subseteq CppDecl(CppVisit, x)
      BY <2>1 DEF CppDecl
    <3>. QED
      BY <3>1, <3>2 DEF HasAccess
  <2>2. CASE kind[x] \in {"off", "tmpl"}
    <3>1. PICK y \in Kids(x) : /\ y \in File /\ x < y /\ Up(y) = x /\ IsParent(lev, y, x)
                               /\ y = k \/ (Above(y, k) /\ kind[y] \in CWays /\ CppEntered(y))
      BY <1>1, <1>7, CDeclarationWay
    <3>2. y # 1 /\ Above(y, k) /\ kind[y] \in CWays /\ CppEntered(y)
      BY <3>1, <2>2, <1>1, <1>5, <1>6
    <3>3. CASE kind[x] = "off"
      <4>1. kind[y] = "alt" /\ y \in Kids(x) \cap Of({"alt"})
        BY <3>1, <3>2, <3>3, CEnteredUp DEF Of
      <4>2. HasAccess(CppVisit[y], k)
        <5>1. d < y
          BY <3>1, <1>1, <1>3, <1>6
        <5>. QED
          BY <4>1, <5>1, <3>1, <3>2, <1>4 DEF CVisited
      <4>3. CppVisit[y] \subseteq CppDecl(CppVisit, x)
        BY <4>1, <3>3 DEF CppDecl
      <4>. QED
        BY <4>2, <4>3 DEF HasAccess
    <3>4. CASE kind[x] = "tmpl"
      <4>1. kind[y] = "class"
        BY <3>1, <3>2, <3>4, <1>1, <1>6 DEF Grammar, Fits, CFits, C
      <4>2. HasAccess(CppClass[y], k)
        BY <4>1, <3>1, <3>2, <1>1, CClassDeclares
      <4>3. CppClass[y] \subseteq CppDecl(CppVisit, x)
        BY <4>1, <3>1, <3>4 DEF CppDecl, CppDefinition
      <4>. QED
        BY <4>2, <4>3 DEF HasAccess
    <3>. QED
      BY <2>2, <3>3, <3>4
  <2>3. CASE kind[x] = "class"
    <3>1. CppDecl(CppVisit, x) = CppClass[x]
      BY <2>3 DEF CppDecl, CppDefinition
    <3>. QED
      BY <2>3, <3>1, <1>1, <1>6, <1>7, CClassDeclares
  <2>4. kind[x] # "file"
    BY <1>6, <1>7 DEF Rooted
  <2>. QED
    BY <2>1, <2>2, <2>3, <2>4, <1>7 DEF CWays, CRegions
<1> DEFINE kept == CppKept(d, UNION {CppDecl(CppVisit, m) : m \in Kids(d)})
<1>9. HasAccess(kept, k)
  <2>1. Up(k) # d
    BY <1>5
  <2>. QED
    BY <2>1, <1>6, <1>8 DEF HasAccess, CppKept
<1>10. CppVisit[d] = {CppVisible(s, kept) : s \in kept} /\ \A s \in kept : Honest(s)
  BY <1>3, <1>5, CRegionHonest, Zenon
<1> HIDE DEF kept
<1>11. PICK r \in kept : /\ r.at = k /\ r.sort = "method" /\ r.qual = QualJoin(CppPath(Up(k)), name[k])
                         /\ r.marks \cap CppAccess # {}
  BY <1>9 DEF HasAccess
<1>12. HasAccess(CppVisit[d], k)
  <2> DEFINE v == CppVisible(r, kept)
  <2>1. v.at = r.at /\ v.sort = r.sort /\ v.qual = r.qual /\ v.marks \cap CppAccess # {}
    BY <1>10, <1>11, CVisibleKeeps
  <2>2. v \in CppVisit[d]
    BY <1>10
  <2> HIDE DEF v
  <2>. QED
    BY <2>1, <2>2, <1>11 DEF HasAccess
<1>. QED
  BY <1>3, <1>12

-----------------------------------------------------------------------------
\* What the walk leaves of a C++ file.
AccessesAgree(symbols) ==
  \A s \in symbols :
    LET access == {CppSection(n) : n \in CppDeclarations(s.qual)} IN
    s.sort = "method" /\ Cardinality(access) = 1 => s.marks \cap CppAccess = access

LEMMA CVisitAgrees ==
  ASSUME Shape, Rooted, Grammar, Names, prof.lang = "cpp"
  PROVE  AccessesAgree(CppVisit[1])
<1>1. /\ IsTree(lev) /\ 1 \in File /\ kind[1] = "file" /\ kind[1] \in CVisited
      /\ \A k \in File : k \in Nat /\ k >= 1
  BY TreeShape DEF Shape, Rooted, File, Nodes, CVisited
<1>2. CppEntered(1)
  BY DEF CppEntered, Way
<1> DEFINE kept == CppKept(1, UNION {CppDecl(CppVisit, m) : m \in Kids(1)})
<1>3. CppVisit[1] = {CppVisible(s, kept) : s \in kept} /\ \A s \in kept : Honest(s)
  BY <1>1, <1>2, CRegionHonest, Zenon
<1> HIDE DEF kept
<1> SUFFICES ASSUME NEW s \in CppVisit[1], s.sort = "method", Cardinality(Accesses(s.qual)) = 1
             PROVE  s.marks \cap CppAccess = Accesses(s.qual)
  BY DEF AccessesAgree, Accesses
<1>4. MethodName(s.qual) /\ s.marks \cap CppAccess \subseteq Accesses(s.qual)
  BY <1>1, <1>2, CVisitHonest DEF Honest
<1>5. PICK v : Accesses(s.qual) = {v}
  <2>1. Accesses(s.qual) \subseteq CppAccess
    BY Sections DEF Accesses
  <2>2. IsFiniteSet(CppAccess)
    <3>1. IsFiniteSet({"public"}) /\ IsFiniteSet({"private"})
      BY FS_Singleton, Zenon
    <3>2. CppAccess = {"public"} \cup {"private"}
      BY DEF CppAccess
    <3>. QED
      BY <3>1, <3>2, FS_Union, Zenon
  <2>3. IsFiniteSet(Accesses(s.qual))
    BY <2>1, <2>2, FS_Subset
  <2>. QED
    BY <2>3, FS_Singleton, Zenon
<1>6. PICK k : k \in CppDeclarations(s.qual)
  BY <1>5 DEF Accesses
<1>7. CDeclares(k) /\ QualJoin(CppPath(Up(k)), name[k]) = s.qual /\ Above(1, k)
  <2>1. k \in File /\ kind[k] \in {"fn", "proto"} /\ k # 1 /\ kind[Up(k)] = "class"
        /\ CppEntered(Up(k)) /\ QualJoin(CppPath(Up(k)), name[k]) = s.qual
    BY <1>1, <1>6 DEF CppDeclarations, Of
  <2>. QED
    BY <2>1, <1>1, RootSubtree DEF CDeclares, Above, File
<1>8. HasAccess(CppVisit[1], k)
  BY <1>1, <1>4, <1>7, CVisitDeclares
<1>9. PICK r \in CppVisit[1] : r.sort = "method" /\ r.qual = s.qual /\ r.marks \cap CppAccess # {}
  BY <1>7, <1>8 DEF HasAccess
<1>10. PICK r0 \in kept : r = CppVisible(r0, kept)
  BY <1>3, <1>9
<1>11. PICK s0 \in kept : s = CppVisible(s0, kept)
  BY <1>3
\* Either r had its access in the region's own symbols, or it has the one of
\* another of them.
<1>12. PICK d \in kept : d.sort = "method" /\ d.qual = r.qual /\ d.marks \cap CppAccess # {}
  <2>1. \/ r = r0 /\ CppDeclared(r0, kept) = {}
        \/ /\ r.qual = r0.qual
           /\ \E d \in CppDeclared(r0, kept) : r.marks \cap CppAccess = d.marks \cap CppAccess
    BY <1>3, <1>10, CVisibleIs
  <2>. QED
    BY <2>1, <1>9, <1>10 DEF CppDeclared
<1>13. s.qual = s0.qual
  <2>1. \/ s = s0
        \/ s.qual = s0.qual
    BY <1>3, <1>11, CVisibleIs
  <2>. QED
    BY <2>1
<1>14. s.marks \cap CppAccess # {}
  BY <1>3, <1>9, <1>11, <1>12, <1>13, CVisibleKeeps
<1>. QED
  BY <1>4, <1>5, <1>14

LEMMA SameAccesses ==
  ASSUME UNCHANGED fileVars
  PROVE  \A q : Accesses(q)' = Accesses(q)
<1>1. prof' = prof /\ lev' = lev /\ kind' = kind /\ name' = name
  BY DEF fileVars
<1>2. File' = File /\ \A K : Of(K)' = Of(K)
  BY SameFile
<1>3. \A n : Up(n)' = Up(n)
  BY <1>1, <1>2 DEF Up
<1>4. \A n : CppEntered(n)' <=> CppEntered(n)
  BY <1>1, <1>3 DEF CppEntered, Way
<1>5. CppOwner' = CppOwner
  BY <1>1, <1>2, <1>3, Zenon DEF CppOwner, QualJoin
<1>6. \A n : CppPath(n)' = CppPath(n)
  BY <1>1, <1>5 DEF CppPath, QualJoin
<1>7. ASSUME NEW n PROVE CppSection(n)' = CppSection(n)
  <2> DEFINE before == {a \in Of({"access"}) : a < n /\ Up(a) = Up(n)}
             last == CHOOSE a \in before : \A b \in before : b <= a
  <2>1. before' = before
    BY <1>2, <1>3
  <2>2. last' = last
    BY <2>1, Zenon
  <2>3. CppSection(n) = IF before = {} THEN "private" ELSE name[last]
    BY DEF CppSection
  <2>4. CppSection(n)' = (IF before = {} THEN "private" ELSE name[last])'
    BY DEF CppSection
  <2> HIDE DEF before, last
  <2>. QED
    BY <2>1, <2>2, <2>3, <2>4, <1>1
<1>8. \A q : CppDeclarations(q)' = CppDeclarations(q)
  BY <1>1, <1>2, <1>3, <1>4, <1>6 DEF CppDeclarations, QualJoin
<1>. QED
  BY <1>7, <1>8 DEF Accesses

\* A step that finishes a C++ file is the walk's.
LEMMA CppFinishes ==
  ASSUME Next, prof.lang = "cpp", pass' = "done"
  PROVE  Pass("parse", "done", CppVisit[1])
<1>1. CppNext
  BY DEF Next, CsNext, GoNext, JavaNext, JsNext, KotlinNext, ObjcNext, PhpNext, PyNext, RustNext, SwiftNext,
         CsFile, GoFile, JavaFile, JsFile, KtFile, ObjcFile, PhpFile, PyFile, RustFile, SwiftFile,
         ExtractCSharpNodes, GoExtract, JavaVisitFile, JavaReattachOrphans, JsVisit, JsLocalFunctions,
         JsDedupe, JsExports, ExtractKotlinNodes, ExtractObjCNodes, ObjcBlockTypedefs, ObjcMacroEnums,
         ExtractPHPNodes, PyVisit, PyModuleAssignments, PyTopLevel, RustVisitFile, RustImplTraits,
         SwiftVisitFile, SwiftConformances
<1>2. ~CppFile
  BY DEF CppFile, Grow
<1>. QED
  BY <1>1, <1>2 DEF CppNext, ExtractCNodes

\* For every C++ file of every size: where the declarations of a method
\* agree on its access, all its symbols have that access (AccessAsDeclared).
THEOREM AccessesKept == Spec => []AccessAsDeclared
<1> DEFINE Inv == IInv /\ Names
           Agree == Done("cpp") => AccessesAgree(out)
<1>1. Init => Agree
  BY Zenon DEF Init, Done
<1>2. Inv /\ Agree /\ [Next]_vars => Agree'
  <2> SUFFICES ASSUME Inv, Agree, [Next]_vars, Done("cpp")' PROVE AccessesAgree(out)'
    OBVIOUS
  <2>1. pass' = "done" /\ prof'.lang = "cpp"
    BY DEF Done
  <2>2. CASE pass' = pass /\ UNCHANGED fileVars /\ out' = out
    <3>1. Done("cpp")
      BY <2>1, <2>2 DEF Done, fileVars
    <3>2. AccessesAgree(out)
      BY <3>1
    <3>3. \A q : Accesses(q)' = Accesses(q)
      BY <2>2, SameAccesses
    <3>. QED
      BY <2>2, <3>2, <3>3, Zenon DEF AccessesAgree, Accesses
  <2>3. CASE Next
    <3>1. prof' = prof
      BY <2>3, ParsesOrPasses DEF Grow, fileVars
    <3>2. Pass("parse", "done", CppVisit[1])
      BY <2>1, <2>3, <3>1, CppFinishes
    <3>3. UNCHANGED fileVars /\ out' = CppVisit[1]
      BY <3>2 DEF Pass
    <3>4. AccessesAgree(CppVisit[1])
      BY <2>1, <3>1, CVisitAgrees DEF IInv, OuterShape, GivenLanguages, OuterBodyLanguages
    <3>5. \A q : Accesses(q)' = Accesses(q)
      BY <3>3, SameAccesses
    <3>. QED
      BY <3>3, <3>4, <3>5, Zenon DEF AccessesAgree, Accesses
  <2>. QED
    BY <2>2, <2>3 DEF vars, fileVars
<1>3. Agree => AccessAsDeclared
  BY DEF AccessesAgree, AccessAsDeclared
<1>. QED
  BY <1>1, <1>2, <1>3, Inductive, NamesInvariant, PTL DEF Spec
=============================================================================
