------------------------------ MODULE PhpSymbols ------------------------------
(***************************************************************************)
(* The symbols of a PHP file (extractPHPNodes) and the calls each is given *)
(* (phpCallSites).                                                         *)
(*                                                                         *)
(* Node types: "class" (class, interface or trait), "enum" and "unclosed", *)
(* an enum whose body the grammar ends at its first constant: its other    *)
(* members follow it as siblings up to a "close", the error node with the  *)
(* brace.  "anon" is an object creation with a class body; "method" with   *)
(* "promoted" parameters for a constructor, "prop", "const", "case", "fn", *)
(* "define" (a statement define('x', ..)), "call", and "stmt" for whatever *)
(* else has statements in it.                                              *)
(***************************************************************************)
EXTENDS Extraction

PhpStatements == {"class", "enum", "unclosed", "fn", "const", "define", "stmt", "anon", "call"}
PhpClasses == {"class", "enum", "unclosed", "anon"}

\* The siblings m of one parent that stand in the unclosed enum e's body.
PhpSpilled(e, m) ==
  /\ e < m /\ Up(e) = Up(m) /\ kind[e] = "unclosed"
  /\ \A c \in Of({"close"}) : ~(e < c /\ c < m /\ Up(c) = Up(e))

PhpUnder(p) ==
  LET last == CHOOSE k \in Kids(p) : \A m \in Kids(p) : m <= k
      spill == Kids(p) # {} /\ (kind[last] = "unclosed" \/ \E e \in Kids(p) : PhpSpilled(e, last) /\ kind[last] # "close")
  IN  CASE kind[p] \in {"file", "stmt"} /\ spill -> {"fn", "case", "const", "close"}
        [] kind[p] \in {"file", "stmt"} /\ ~spill -> PhpStatements
        [] kind[p] = "class" -> {"method", "prop", "const"}
        [] kind[p] \in {"enum", "unclosed"} -> {"method", "case"}
        [] kind[p] = "anon" -> {"method", "prop", "const"}
        [] kind[p] = "method" -> {"call", "anon", "fn"} \cup (IF name[p] = "new" THEN {"promoted"} ELSE {})
        [] kind[p] = "fn" -> {"call", "anon", "fn"}
        [] kind[p] = "call" -> {"call"}
        [] OTHER -> {}

PhpFile ==
  /\ prof.lang = "php"
  /\ \E l \in Levels : \E k \in PhpUnder(Open(l)) : Grow(l, k)

\* Every enum that is cut short has its closing brace.
PhpWhole ==
  \A e \in Of({"unclosed"}) : \E c \in Of({"close"}) : e < c /\ Up(c) = Up(e)

-----------------------------------------------------------------------------
(* A class is a path of at most one name; that of an anonymous class is    *)
(* its line.                                                               *)

PhpClassName(n) == <<name[n], IF kind[n] = "anon" THEN n ELSE 0>>

\* spillEnum when the loop of phpVisit is at n.
PhpSpillOf(n) == {e \in Kids(Up(n)) : PhpSpilled(e, n)}

\* parentClass at the node n.
PhpClass[n \in File] ==
  IF n = 1 THEN << >>
  ELSE LET p == Up(n) IN
       IF PhpSpillOf(n) # {} THEN <<PhpClassName(CHOOSE e \in PhpSpillOf(n) : TRUE)>>
       ELSE IF kind[p] \in PhpClasses THEN <<PhpClassName(p)>>
       ELSE PhpClass[p]

PhpSym(n, sort, parent, calls) == Sym(n, sort, <<<<name[n], 0>>>>, parent, calls, {})

\* A "call" is also what phpIterationSites finds, by the same walk: a foreach
\* or an unpacking over a receiver that has a name, which calls its iterator.
PhpCallSites(n) == CollectCallSites(n, Of({"call"}), {})

PhpFunc(n, class) ==
  PhpSym(n, IF class = << >> THEN "function" ELSE IF name[n] = "new" THEN "constructor" ELSE "method",
         class, PhpCallSites(n))

PhpEmit(n) ==
  LET class == PhpClass[n] IN
  CASE kind[n] \in PhpClasses -> {Sym(n, "class", <<PhpClassName(n)>>, << >>, {}, {})}
    [] kind[n] = "fn" -> {PhpFunc(n, class)}
    [] kind[n] = "method" ->
         {PhpFunc(n, class)} \cup {PhpSym(p, "field", class, {}) : p \in Kids(n) \cap Of({"promoted"})}
    [] kind[n] = "prop" -> {PhpSym(n, "field", class, {})}
    [] kind[n] \in {"const", "case"} -> {PhpSym(n, "const", class, {})}
    [] kind[n] = "define" -> {PhpSym(n, "const", << >>, {})}
    [] OTHER -> {}

\* phpVisit stops at functions and methods.
PhpVisited(n) == Way(1, n) \cap Of({"fn", "method"}) \subseteq {n}

ExtractPHPNodes ==
  /\ prof.lang = "php" /\ PhpWhole
  /\ Pass("parse", "done", UNION {PhpEmit(n) : n \in {n \in File : n > 1 /\ PhpVisited(n)}})

PhpNext == PhpFile \/ ExtractPHPNodes
=============================================================================
