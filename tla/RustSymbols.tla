----------------------------- MODULE RustSymbols -----------------------------
(***************************************************************************)
(* The symbols of a Rust file (extractRustNodes) and the calls each is     *)
(* given (rustCallSites).                                                  *)
(*                                                                         *)
(* Node types: "fn" and "sig" (with and without a body), "mod", "trait"    *)
(* (and macro_rules), "impl", "implpath" (of a type with a path, a::x),    *)
(* "implfor" (of a trait for a type), "struct" (with unions and enums)     *)
(* and its "field"s and variants, "const" (const, static, type and         *)
(* associated type), "macro" (an invocation with a brace body), "block"    *)
(* (a nested block of a function body), "call" and "here", a call on the   *)
(* line of the node before it.  Every other node starts a line.            *)
(***************************************************************************)
EXTENDS Extraction

RustImpls == {"impl", "implpath", "implfor"}
RustItems == {"fn", "mod", "trait", "struct", "const", "macro"} \cup RustImpls
RustCalls == {"call", "here"}

\* The innermost node around n, itself included, that is not a macro.
RustHost(n) ==
  CHOOSE p \in File : /\ InSubtree(lev, p, n) /\ kind[p] # "macro"
                      /\ \A m \in Way(p, n) : kind[m] = "macro"

\* The text of a macro outside functions is read as that of a file, whatever
\* the macro stands in.
RustUnder(p) ==
  LET host == kind[RustHost(p)] IN
  CASE kind[p] = "macro" /\ host \in {"fn", "block"} -> RustCalls \cup {"macro"}
    [] kind[p] = "macro" /\ host \notin {"fn", "block"} -> RustItems \cup {"sig"}
    [] host \in {"file", "mod"} -> RustItems
    [] host = "trait" -> {"fn", "sig", "const", "macro"}
    [] host \in RustImpls -> {"fn", "const", "macro"}
    [] kind[p] # "macro" /\ host \in {"fn", "block"} -> RustItems \cup RustCalls \cup {"block"}
    [] host = "struct" -> {"field"}
    [] host \in RustCalls \cup {"const"} -> RustCalls
    [] OTHER -> {}

RustFile ==
  /\ prof.lang = "rust"
  /\ \E l \in Levels : \E k \in RustUnder(Open(l)) : Grow(l, k)

-----------------------------------------------------------------------------
(* Calls: a site has a line, and the spans of functions are lines.         *)

RustLine(n) == Cardinality({m \in File : m <= n /\ kind[m] # "here"})

\* A call in a macro's text is reported on the line of the macro.
RustSiteLine(n, c) ==
  LET macros == Way(n, c) \cap Of({"macro"})
  IN  RustLine(IF macros = {} THEN c ELSE CHOOSE m \in macros : \A k \in macros : m <= k)

SharesLine(f, line) == line >= RustLine(f) /\ \E m \in Subtree(lev, f) : line <= RustLine(m)

\* rustCallSites: the calls and macro invocations of the tree and the call
\* shapes in macro texts, less those on a line of a nested function.
RustSites(n) ==
  CollectCallSites(n, Of(RustCalls), {})
    \cup {m \in Of({"macro"}) \cap Under(n) : Way(n, Up(m)) \cap Of({"macro"}) = {}}

\* The functions of n's tree below n: the text of a macro has none.
RustNested(n) == {f \in Under(n) \cap Of({"fn"}) : Way(n, f) \cap Of({"macro"}) = {}}

\* Fault: the calls on the lines of a nested function are kept too.
RustCallSitesAll(n) == RustSites(n)

RustCallSites(n) ==
  {c \in RustSites(n) : \A f \in RustNested(n) : ~SharesLine(f, RustSiteLine(n, c))}

-----------------------------------------------------------------------------
(* Names are pairs <<name, 0>>, types written with a path <<name, 1>>.     *)

RustName(n) == <<name[n], IF kind[n] = "implpath" THEN 1 ELSE 0>>

\* rustImplBaseName
RustBase(segment) == <<segment[1], 0>>

\* implType while rustVisit is in the body of n.
RustType[n \in File] ==
  IF kind[n] \in RustImpls \cup {"trait"} THEN <<RustName(n)>>
  ELSE IF kind[n] \in {"mod", "macro"} THEN RustType[Up(n)]
  ELSE << >>

RustSym(n, sort, parent, calls) == Sym(n, sort, <<RustName(n)>>, parent, calls, {})

RustFn(n, type) ==
  RustSym(n, IF type = << >> THEN "function" ELSE IF name[n] = "new" THEN "constructor" ELSE "method",
          type, RustCallSites(n))

RustStruct(n) ==
  {RustSym(n, "struct", << >>, {})}
    \cup {RustSym(f, "field", <<RustName(n)>>, {}) : f \in Kids(n)}

\* rustScopeQualify: a member whose qualified name is still its own name
\* keeps its owner in the path.
RustScopeQualify(scope, s) ==
  IF s.parent # << >> /\ Len(s.qual) = 1
  THEN scope \o <<RustBase(s.parent[1])>> \o s.qual
  ELSE scope \o s.qual

RustScoped(n, scope, parented, s) ==
  Sym(s.at, s.sort, RustScopeQualify(scope, s),
      IF s.parent = << >> /\ s.sort \in parented THEN <<RustName(n)>> ELSE s.parent,
      s.calls, s.marks)

RustSorts == {"function", "method", "constructor", "struct", "trait", "field", "const", "module"}

\* rustMacroItems reads a brace body unless it stands in a function.
RustRead(n) == \A p \in File : InSubtree(lev, p, n) => kind[p] \notin {"fn", "block"}

\* rustVisit: the symbols of the items in the body of n.
RustVisit[n \in File] ==
  LET type == RustType[n]
      Item(k) ==
        CASE kind[k] = "fn" ->
               {RustFn(k, type)} \cup {RustScoped(k, type \o <<RustName(k)>>, RustSorts, s) : s \in RustVisit[k]}
          [] kind[k] = "mod" ->
               {RustSym(k, "module", << >>, {})}
                 \cup {RustScoped(k, <<RustName(k)>>, {"function", "module"}, s) : s \in RustVisit[k]}
          [] kind[k] = "trait" -> {RustSym(k, "trait", << >>, {})} \cup RustVisit[k]
          [] kind[k] \in RustImpls -> RustVisit[k]
          [] kind[k] = "macro" -> IF RustRead(k) THEN RustVisit[k] ELSE {}
          [] kind[k] = "struct" -> RustStruct(k)
          [] kind[k] = "const" -> {RustSym(k, "const", type, {})}
          [] kind[k] = "sig" /\ type # << >> -> {RustSym(k, "method", type, {})}
          [] OTHER -> {}
  IN  UNION {Item(k) : k \in Kids(n)}

RustVisitFile == /\ prof.lang = "rust"
                 /\ Pass("parse", "impls", RustVisit[1])

\* rustImplTraits: types of the names that impls of traits are for; macro
\* texts are not walked.
RustImplNames ==
  {name[n] : n \in {n \in Of({"implfor"}) : Way(1, n) \cap Of({"macro"}) = {}}}

RustImplTraits ==
  /\ prof.lang = "rust"
  /\ Pass("impls", "done",
          {IF s.sort = "struct" /\ name[s.at] \in RustImplNames
           THEN Sym(s.at, s.sort, s.qual, s.parent, s.calls, {"implements"}) ELSE s : s \in out})

RustNext == RustFile \/ RustVisitFile \/ RustImplTraits
=============================================================================
