------------------------------ MODULE GoSymbols ------------------------------
(***************************************************************************)
(* The symbols of a Go file (extractGoNodes) and the call sites and        *)
(* references each is given (goCallSites).                                 *)
(*                                                                         *)
(* Node types: "func"; "method" with its "recv" first; "types", "consts"   *)
(* and "vars", the declarations, with "struct", "iface", "alias" and       *)
(* "spec"s, for vars also in a "list"; "field" and "spec" with one "id"    *)
(* per name, "embed", "elem" (a method of an interface).  A receiver is a  *)
(* "tid" (type name) under any "ptr" and "generic", whose "targs" hold     *)
(* the type arguments.  In bodies "call", whose first child is the         *)
(* function: "ident", "sel" (x.f), "call" or "lit" (a function literal).   *)
(***************************************************************************)
EXTENDS Extraction

GoExpr == {"ident", "sel", "call", "lit"}
GoNone(p, kinds) == IF Kids(p) = {} THEN kinds ELSE {}

GoUnder(p) ==
  CASE kind[p] = "file" -> {"func", "method", "types", "consts", "vars"}
    [] kind[p] = "method" -> IF Kids(p) = {} THEN {"recv"} ELSE {"call", "sel"}
    [] kind[p] \in {"func", "lit"} -> {"call", "sel"}
    [] kind[p] \in {"recv", "ptr"} -> GoNone(p, {"tid", "ptr", "generic"})
    [] kind[p] = "generic" -> IF Kids(p) = {} THEN {"tid"} ELSE IF Cardinality(Kids(p)) = 1 THEN {"targs"} ELSE {}
    [] kind[p] = "targs" -> {"tid"}
    [] kind[p] = "types" -> {"struct", "iface", "alias"}
    [] kind[p] = "struct" -> {"field"}
    [] kind[p] = "iface" -> {"elem", "embed"}
    [] kind[p] = "consts" -> {"spec"}
    [] kind[p] = "vars" -> {"spec"} \cup GoNone(p, {"list"})
    [] kind[p] = "list" -> {"spec"}
    [] kind[p] = "field" -> {"id"}
    [] kind[p] = "spec" -> IF Kids(p) \subseteq Of({"id"}) THEN {"id", "call", "lit"} ELSE {"call", "lit"}
    [] kind[p] = "call" -> GoExpr
    [] kind[p] = "sel" -> GoNone(p, GoExpr \ {"lit"})
    [] OTHER -> {}

GoFile ==
  /\ prof.lang = "go"
  /\ \E l \in Levels : \E k \in GoUnder(Open(l)) : Grow(l, k)

GoWhole ==
  \A n \in Of({"method", "recv", "ptr", "generic", "call", "sel"}) : Kids(n) # {}

\* The type names in a method's receiver, arguments of a generic one too.
GoReceiverNames(n) == {t \in Of({"tid"}) : InSubtree(lev, n, t)}

\* goReceiverNamedType: the first type name in document order.
GoReceiver(n) ==
  LET names == GoReceiverNames(n) IN
  IF names = {} THEN << >> ELSE <<name[CHOOSE t \in names : \A u \in names : t <= u]>>

IsCalled(s) == kind[Up(s)] = "call" /\ IsFirstKid(s)

\* Fault: a selector is a reference even where it is called.
GoCallSitesTwice(n) ==
  {c \in CollectCallSites(n, Of({"call"}), {}) : kind[FirstKid(c)] \in {"ident", "sel"}}
    \cup CollectCallSites(n, Of({"sel"}), {})

\* goCallSites: every call whose function has a name, function literals
\* included, and every selector that is not called.
GoCallSites(n) ==
  {c \in CollectCallSites(n, Of({"call"}), {}) : kind[FirstKid(c)] \in {"ident", "sel"}}
    \cup {s \in CollectCallSites(n, Of({"sel"}), {}) : ~IsCalled(s)}

GoFuncSym(n) == MemberOf(n, "function", << >>, GoCallSites(n), {})
GoMethodSym(n) == Sym(n, "method", <<name[n]>>, GoReceiver(n), GoCallSites(n), {})

GoMember(n, sort, parent, marks) == Sym(n, sort, <<name[n]>>, <<name[parent]>>, {}, marks)

GoStructFields(t) ==
  {GoMember(i, "field", t, {}) : i \in {i \in Of({"id"}) : Up(Up(i)) = t}}

GoInterfaceMethods(t) ==
  {GoMember(m, "method", t, {"declaration"}) : m \in Kids(t) \cap Of({"elem"})}

GoTypeDecl(n) ==
  UNION {{MemberOf(t, kind[t], << >>, {}, {})}
           \cup (IF kind[t] = "struct" THEN GoStructFields(t) ELSE {})
           \cup (IF kind[t] = "iface" THEN GoInterfaceMethods(t) ELSE {}) : t \in Kids(n)}

\* goSpecNames of every spec, in a var_spec_list or not.
GoSpecDecl(n, sort) ==
  {MemberOf(i, sort, << >>, {}, {}) : i \in Under(n) \cap Of({"id"})}

ExtractGoNodes(n) ==
  CASE kind[n] = "func" -> {GoFuncSym(n)}
    [] kind[n] = "method" -> {GoMethodSym(n)}
    [] kind[n] = "types" -> GoTypeDecl(n)
    [] kind[n] = "consts" -> GoSpecDecl(n, "const")
    [] kind[n] = "vars" -> GoSpecDecl(n, "variable")

GoExtract ==
  /\ prof.lang = "go" /\ GoWhole
  /\ Pass("parse", "done", UNION {ExtractGoNodes(n) : n \in Kids(1)})

GoNext == GoFile \/ GoExtract
=============================================================================
