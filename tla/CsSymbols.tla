------------------------------ MODULE CsSymbols ------------------------------
(***************************************************************************)
(* The symbols of a C# file (extractCSharpNodes) and the calls each is     *)
(* given (csCallSites).                                                    *)
(*                                                                         *)
(* Node types: "ns" and "fns" (a namespace for the rest of the file),      *)
(* "type" (class, struct, or record with "param"s), "enum" with            *)
(* "constant"s, "iface", "cond" (a conditional region), "method" (and      *)
(* operators, finalizers), "ctor", "prop", "event" (with accessors),       *)
(* "field" (and event fields, indexers, delegates), "stmt" (a global       *)
(* statement), "local" (a local function), "block" and "call"; and the     *)
(* "initializer" of a constructor, the call of another constructor, named  *)
(* "spaced" when it is written ": base" or ": this" and "tight" otherwise. *)
(***************************************************************************)
EXTENDS Extraction

CsTypes == {"type", "enum", "iface"}
CsBodied == {"method", "ctor", "prop", "event"}
CsMembers == CsBodied \cup CsTypes \cup {"field", "cond"}

CsUnder(p) ==
  LET inType == \E m \in Of(CsTypes) : p \in Under(m)
      inNs == \E m \in Of({"ns", "fns"}) : p \in Under(m)
  IN  CASE kind[p] = "file" -> CsTypes \cup {"ns", "fns", "stmt", "cond"}
        [] kind[p] \in {"ns", "fns"} -> CsTypes \cup {"cond"}
        [] kind[p] = "cond" -> IF inType THEN CsMembers
                               ELSE CsTypes \cup {"cond"} \cup (IF inNs THEN {} ELSE {"stmt"})
        [] kind[p] = "type" -> CsMembers \cup (IF Kids(p) \subseteq Of({"param"}) THEN {"param"} ELSE {})
        [] kind[p] = "enum" -> {"constant"}
        [] kind[p] = "iface" -> CsMembers \ {"ctor"}
        [] kind[p] = "stmt" -> IF Kids(p) = {} THEN {"local", "block", "call"} ELSE {}
        [] kind[p] = "ctor" -> {"local", "call"} \cup (IF Kids(p) = {} THEN {"initializer"} ELSE {})
        [] kind[p] \in {"method", "local", "block"} -> {"local", "call"}
        [] kind[p] \in {"prop", "event", "field", "call", "initializer"} -> {"call"}
        [] OTHER -> {}

CsFile ==
  /\ prof.lang = "csharp"
  /\ \E l \in Levels : \E k \in CsUnder(Open(l)) : Grow(l, k)

-----------------------------------------------------------------------------

\* parentClass in the body of n.
CsClass[n \in File] ==
  IF kind[n] \in {"file", "ns"} THEN << >>
  ELSE IF kind[n] \in CsTypes THEN QualJoin(CsClass[Up(n)], name[n])
  ELSE CsClass[Up(n)]

\* parentInterface: conditional regions hand it down.
CsInterface[n \in File] ==
  \/ kind[n] = "iface"
  \/ kind[n] = "cond" /\ CsInterface[Up(n)]

\* csCallSites walks the whole declaration.
CsCallSites(n) == CollectCallSites(n, Of({"call"}), {})

\* csConstructorInitializerSites: without a blank the text has no prefix the
\* code knows.
CsConstructorInitializerSites(n) ==
  {c \in Kids(n) : kind[c] = "initializer" /\ name[c] = "spaced"}

CsMethodSites(n) ==
  CsCallSites(n) \cup (IF kind[n] = "ctor" THEN CsConstructorInitializerSites(n) ELSE {})

CsMethod(n, class) ==
  MemberOf(n, IF class = << >> THEN "function" ELSE IF kind[n] = "ctor" THEN "constructor" ELSE "method",
           class, CsMethodSites(n), {})

CsEmit(n) ==
  LET class == CsClass[Up(n)] IN
  CASE kind[n] = "ns" -> {Sym(n, "namespace", <<name[n]>>, << >>, {}, {})}
    [] kind[n] \in CsTypes -> {MemberOf(n, "class", class, {}, {})}
    [] kind[n] \in {"method", "ctor", "local"} -> {CsMethod(n, class)}
    [] kind[n] = "prop" ->
         {MemberOf(n, IF CsInterface[Up(n)] THEN "method" ELSE "field", class, CsCallSites(n), {})}
    [] kind[n] = "event" -> {MemberOf(n, "field", class, CsCallSites(n), {})}
    [] kind[n] \in {"field", "param"} -> {MemberOf(n, "field", class, {}, {})}
    [] kind[n] = "constant" -> {MemberOf(n, "const", class, {}, {})}
    [] OTHER -> {}

CsVisited(n) ==
  n > 1 /\ \A m \in Way(1, Up(n)) : kind[m] \in {"ns", "fns", "cond", "stmt"} \cup CsTypes

CsTopLevelStatements ==
  {n \in Kids(1) \cap Of({"stmt"}) : Kids(n) \cap Of({"local"}) = {}}

CsTopLevel ==
  IF CsTopLevelStatements = {} THEN {}
  ELSE {Sym(1, "function", <<"">>, << >>, UNION {CsCallSites(n) : n \in CsTopLevelStatements}, {})}

ExtractCSharpNodes ==
  /\ prof.lang = "csharp"
  /\ Pass("parse", "done", CsTopLevel \cup UNION {CsEmit(n) : n \in {n \in File : CsVisited(n)}})

CsNext == CsFile \/ ExtractCSharpNodes
=============================================================================
