----------------------------- MODULE ObjcSymbols -----------------------------
(***************************************************************************)
(* The symbols of an Objective-C file (extractObjCNodes): those of C that  *)
(* module CppSymbols has, the containers and their members, and two        *)
(* passes for what the grammar misreads.                                   *)
(*                                                                         *)
(* Further node types: "iface", "category", "protocol" and "impl" with     *)
(* "prop", "ivar", "decl" (a method without a body) and "def"; "blocktype" *)
(* (a typedef of a block); "menum", an enum declared by a macro such as    *)
(* NS_ENUM, with its "item"s, which the C walk reads as a typedef of the   *)
(* first item.  Typedefs start lines of their own.                         *)
(***************************************************************************)
EXTENDS CppSymbols

ObjcContainers == {"iface", "category", "protocol", "impl"}
ObjcDecls ==
  {"fn", "proto", "var", "typedef", "cond", "off", "blocktype", "menum"} \cup ObjcContainers

ObjcUnder(p) ==
  LET more == ~\E m \in Kids(p) : kind[m] = "alt"
  IN  CASE kind[p] \in {"file", "alt"} -> ObjcDecls
        [] kind[p] \in {"cond", "off"} /\ more -> ObjcDecls \cup {"alt"}
        [] kind[p] = "iface" -> {"ivar", "prop", "decl"}
        [] kind[p] \in {"category", "protocol"} -> {"prop", "decl"}
        [] kind[p] = "impl" -> {"ivar", "def", "fn"}
        [] kind[p] \in {"def", "fn", "call"} -> {"call"}
        [] kind[p] = "menum" -> {"item"}
        [] OTHER -> {}

ObjcFile ==
  /\ prof.lang = "objc"
  /\ \E l \in Levels : \E k \in ObjcUnder(Open(l)) : Grow(l, k)

-----------------------------------------------------------------------------

\* Plain symbols are named after themselves.
ObjcSym(n, sort, parent, calls) == Sym(n, sort, <<name[n]>>, parent, calls, {})

ObjcCallSites(n) == CollectCallSites(n, Of({"call"}), {})

ObjcMembers(c) ==
  LET of == <<name[c]>> IN
  {ObjcSym(m, "field", of, {}) : m \in Kids(c) \cap Of({"prop", "ivar"})}
    \cup {ObjcSym(m, "method", of, ObjcCallSites(m)) : m \in Kids(c) \cap Of({"decl", "def"})}

\* objcContainers: categories and implementations declare no type.
ObjcContainer(c) ==
  ObjcMembers(c) \cup
    (IF kind[c] \in {"iface", "protocol"} THEN {ObjcSym(c, "class", << >>, {})} ELSE {})

\* Containers and macro enums outside disabled branches.
ObjcEntered(kinds) == {n \in Of(kinds) : CppEntered(n)}

\* What the C walk makes of a macro enum.
ObjcMisread(e) == {ObjcSym(i, "type", << >>, {}) : i \in Kids(e) \cap {FirstKid(e)}}

ExtractObjCNodes ==
  /\ prof.lang = "objc"
  /\ Pass("parse", "blocks",
          CppVisit[1] \cup (UNION {ObjcMisread(e) : e \in ObjcEntered({"menum"})})
                     \cup UNION {ObjcContainer(c) : c \in ObjcEntered(ObjcContainers)})

\* objcBlockTypedefs: the whole tree, disabled branches too.
ObjcBlockTypedefs ==
  /\ prof.lang = "objc"
  /\ Pass("blocks", "enums", out \cup {ObjcSym(n, "type", << >>, {}) : n \in Of({"blocktype"})})

\* The last macro enum with an item of that name.
ObjcEnumOf(nm) ==
  LET enums == {e \in ObjcEntered({"menum"}) : \E i \in Kids(e) : name[i] = nm}
  IN  {e \in enums : \A f \in enums : f <= e}

\* objcMacroEnums: drops the type named after an item of an enum in whose
\* lines it stands, and adds the enums and their items.
ObjcMacroEnums ==
  /\ prof.lang = "objc"
  /\ Pass("enums", "done",
          {s \in out : ~(s.sort = "type" /\ \E e \in ObjcEnumOf(name[s.at]) : s.at \in Under(e))}
            \cup {ObjcSym(e, "enum", << >>, {}) : e \in ObjcEntered({"menum"})}
            \cup UNION {{ObjcSym(i, "const", <<name[e]>>, {}) : i \in Kids(e)} : e \in ObjcEntered({"menum"})})

ObjcNext == ObjcFile \/ ExtractObjCNodes \/ ObjcBlockTypedefs \/ ObjcMacroEnums
=============================================================================
