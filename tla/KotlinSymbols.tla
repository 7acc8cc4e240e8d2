---------------------------- MODULE KotlinSymbols ----------------------------
(***************************************************************************)
(* The symbols of a Kotlin file (extractKotlinNodes) and the calls each is *)
(* given (sharedNavCallSites).                                             *)
(*                                                                         *)
(* Node types: "class" with a "primary" constructor of "param"s (those     *)
(* with val or var) and "secondary" ones, "iface", "enum" with "entry"s,   *)
(* "object", "companion", "objexp" (an object expression), "fn" with the   *)
(* "default" of a parameter, "val" (a property) with its "getter" (or      *)
(* setter), "init", "alias", "call", and "error", the node around the      *)
(* members of a class body on one line.                                    *)
(***************************************************************************)
EXTENDS Extraction

KtTypes == {"class", "iface", "enum", "object"}
KtMembers == KtTypes \cup {"fn", "val", "alias"}
KtCode == {"call", "objexp"}

KtUnder(p) ==
  CASE kind[p] = "file" -> KtMembers
    [] kind[p] = "class" ->
         KtMembers \cup {"companion", "secondary", "init", "error"}
           \cup IF Kids(p) = {} THEN {"primary"} ELSE {}
    [] kind[p] = "enum" ->
         KtMembers \cup {"companion", "entry"} \cup IF Kids(p) = {} THEN {"primary"} ELSE {}
    [] kind[p] = "iface" -> KtMembers \cup {"companion"}
    [] kind[p] \in {"object", "companion"} -> KtMembers \cup {"init", "error"}
    [] kind[p] = "error" -> {"fn", "val"}
    [] kind[p] = "objexp" -> {"fn", "val", "init"}
    [] kind[p] = "primary" -> {"param", "call"}
    [] kind[p] = "fn" -> KtCode \cup {"fn", "class"} \cup (IF Kids(p) = {} THEN {"default"} ELSE {})
    [] kind[p] = "val" -> KtCode \cup {"getter"}
    [] kind[p] \in {"init", "secondary", "getter", "default", "param", "entry", "call"} -> KtCode
    [] OTHER -> {}

KtFile ==
  /\ prof.lang = "kotlin"
  /\ \E l \in Levels : \E k \in KtUnder(Open(l)) : Grow(l, k)

-----------------------------------------------------------------------------

\* implType in the body of n: a companion's members are the class's.
KtType[n \in File] ==
  IF n = 1 THEN << >>
  ELSE IF kind[n] \in KtTypes THEN QualJoin(KtType[Up(n)], name[n])
  ELSE KtType[Up(n)]

\* sharedNavCallSites enters everything below the body.
KtCallSites(n) == CollectCallSites(n, Of({"call"}), Of({"default"}) \cap Kids(n))

\* kotlinPrimaryConstructorSites: what kotlinc compiles into a constructor.
KtInitializers(n) ==
  {m \in Kids(n) : \/ kind[m] \in {"primary", "init"}
                   \/ kind[m] = "val" /\ Kids(m) \cap Of({"getter"}) = {}}

\* The primary constructor, or an implicit one where none is declared.
KtHasConstructor(n) ==
  kind[n] = "class" /\ (Kids(n) \cap Of({"secondary"}) = {} \/ Kids(n) \cap Of({"primary"}) # {})

KtPrimaryConstructor(n, type) ==
  IF KtHasConstructor(n)
  THEN {Sym(n, "constructor", QualJoin(type, name[n]), <<name[n]>>,
            UNION {KtCallSites(m) : m \in KtInitializers(n)}, {})}
  ELSE {}

\* A member other than a type is qualified by its consumer.
KtMember(n, sort, type, calls) == Sym(n, sort, <<name[n]>>, QualLast(type), calls, {})

KtEmit(n) ==
  LET type == KtType[Up(n)] IN
  CASE kind[n] \in KtTypes -> {MemberOf(n, "class", type, {}, {})} \cup KtPrimaryConstructor(n, type)
    [] kind[n] = "alias" -> {MemberOf(n, "type", type, {}, {})}
    [] kind[n] = "fn" -> {KtMember(n, IF type = << >> THEN "function" ELSE "method", type, KtCallSites(n))}
    [] kind[n] = "val" -> {KtMember(n, IF type = << >> THEN "variable" ELSE "field", type, {})}
    [] kind[n] = "param" -> {KtMember(n, "field", type, {})}
    [] kind[n] = "entry" -> {Sym(n, "const", QualLast(type) \o <<name[n]>>, QualLast(type), {}, {})}
    [] kind[n] = "secondary" -> {Sym(n, "constructor", type, QualLast(type), KtCallSites(n), {})}
    [] OTHER -> {}

\* kotlinVisit enters the bodies of types and companions only.
KtVisited(n) ==
  n > 1 /\ \A m \in Way(1, Up(n)) : kind[m] \in KtTypes \cup {"companion", "error", "primary"}

ExtractKotlinNodes ==
  /\ prof.lang = "kotlin"
  /\ Pass("parse", "done", UNION {KtEmit(n) : n \in {n \in File : KtVisited(n)}})

KotlinNext == KtFile \/ ExtractKotlinNodes
=============================================================================
