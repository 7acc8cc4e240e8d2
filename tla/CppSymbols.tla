------------------------------ MODULE CppSymbols ------------------------------
(***************************************************************************)
(* The symbols of a C or C++ file (extractCNodes).                         *)
(*                                                                         *)
(* Node types: "fn"; "outfn", a definition outside its class, with an      *)
(* "owner" for each name before ::; "proto", a prototype; "var"; "record", *)
(* a struct or union of C; "enum" with its "item"s; "typedef", with the    *)
(* record or enum it defines, if any; "inst", a member that is declared    *)
(* together with its record or enum; "ns"; "class" with "access"           *)
(* specifiers and "friend" functions; "tmpl", what a template declares;    *)
(* "cond", a conditional region or an extern "C" block; "off" (#if 0);     *)
(* "alt", the #else of either, the last of its nodes; "call".              *)
(***************************************************************************)
EXTENDS Extraction

CDecls == {"fn", "proto", "var", "typedef", "record", "enum", "cond", "off"}
CppDecls ==
  IF prof.lang = "c" THEN CDecls ELSE (CDecls \ {"record"}) \cup {"outfn", "ns", "class", "tmpl"}
CppMembers == {"fn", "proto", "var", "enum", "class", "friend", "access"}

CppUnder(p) ==
  LET more == ~\E m \in Kids(p) : kind[m] = "alt"
      inClass == \E m \in Of({"class"}) : p \in Subtree(lev, m)
  IN  CASE kind[p] = "class" -> CppMembers \cup {"cond"}
        [] kind[p] = "cond" /\ inClass -> {"fn", "proto", "var"}
        [] kind[p] \in {"cond", "off"} /\ ~inClass /\ more -> CppDecls \cup {"alt"}
        [] kind[p] \in {"file", "ns", "alt"} -> CppDecls
        [] kind[p] = "outfn" -> {"call"} \cup (IF Kids(p) \subseteq Of({"owner"}) THEN {"owner"} ELSE {})
        [] kind[p] \in {"fn", "call"} -> {"call"}
        [] kind[p] = "record" ->
             {"var", "record", "enum"} \cup (IF kind[Up(p)] = "record" THEN {"inst"} ELSE {})
        [] kind[p] = "enum" -> {"item"} \cup (IF kind[Up(p)] = "record" THEN {"inst"} ELSE {})
        [] kind[p] = "typedef" /\ Kids(p) = {} -> {"record", "enum"}
        [] kind[p] = "var" /\ prof.lang = "c" /\ kind[Up(p)] # "record" /\ Kids(p) = {} -> {"record"}
        [] kind[p] = "tmpl" /\ Kids(p) = {} -> {"fn", "outfn", "proto", "class"}
        [] OTHER -> {}

CppFile ==
  /\ prof.lang \in {"c", "cpp"}
  /\ \E l \in Levels : \E k \in CppUnder(Open(l)) : Grow(l, k)

CppOwners(n) == Kids(n) \cap Of({"owner"})
CppWhole == \A n \in Of({"outfn"}) : CppOwners(n) # {}

-----------------------------------------------------------------------------
(* Classes.  The path of a class, the parent of its members, is made of    *)
(* the classes around it and never of namespaces.                          *)

CppOwner[n \in File] ==
  IF n # 1 /\ kind[Up(n)] = "class" THEN QualJoin(CppOwner[Up(n)], name[Up(n)]) ELSE << >>

CppPath(n) == QualJoin(CppOwner[n], name[n])

CppAccess == {"public", "private"}

\* An access specifier is one of those.
ASSUME AccessAssumption ==
  \A p \in Profiles : "access" \in DOMAIN p.names => p.names["access"] \subseteq CppAccess

\* The access specifier before the member n of a class.
CppSection(n) ==
  LET before == {a \in Of({"access"}) : a < n /\ Up(a) = Up(n)}
  IN  IF before = {} THEN "private" ELSE name[CHOOSE a \in before : \A b \in before : b <= a]

\* cCallSites
CppCallSites(n) == CollectCallSites(n, Of({"call"}), {})

CppFunc(n, owner, marks) ==
  LET sort == IF owner = << >> THEN "function"
              ELSE IF <<name[n]>> = QualLast(owner) THEN "constructor" ELSE "method"
  IN  Sym(n, sort, QualJoin(owner, name[n]), owner, CppCallSites(n), marks)

CEnumMembers(e, parent, marks) ==
  {Sym(i, "const", <<name[i]>>, parent, {}, marks) : i \in Kids(e) \cap Of({"item"})}

\* The constants of an unnamed enum are members of the class.
CppEnum(e, class) ==
  LET access == {CppSection(e)}
  IN  IF name[e] = "" THEN CEnumMembers(e, class, access)
      ELSE {Sym(e, "enum", <<name[e]>>, class, {}, access)}
             \cup CEnumMembers(e, QualJoin(class, name[e]), access)

CppMember(k, class) ==
  CASE kind[k] = "fn" -> {CppFunc(k, class, {CppSection(k)})}
    [] kind[k] = "enum" -> CppEnum(k, class)
    [] kind[k] = "proto" -> {CppFunc(k, class, {CppSection(k), "declaration"})}
    [] kind[k] = "var" -> {Sym(k, "field", QualJoin(class, name[k]), class, {}, {CppSection(k)})}
    [] kind[k] = "friend" -> {CppFunc(k, << >>, {"friend"})}
    [] OTHER -> {}

\* cppClassSymIn; conditional regions in a class body are not entered.
CppClass[n \in File] ==
  {Sym(n, "class", <<name[n]>>, CppOwner[n], {},
       IF CppOwner[n] = << >> THEN {} ELSE {CppSection(n)})}
    \cup UNION {IF kind[k] = "class" THEN CppClass[k] ELSE CppMember(k, CppPath(n)) : k \in Kids(n)}

\* Fault: a declared visibility is looked up by the name alone.
CppDeclaredByName(s, symbols) ==
  {d \in symbols : d.sort = "method" /\ d.marks \cap CppAccess # {} /\ QualLast(d.qual) = QualLast(s.qual)}

\* The methods with an access modifier that s shares its name with.
CppDeclared(s, symbols) ==
  {d \in symbols : d.sort = "method" /\ d.marks \cap CppAccess # {} /\ d.qual = s.qual}

\* cppApplyDeclaredVisibility: the modifiers of the last of them.
CppVisible(s, symbols) ==
  LET declared == CppDeclared(s, symbols)
      last == CHOOSE d \in declared : \A e \in declared : e.at <= d.at
  IN  IF declared = {} THEN s
      ELSE Sym(s.at, s.sort, s.qual, s.parent, s.calls,
               (s.marks \cap {"declaration"}) \cup (last.marks \ {"declaration"}))

-----------------------------------------------------------------------------
(* Records and enums outside classes.  A record's members have it for a    *)
(* parent under each name it has, its tag and that of its typedef; those   *)
(* of an unnamed record in a record, the one around it or the members      *)
(* declared with it.                                                       *)

CTag(n) == IF name[n] = "" THEN << >> ELSE <<name[n]>>

\* The parents of an unnamed record's members: the members declared with it,
\* or the record around it, whose members have the parents of.
CThrough(n, of) ==
  LET insts == Kids(n) \cap Of({"inst"})
  IN  IF insts = {} THEN of ELSE {QualJoin(q, name[i]) : q \in of, i \in insts}

\* The parents that the members of the record n get.
CParents[n \in File] ==
  IF kind[n] # "record" THEN {}
  ELSE CASE kind[Up(n)] = "typedef" ->
              IF prof.lang = "c" THEN {<<name[Up(n)]>>, CTag(n)} \ {<< >>} ELSE {}
         [] kind[Up(n)] = "record" /\ (CTag(n) = << >> \/ CParents[Up(n)] = {}) ->
              CThrough(n, CParents[Up(n)])
         [] OTHER -> {CTag(n)} \ {<< >>}

\* cStructFields and cNestedRecordSyms enter what is in the node p.
CEntered(p) == kind[p] = "record" => CParents[p] # {}

\* A typedef's record is not a second symbol under the typedef's own name.
CTypeSym(n, sort) ==
  IF \/ CTag(n) = << >>
     \/ kind[Up(n)] = "typedef" /\ name[n] = name[Up(n)]
  THEN {} ELSE {Sym(n, sort, CTag(n), << >>, {}, {})}

CTypedefSort(n) ==
  IF Kids(n) = {} THEN "type" ELSE IF kind[FirstKid(n)] = "enum" THEN "enum" ELSE "class"

\* The constants of a typedef's enum belong to its tag before its name, and
\* an enum in a record has no symbol.
CEmit(n) ==
  LET up == Up(n) IN
  CASE kind[n] = "typedef" -> {Sym(n, CTypedefSort(n), <<name[n]>>, << >>, {}, {})}
    [] kind[n] = "record" -> CTypeSym(n, "class")
    [] kind[n] = "enum" ->
         (IF kind[up] = "record" THEN {} ELSE CTypeSym(n, "enum"))
           \cup CEnumMembers(n, IF kind[up] = "typedef" /\ CTag(n) = << >> THEN <<name[up]>> ELSE CTag(n), {})
    [] kind[n] = "var" -> {Sym(n, "field", <<name[n]>>, q, {}, {}) : q \in CParents[up]}
    [] kind[n] = "inst" -> {Sym(n, "field", <<name[n]>>, q, {}, {}) : q \in CParents[Up(up)]}
    [] OTHER -> {}

CType(k) == UNION {CEmit(n) : n \in {k} \cup {n \in Under(k) : CEntered(Up(n))}}

-----------------------------------------------------------------------------
(* Regions                                                                 *)

\* cppDeclaratorOwner
CppDeclaratorOwner(n) ==
  [i \in 1 .. Cardinality(CppOwners(n)) |-> name[n + i]]

\* Definitions, in a template too (cppTemplateDecl).
CppDefinition(k) ==
  CASE kind[k] = "fn" -> {CppFunc(k, << >>, {})}
    [] kind[k] = "outfn" -> {CppFunc(k, CppDeclaratorOwner(k), {})}
    [] kind[k] = "class" -> CppClass[k]
    [] OTHER -> {}

\* extractCNodes, called again for every region: of the symbols of the
\* region n the prototypes go that a function of that name defined in this
\* region replaces, and in C++ the rest get their visibility.
CppVisit[n \in File] ==
  LET Decl(k) ==
        CASE kind[k] \in {"fn", "outfn", "class"} -> CppDefinition(k)
          [] kind[k] = "tmpl" -> UNION {CppDefinition(m) : m \in Kids(k)}
          [] kind[k] = "proto" -> {CppFunc(k, << >>, {"declaration"})}
          [] kind[k] = "var" -> {Sym(k, "variable", <<name[k]>>, << >>, {}, {})}
          [] kind[k] \in {"typedef", "record", "enum"} -> CType(k)
          [] kind[k] = "ns" -> {Sym(k, "namespace", <<name[k]>>, << >>, {}, {})} \cup CppVisit[k]
          [] kind[k] \in {"cond", "alt"} -> CppVisit[k]
          [] kind[k] = "off" -> UNION {CppVisit[m] : m \in Kids(k) \cap Of({"alt"})}
          [] OTHER -> {}
      defined == {name[k] : k \in Kids(n) \cap Of({"fn", "outfn"})}
      kept == {s \in UNION {Decl(k) : k \in Kids(n)} :
                 ~(kind[s.at] = "proto" /\ Up(s.at) = n /\ name[s.at] \in defined)}
  IN  IF prof.lang = "cpp" THEN {CppVisible(s, kept) : s \in kept} ELSE kept

\* Neither in a disabled branch nor in a conditional region of a class.
CppEntered(n) ==
  \A m \in Way(1, n) :
    /\ kind[Up(m)] = "off" => kind[m] = "alt"
    /\ kind[m] = "cond" => kind[Up(m)] # "class"

ExtractCNodes ==
  /\ prof.lang \in {"c", "cpp"} /\ CppWhole
  /\ Pass("parse", "done", CppVisit[1])

CppNext == CppFile \/ ExtractCNodes
=============================================================================
