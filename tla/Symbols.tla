------------------------------- MODULE Symbols -------------------------------
(***************************************************************************)
(* Symbol extraction: the parser makes a file of one language, then the    *)
(* passes of that language's extractor build the list of symbols.  The     *)
(* properties are about the finished list: which symbol each call belongs  *)
(* to, how a symbol is named after the declarations around it, and which   *)
(* symbols the clean-up passes leave.                                      *)
(***************************************************************************)
EXTENDS CppSymbols, CsSymbols, GoSymbols, JavaSymbols, JsSymbols, KotlinSymbols,
        ObjcSymbols, PhpSymbols, PySymbols, RustSymbols, SwiftSymbols

Next == \/ CppNext \/ CsNext \/ GoNext \/ JavaNext \/ JsNext \/ KotlinNext
        \/ ObjcNext \/ PhpNext \/ PyNext \/ RustNext \/ SwiftNext

Spec == Init /\ [][Next]_vars

Done(lang) == pass = "done" /\ prof.lang = lang

Owners(c) == {s.at : s \in {s \in out : c \in s.calls}}
Around(c, kinds) == {n \in Of(kinds) : n < c /\ InSubtree(lev, n, c)}
Last(nodes) == CHOOSE n \in nodes : \A m \in nodes : m <= n

\* In Java, PHP, Python and Swift no call belongs to symbols that stand on
\* two nodes, after any pass: what one walk skips (javaCallSites,
\* pythonCallSites) is what another collects, and phpVisit and swiftVisit
\* stop at bodies.  Proved in Symbols_proof.
OneOwner ==
  prof.lang \in {"java", "php", "python", "swift"} =>
    \A s, t \in out : s.calls \cap t.calls # {} => s.at = t.at

\* Every Python call outside default values and base classes belongs to the
\* innermost function, class body or module it stands in, and to no other:
\* also the calls in decorators, in a class in a function, and at module
\* level below a decorated definition.
PyInnermost ==
  Done("python") =>
    \A c \in PyCalls :
      Owners(c) = IF c \in PyOwnerless THEN {} ELSE {PyOwner(c)}

\* In Java a call belongs to the innermost method, constructor or lambda
\* around it: never to the method around an anonymous class, a local class
\* or a lambda; in an initializer or an enum constant's arguments to none.
JavaExecutables == JavaMethods \cup {"ctor", "lambda"}
JavaBarriers == JavaExecutables \cup {"init", "field", "constant", "body"} \cup JavaTypes

JavaInnermost ==
  Done("java") =>
    \A c \in JavaCalls :
      LET around == Around(c, JavaBarriers)
          inner == Last(around)
      IN  Owners(c) =
            IF around # {} /\ kind[inner] \in JavaExecutables /\ inner \in {s.at : s \in out}
            THEN {inner} ELSE {}

\* In Python and Java every call belongs to the innermost executable it
\* stands in and to no other.
CallsToInnermost == PyInnermost /\ JavaInnermost

\* The functions in no macro text, or in one that rustMacroItems reads.
RustFunctions == {f \in Of({"fn"}) : \A m \in Way(1, f) \cap Of({"macro"}) : RustRead(m)}

\* The calls of a Rust function f that no symbol gets.
RustLost(f, u) ==
  \/ Around(f, {"block"}) # {}
  \/ \E g \in RustNested(f) : SharesLine(g, RustSiteLine(f, u))

\* In these languages functions and types in a body have no symbols.
OuterBodyLanguages == {"c", "cpp", "csharp", "kotlin", "objc", "php", "swift"}

\* What a call stands in that has a body of its own, and is in none itself.
OuterBody(c) ==
  LET bodies == CASE prof.lang \in {"c", "cpp"} -> {"fn", "outfn"}
                  [] prof.lang = "objc" -> {"fn", "def"}
                  [] prof.lang = "csharp" -> CsBodied \cup {"stmt"}
                  [] prof.lang = "kotlin" -> {"fn", "val", "init", "primary", "secondary", "entry"}
                  [] prof.lang = "php" -> {"fn", "method"}
                  [] OTHER -> SwiftBodied
  IN  {n \in Around(c, bodies) : Around(n, bodies) = {}}

\* The symbol of a body, if it has one: local functions in C# top-level
\* code have one and the rest of that code has one together, initializers
\* in Kotlin are the constructor's, and enum entries there (kotlinEnumEntries)
\* and functions in disabled branches, in the conditional regions of a C++
\* class and in an @implementation have none.
BodySymbol(n, c) ==
  CASE kind[n] = "stmt" ->
         IF Kids(n) \cap Of({"local"}) # {} THEN Kids(n)
         ELSE IF n \in Kids(1) THEN {1} ELSE {}
    [] prof.lang = "kotlin" /\ kind[n] \in {"val", "init", "primary"} ->
         {Up(n)} \cap {m \in File : /\ kind[n] = "val" => Kids(n) \cap Of({"getter"}) = {}
                                   /\ KtHasConstructor(m)}
    [] kind[n] = "entry" -> {}
    [] prof.lang \in {"c", "cpp", "objc"} -> IF CppEntered(n) /\ (kind[n] = "fn" => kind[Up(n)] # "impl") THEN {n} ELSE {}
    [] prof.lang = "kotlin" /\ kind[n] = "fn" /\ Around(c, {"default"}) \cap Kids(n) # {} -> {}
    [] OTHER -> {n}

\* In JavaScript no call belongs to symbols of two nodes, and a call in a
\* function declaration that has a symbol belongs to the innermost one.  In
\* Rust a call or macro belongs to the innermost function around it and to
\* no other, unless a function nested in that one shares its line or the
\* function, in a nested block, has no symbol; what the text of a macro in a
\* function declares is no function there.  In C, C++, C#, Kotlin,
\* Objective-C, PHP and Swift a call belongs to the one symbol of the
\* outermost body around it, and so does the call of a C# constructor by
\* another, unless it is written without a blank.
FnCallsToInnermost ==
  /\ pass = "done" /\ prof.lang \in OuterBodyLanguages =>
       \A c \in Of({"call"}) : Owners(c) = UNION {BodySymbol(n, c) : n \in OuterBody(c)}
  /\ Done("csharp") =>
       \A c \in Of({"initializer"}) :
         Owners(c) = IF name[c] = "spaced" THEN {Up(c)} ELSE {}
  /\ Done("javascript") =>
       \A c \in Of({"call"}) :
         LET fns == Around(c, {"fn"}) \cap {s.at : s \in out} IN
         IF fns = {} THEN Cardinality(Owners(c)) <= 1 ELSE Owners(c) = {Last(fns)}
  /\ Done("rust") =>
       \A u \in UNION {RustSites(f) : f \in RustFunctions} :
         LET f == Last(Around(u, {"fn"}) \cap RustFunctions) IN
         Owners(u) = IF RustLost(f, u) THEN {} ELSE {f}

\* A Go call or reference belongs to the function declaration around it and
\* to no other, closures included, and a called selector is a call and not a
\* reference as well; package-level initializers are nobody's.
GoUsesOnce ==
  Done("go") =>
    \A u \in Of({"call", "sel"}) :
      Owners(u) =
        IF \/ kind[u] = "call" /\ kind[FirstKid(u)] \in {"call", "lit"}
           \/ kind[u] = "sel" /\ IsCalled(u)
        THEN {} ELSE Around(u, {"func", "method"})

Parent(s) == {t \in out : t.sort # "field" /\ s.at \in Under(t.at)
                          /\ t.qual = SubSeq(s.qual, 1, Len(s.qual) - 1)}

GoReceiverType(n) ==
  CHOOSE t \in Of({"tid"}) : InSubtree(lev, n, t) /\ Way(n, t) \cap Of({"targs"}) = {}

\* The path of a Rust symbol: the modules, functions and types around it.
RustScopes == {"fn", "mod", "struct", "trait"} \cup RustImpls

NodesTo(n, kinds) ==
  LET scopes == Around(n, kinds)
  IN  [i \in 1 .. Cardinality(scopes) |->
         CHOOSE m \in scopes : Cardinality({k \in scopes : k <= m}) = i]

RustPath(n) ==
  LET scopes == NodesTo(n, RustScopes)
  IN  [i \in DOMAIN scopes |-> RustBase(RustName(scopes[i]))]

\* What the text of a macro in an impl or a trait declares and neither can
\* have: the code names it, and what is in it, as if it stood outside.
RustDisplaced ==
  {n \in Of({"mod", "struct", "trait"} \cup RustImpls) :
     kind[RustHost(Up(n))] \in {"trait"} \cup RustImpls}

RustPlaced(n) == \A d \in RustDisplaced : ~InSubtree(lev, d, n)

\* The path of a C#, Kotlin or Swift symbol: the types around it, and the
\* extension or protocol.
TypePath(n) ==
  LET scopes == NodesTo(n, CsTypes \cup KtTypes \cup SwiftExtensions \cup {"protocol"})
  IN  [i \in DOMAIN scopes |-> name[scopes[i]]]

\* The body of a PHP class: what is under it, or for an enum that is cut
\* short what comes before its closing brace.
PhpBody(n) ==
  Under(n) \cup
    {m \in File : \E c \in Of({"close"}) : /\ kind[n] = "unclosed" /\ Up(c) = Up(n) /\ n < m /\ m < c
                                          /\ \A k \in Of({"close"}) : ~(Up(k) = Up(n) /\ n < k /\ k < c)}

\* The parent of a field in a C record: a name of the innermost record with
\* a name around it, followed by members declared with unnamed records.
CFieldOfRecord(s) ==
  LET of == IF kind[s.at] = "inst" THEN Up(s.at) ELSE s.at
      named == {r \in Around(of, {"record"}) : name[r] # "" \/ kind[Up(r)] = "typedef"}
      record == Last(named)
      inner == {r \in Around(of, {"record"}) \ named : Kids(r) \cap Of({"inst"}) # {}}
  IN  /\ named # {} /\ Len(s.parent) = 1 + Cardinality({r \in inner : r > record})
      /\ \E t \in out : t.sort = "class" /\ t.at \in {record, Up(record)} /\ t.qual = <<s.parent[1]>>
      /\ \A i \in 2 .. Len(s.parent) :
           \E f \in out : /\ f.sort = "field" /\ f.at \in Under(record) /\ of \in Under(Up(f.at))
                          /\ f.qual = <<s.parent[i]>> /\ f.parent = SubSeq(s.parent, 1, i - 1)

\* The parent of a constant: the symbol of its enum, where it has one.
CConstOfEnum(s) ==
  LET e == Up(s.at) IN
  CASE kind[Up(e)] = "record" -> s.parent = CTag(e)
    [] name[e] = "" /\ kind[Up(e)] \notin {"record", "typedef"} -> s.parent = IF kind[Up(e)] = "class" THEN CppPath(Up(e)) ELSE << >>
    [] OTHER -> \E t \in out : t.sort = "enum" /\ t.at \in {e, Up(e)} /\ t.parent \o t.qual = s.parent

\* A Java or Python symbol with a parent is named after a symbol that
\* encloses it: the parent exists, and the qualified name is the parent's
\* with one more name.  A Go method's parent is the type its receiver names,
\* under its pointer and its type arguments.  In a Rust module or function
\* the qualified name is the path of the modules, functions and types around
\* the symbol, and a function, member or module has the innermost of them
\* for a parent, up to the path a type is written with, unless it is a type
\* or module, or in one, that a macro puts in an impl.  A C#, Kotlin or
\* Swift symbol has the innermost type around it for a parent; types, and in
\* C# all members, have their path in their name, and a Kotlin constructor
\* has the name of a class.  A PHP symbol has the class around it for a
\* parent, also in an enum whose members follow it, and so has a member of
\* an Objective-C interface, category, protocol or implementation.  In C and
\* C++ members of records and constants of enums are named after those.
NamedAfterItsParent ==
  pass = "done" =>
    /\ prof.lang = "c" => \A s \in out : s.sort = "field" => CFieldOfRecord(s)
    /\ prof.lang \in {"c", "cpp"} => \A s \in out : s.sort = "const" => CConstOfEnum(s)
    /\ prof.lang = "objc" =>
         \A s \in out :
           s.parent = IF s.sort # "type" /\ kind[Up(s.at)] \in ObjcContainers \cup {"menum"}
                      THEN <<name[Up(s.at)]>> ELSE << >>
    /\ prof.lang \in {"csharp", "kotlin", "swift"} =>
         \A s \in out : LET path == TypePath(s.at) IN
           /\ kind[s.at] \notin {"file", "ns"} /\ (s.sort = "class" \/ prof.lang = "csharp") =>
                s.qual = QualJoin(path, name[s.at])
           /\ IF prof.lang = "kotlin" /\ s.sort = "constructor"
              THEN \E t \in out : t.sort = "class" /\ t.qual = s.qual /\ s.parent = QualLast(t.qual)
              ELSE (prof.lang = "swift" /\ s.sort = "type") \/ s.parent = QualLast(path)
    /\ prof.lang = "php" =>
         \A s \in out : LET classes == {n \in Of(PhpClasses) : s.at \in PhpBody(n)} IN
           s.parent = IF classes = {} \/ s.sort = "class" \/ kind[s.at] = "define" THEN << >>
                      ELSE <<PhpClassName(Last(classes))>>
    /\ prof.lang \in {"java", "python"} =>
         \A s \in out :
           IF s.parent = << >> THEN Len(s.qual) = 1
           ELSE \E t \in Parent(s) : QualLast(t.qual) = s.parent
    /\ prof.lang = "go" =>
         \A s \in out : kind[s.at] = "method" => s.parent = <<name[GoReceiverType(s.at)]>>
    /\ prof.lang = "rust" =>
         \A s \in {s \in out : RustPlaced(s.at)} : LET path == RustPath(s.at) IN
           /\ [i \in DOMAIN s.qual |-> RustBase(s.qual[i])] =
                IF Around(s.at, {"fn", "mod"}) = {} THEN <<RustName(s.at)>>
                ELSE QualJoin(path, RustName(s.at))
           /\ s.sort \notin {"struct", "trait", "const"} /\ path # << >> =>
                s.parent # << >> /\ RustBase(s.parent[1]) = path[Len(path)]

Derived(s) == s.marks \cap {"module-value", "instance-attr", "this-assigned", "lombok"} # {}
ClassOf(s) == Around(s.at, {"class", "classexp", "body"} \cup JavaTypes)

\* A symbol the extractors derive from another declaration (a module value,
\* an instance attribute, a field set through this, a Lombok accessor) does
\* not repeat a symbol that the same class or module declares, nor another
\* derived one: the clean-up passes leave one symbol per name.
\* In C and C++ a region that defines a function has no prototype of it as
\* well.  Of a macro enum in Objective-C no type named after its first item
\* stays, unless a later one has an item of that name.
DeclaredOnce ==
  pass = "done" =>
    /\ \A s \in out : Derived(s) =>
         \A r \in out \ {s} : r.parent = s.parent /\ ClassOf(r) = ClassOf(s) => r.qual # s.qual
    /\ prof.lang \in {"c", "cpp"} =>
         \A s, t \in out :
           kind[s.at] = "proto" /\ kind[t.at] = "fn" /\ Up(s.at) = Up(t.at) /\ kind[Up(s.at)] # "class"
             => s.qual # t.qual
    /\ prof.lang = "objc" =>
         \A s \in out : s.sort = "type" /\ kind[s.at] = "item" =>
           \E i \in Of({"item"}) : i > s.at /\ Up(i) # Up(s.at) /\ name[i] = name[s.at]

\* Members of C records that could be found by a name.
CNameable(n) ==
  LET records == Around(n, {"record"})
      top == CHOOSE m \in records : \A k \in records : m <= k
  IN  CppEntered(n) /\
        (records # {} => kind[Up(top)] # "var" /\ (name[top] # "" \/ kind[Up(top)] = "typedef"))

\* The names a record in a typedef is used by.
CParentNames(p) ==
  IF kind[p] = "record" /\ kind[Up(p)] = "typedef"
  THEN {name[Up(p)]} \cup (IF name[p] = "" THEN {} ELSE {name[p]})
  ELSE {""}

\* What the clean-up passes drop is still declared: a module-level Python
\* name by a symbol or an import, an attribute of __init__ or a constructor
\* by a symbol of its qualified name, a C or C++ prototype by a function of
\* its name, unless its region defines a member function of that name, a
\* member of a C record, under each name of it, unless the record has no name or is defined together
\* with a variable, and an Objective-C typedef that is named like an item of
\* an enum.
NothingDeclaredLost ==
  pass = "done" =>
    /\ prof.lang = "python" =>
         /\ \A a \in PyEachBlock(1, {"assign"}) :
              \/ \E s \in out : s.qual = <<name[a]>>
              \/ \E i \in PyEachBlock(1, {"import"}) : name[i] = name[a]
         /\ \A n \in PyVisited({"class"}) : \A i \in PyInits(n) : \A a \in PyEachBlock(i, {"self"}) :
              \/ \E j \in PyInits(n) : j < i
              \/ \E s \in out : s.at \in Under(n)
                               /\ s.qual = PyCtx[Up(n)].qual \o <<name[n], name[a]>>
    /\ prof.lang = "javascript" =>
         \A s \in out : s.sort = "constructor" =>
           \A t \in Of({"this"}) : Up(t) = s.at =>
             \E r \in out : JsKey(r) = SubSeq(s.qual, 1, Len(s.qual) - 1) \o <<name[t]>>
    /\ prof.lang \in {"c", "cpp"} =>
         \A n \in Of({"proto"}) : kind[Up(n)] \notin {"class", "tmpl"} /\ CppEntered(n) =>
           \/ \E s \in out : s.sort = "function" /\ s.qual = <<name[n]>>
           \/ \E k \in Kids(Up(n)) : kind[k] = "outfn" /\ name[k] = name[n]
    /\ prof.lang = "c" =>
         \A n \in Of({"var", "inst"}) : CNameable(n) =>
           \A q \in CParentNames(Up(n)) : \E s \in out : s.at = n /\ (q # "" => s.parent = <<q>>)
    /\ prof.lang = "objc" => \A n \in ObjcEntered({"typedef"}) : n \in {s.at : s \in out}

CppDeclarations(q) ==
  {n \in Of({"fn", "proto"}) :
     kind[Up(n)] = "class" /\ CppEntered(Up(n)) /\ QualJoin(CppPath(Up(n)), name[n]) = q}

\* Where the declarations of a C++ method in the classes of a file agree on
\* its access, every declaration and definition of it has that access, also
\* a definition outside the class or in another region.  Methods are told
\* apart by their qualified names.
AccessAsDeclared ==
  Done("cpp") =>
    \A s \in out :
      LET access == {CppSection(n) : n \in CppDeclarations(s.qual)} IN
      s.sort = "method" /\ Cardinality(access) = 1 => s.marks \cap CppAccess = access
=============================================================================
