----------------------------- MODULE JavaSymbols -----------------------------
(***************************************************************************)
(* The symbols of a Java file (extractJavaNodes) and the calls each is     *)
(* given (javaCallSites).                                                  *)
(*                                                                         *)
(* Node types: "type" (class, interface, enum), "record" with its header's *)
(* "component"s, "method", "getter" (a method called get and the name),    *)
(* "ctor", "field" (one declarator with its initializer), "init" (static   *)
(* or instance initializer block), "constant" (of an enum), "lambda",      *)
(* "anon" (object creation with a body), "call" (of a method, a            *)
(* constructor or `new`).  "body" is the class body of an anon or a        *)
(* constant; their other children are the arguments.  "mark" is a Lombok   *)
(* annotation (@Getter) of a type or a field.                              *)
(***************************************************************************)
EXTENDS Extraction

JavaTypes == {"type", "record"}
JavaMethods == {"method", "getter"}
JavaMembers == JavaMethods \cup {"ctor", "field", "init"} \cup JavaTypes
JavaInBody == {"call", "lambda", "anon", "type"}

JavaUnder(p) ==
  CASE kind[p] = "file" -> JavaTypes \cup {"method"}
    [] kind[p] = "type" ->
         JavaMembers \cup {"constant"} \cup (IF Kids(p) = {} THEN {"mark"} ELSE {})
    [] kind[p] = "record" -> JavaMembers \cup {"component"}
    [] kind[p] = "body" -> JavaMembers \ {"ctor"}
    [] kind[p] \in JavaMethods \cup {"ctor", "init", "lambda", "call"} -> JavaInBody
    [] kind[p] = "field" ->
         {"call", "lambda", "anon"} \cup IF Kids(p) = {} THEN {"mark"} ELSE {}
    [] kind[p] \in {"anon", "constant"} ->
         IF \E m \in Kids(p) : kind[m] = "body" THEN {} ELSE {"call", "lambda", "anon", "body"}
    [] OTHER -> {}

JavaFile ==
  /\ prof.lang = "java"
  /\ \E l \in Levels : \E k \in JavaUnder(Open(l)) : Grow(l, k)

\* Every anonymous class has its body, no type the name of one around it, and
\* the fields and constants of a type have different names.
JavaWhole ==
  /\ \A n \in Of({"anon"}) : \E m \in Kids(n) : kind[m] = "body"
  /\ \A m, n \in Of(JavaTypes) : m \in Under(n) => name[m] # name[n]
  /\ \A m, n \in Of({"field", "constant"}) : m < n /\ Up(m) = Up(n) => name[m] # name[n]

\* new C(..) { .. } calls C's constructor.
JavaCalls == Of({"call", "anon"})

\* javaCallSites: not into lambdas, types and the bodies of anonymous classes.
JavaCallSites(n) == CollectCallSites(n, JavaCalls, Of({"lambda", "body"} \cup JavaTypes))

-----------------------------------------------------------------------------
(* `by` is the walker that sees a node: "visit" (javaVisit, members) or    *)
(* "nested" (javaNestedExecutables); class is its parentClass, a path of   *)
(* names <<name, 0>> and synthetic names.                                  *)

JavaBy(walker, class) == [by |-> walker, class |-> class]

\* The synthetic name is made of the node's position, here the node.
JavaSyntheticName(n) == <<kind[n], n>>

Getter(segment) == <<segment[1], -1>>

JavaPathName(n) ==
  CASE kind[n] \in {"anon", "lambda"} -> JavaSyntheticName(n)
    [] kind[n] = "getter" -> Getter(<<name[n], 0>>)
    [] OTHER -> <<name[n], 0>>

JavaCtx[n \in File] ==
  IF n = 1 THEN JavaBy("", << >>)
  ELSE LET p == Up(n)
           c == JavaCtx[p]
           own == QualJoin(c.class, JavaPathName(p))
       IN  IF p = 1 THEN JavaBy("visit", << >>)
           ELSE IF c.by = "" \/ (c.class = << >> /\ kind[p] \notin JavaTypes) THEN JavaBy("", << >>)
           ELSE CASE kind[p] \in JavaTypes -> JavaBy("visit", own)
                  [] kind[p] = "body" -> JavaBy("visit", c.class)
                  [] kind[n] = "body" /\ kind[p] = "anon" -> JavaBy("body", own)
                  [] kind[n] = "body" /\ kind[p] = "constant" -> JavaBy("body", c.class)
                  [] OTHER -> JavaBy("nested", c.class)

JavaSym(n, sort, class, calls, marks) ==
  Sym(n, sort, QualJoin(class, JavaPathName(n)), QualLast(class), calls, marks)

\* What error recovery makes of statements: constructors that are not named
\* after the class and methods with a reserved word for a name.
JavaRecovered(n, class) ==
  \/ kind[n] = "ctor" /\ QualLast(class) # <<JavaPathName(n)>>
  \/ kind[n] = "method" /\ name[n] = "if"

JavaFieldDecl(n, class) == {JavaSym(n, "field", class, {}, {})}

JavaRecordComponents(n, class) ==
  {JavaSym(n, sort, class, {}, {"record"}) : sort \in {"field", "method"}}

JavaVisit(n, class) ==
  IF kind[n] \in JavaMethods \cup {"ctor", "field", "constant"} /\ class = << >> THEN {}
  ELSE CASE kind[n] \in JavaTypes -> {JavaSym(n, "class", class, {}, {})}
         [] kind[n] \in JavaMethods /\ ~JavaRecovered(n, class) ->
              {JavaSym(n, "method", class, JavaCallSites(n), {})}
         [] kind[n] = "ctor" /\ ~JavaRecovered(n, class) ->
              {JavaSym(n, "constructor", class, JavaCallSites(n), {})}
         [] kind[n] = "field" -> JavaFieldDecl(n, class)
         [] kind[n] = "constant" -> {JavaSym(n, "field", class, {}, {"enum-constant"})}
         [] kind[n] = "component" -> JavaRecordComponents(n, class)
         [] OTHER -> {}

JavaNestedExecutables(n, class) ==
  CASE kind[n] \in JavaTypes -> {JavaSym(n, "class", class, {}, {})}
    [] kind[n] = "anon" -> {JavaSym(n, "class", class, {}, {"anonymous"})}
    [] kind[n] = "lambda" -> {JavaSym(n, "function", class, JavaCallSites(n), {"lambda"})}
    [] OTHER -> {}

\* javaVisit sees the members of types and class bodies, javaNestedExecutables
\* what stands in their code.
JavaEmit(n) ==
  LET c == JavaCtx[n] IN
  CASE c.by = "visit" -> JavaVisit(n, c.class)
    [] c.by = "nested" -> JavaNestedExecutables(n, c.class)
    [] OTHER -> {}

\* A recovered member is not entered either.
JavaEntered(n) == \A m \in Way(1, n) : m = n \/ ~JavaRecovered(m, JavaCtx[m].class)

JavaDeclared == UNION {JavaEmit(n) : n \in {n \in File : JavaEntered(n)}}

\* synthesizeLombokAccessors for the type n, which reads the members emitted
\* since the type's own body was entered: those of its name.
Marked(n) == \E m \in Kids(n) : kind[m] = "mark"

LombokAccessors(n, declared) ==
  LET class == JavaPathName(n)
      inside == {s \in declared : s.at \in Under(n) /\ s.parent = <<class>>
                                  /\ "record" \notin s.marks}
      getter(f) == Getter(f.qual[Len(f.qual)])
  IN  {Sym(f.at, "method", Append(SubSeq(f.qual, 1, Len(f.qual) - 1), getter(f)), <<class>>, {},
           {"lombok"}) :
         f \in {f \in inside :
                  /\ f.sort = "field"
                  /\ Marked(n) \/ Marked(f.at)
                  /\ ~\E m \in inside : m.sort = "method" /\ QualLast(m.qual) = <<getter(f)>>}}

JavaVisitFile ==
  /\ prof.lang = "java" /\ JavaWhole
  /\ Pass("parse", "orphans",
          JavaDeclared \cup UNION {LombokAccessors(s.at, JavaDeclared) :
                                     s \in {s \in JavaDeclared : kind[s.at] \in JavaTypes}})

JavaIsOrphan(s) == s.parent = << >> /\ s.sort \in {"method", "constructor", "field"}
JavaOwnerTypes(s) == {t \in out : t.sort = "class" /\ s.at \in Under(t.at)}

\* javaReattachOrphans: a member without a type goes to the innermost type
\* around it.
JavaReattached(s) ==
  LET owners == JavaOwnerTypes(s)
      best == CHOOSE t \in owners : \A u \in owners : u.at <= t.at
  IN  IF JavaIsOrphan(s) /\ owners # {}
      THEN Sym(s.at, s.sort, best.qual \o QualLast(s.qual), QualLast(best.qual), s.calls, s.marks)
      ELSE s

JavaReattachOrphans ==
  /\ prof.lang = "java"
  /\ Pass("orphans", "done", {JavaReattached(s) : s \in out})

JavaNext == JavaFile \/ JavaVisitFile \/ JavaReattachOrphans
=============================================================================
