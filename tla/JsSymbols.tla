------------------------------ MODULE JsSymbols ------------------------------
(***************************************************************************)
(* The symbols of a JavaScript or TypeScript file (extractJSNodes) and the *)
(* calls each is given (jsCallSites).                                      *)
(*                                                                         *)
(* Node types: "fn" function declaration; "class", "classexp", "iface",    *)
(* "enum", "ns" (namespace), "strmod" (declare module "x"); class members  *)
(* "method", "field", "static" (block), "deco"; constructor parameters     *)
(* "param" (a parameter property); "sig" and "const", the members of an    *)
(* interface and of an enum; "var", a declarator; the assignments          *)
(* "exports" (exports.x =), "module" (module.exports =), "member" (C.x =)  *)
(* and "chain" (C.x = C.y =); "define" (Object.defineProperty(C, 'x', ..)) *)
(* with the body of the accessor, a function expression; "this" (this.x =);*)
(* "export" and its "clause" of "spec"s; "ambient" (declare ..) and        *)
(* "fsig"; "block" for the other statements; the values "arrow",           *)
(* "funcexp", "object" (of "pair"s and methods), "call", "require" and     *)
(* "ident"; no value node is a literal.  The body of a function and the    *)
(* parameters are its children.                                            *)
(***************************************************************************)
EXTENDS Extraction

JsStatements == {"fn", "class", "iface", "enum", "ns", "export", "var", "exports", "module",
                 "member", "chain", "define", "ambient", "block", "call"}
JsInBody == {"fn", "class", "call", "this", "arrow", "block"}
JsFnValues == {"arrow", "funcexp"}
JsValues == JsFnValues \cup {"classexp", "object", "call", "require", "ident"}
JsOne(p, kinds) == IF Kids(p) = {} THEN kinds ELSE {}

JsUnder(p) ==
  CASE kind[p] \in {"file", "ns"} -> JsStatements \cup {"fsig"}
    [] kind[p] = "class" -> {"method", "field", "static"} \cup JsOne(p, {"deco"})
    [] kind[p] = "classexp" -> {"method", "field", "static"}
    [] kind[p] \in {"fn", "arrow", "funcexp"} -> JsInBody
    [] kind[p] = "method" ->
         JsInBody \cup (IF name[p] = "constructor" THEN JsOne(p, {"param"}) ELSE {})
    [] kind[p] \in {"static", "define"} -> {"fn", "call"}
    [] kind[p] = "block" -> {"fn", "call", "this"}
    [] kind[p] \in {"field", "var", "exports", "module", "member", "pair"} -> JsOne(p, JsValues)
    [] kind[p] = "chain" -> JsOne(p, JsValues \ {"classexp"})
    [] kind[p] = "object" -> {"pair", "method"}
    [] kind[p] = "iface" -> {"sig"}
    [] kind[p] = "enum" -> {"const"}
    [] kind[p] = "export" ->
         JsOne(p, {"fn", "class", "iface", "enum", "ns", "var", "fsig", "object", "clause"})
    [] kind[p] = "clause" -> {"spec"}
    [] kind[p] = "ambient" -> JsOne(p, {"fsig", "strmod", "ns", "var", "class"})
    [] kind[p] = "strmod" -> {"fsig", "var", "class", "export"}
    [] kind[p] = "call" -> {"call", "arrow"}
    [] kind[p] = "deco" -> JsOne(p, {"call"})
    [] OTHER -> {}

JsFile ==
  /\ prof.lang = "javascript"
  /\ \E l \in Levels : \E k \in JsUnder(Open(l)) : Grow(l, k)

JsFunctionLike == {"fn", "funcexp", "arrow", "method", "static", "define"}

JsNestedFunctionDecls ==
  {n \in Of({"fn"}) : \E m \in Of(JsFunctionLike) : m # n /\ InSubtree(lev, m, n)}

JsCallSites(n) == CollectCallSites(n, Of({"call"}), JsNestedFunctionDecls)

Value(n) == IF Kids(n) = {} THEN "literal" ELSE kind[FirstKid(n)]

JsIsDeclaredValue(n) == Value(n) \notin {"ident", "require"}

JsAnonymous(n) == name[n] = ""

JsObjectHasFunctions(o) ==
  \E m \in Kids(o) : kind[m] = "method" \/ Value(m) \in JsFnValues

-----------------------------------------------------------------------------
(* What the visitors pass down.  `by` is the visitor that sees a node,     *)
(* "none" if none does.                                                    *)

JsBy(v, owner, exp) == [by |-> v, owner |-> owner, exp |-> exp, values |-> FALSE, depth |-> 1]
JsUnseen == JsBy("none", << >>, FALSE)

JsObjectIn(owner, exp, values, depth) ==
  [by |-> "object", owner |-> owner, exp |-> exp, values |-> values, depth |-> depth]

\* jsAssignParent: a namespace around it is taken for the object's name.
JsAssignParent(n, owner) ==
  IF owner # << >> \/ kind[n] \in {"exports", "module"} THEN owner ELSE <<"C">>

\* The context of the value v of n, which the visitor sees in context c.
JsValueOf(n, v, c) ==
  LET own == QualJoin(c.owner, name[n]) IN
  CASE kind[v] = "object" /\ kind[n] = "var" -> JsObjectIn(own, FALSE, FALSE, 1)
    [] kind[v] = "object" /\ kind[n] = "exports" -> JsObjectIn(<<name[n]>>, FALSE, FALSE, 1)
    [] kind[v] = "object" /\ kind[n] = "module" -> JsObjectIn(<< >>, TRUE, TRUE, 0)
    [] kind[v] = "object" /\ kind[n] = "pair" /\ c.depth = 0 /\ JsObjectHasFunctions(v) ->
         JsObjectIn(own, FALSE, FALSE, 1)
    [] kind[v] = "classexp" /\ kind[n] = "var" -> JsBy("class", own, c.exp)
    [] kind[v] = "classexp" /\ kind[n] = "exports" -> JsBy("class", <<name[n]>>, TRUE)
    [] kind[v] = "classexp" /\ kind[n] = "module" /\ ~JsAnonymous(v) ->
         JsBy("class", <<name[v]>>, TRUE)
    [] kind[v] = "classexp" /\ kind[n] \in {"member", "chain"} ->
         JsBy("class", QualJoin(JsAssignParent(n, c.owner), name[n]), FALSE)
    [] OTHER -> JsUnseen

JsBelow(n, p, c) ==
  LET own == QualJoin(c.owner, name[p]) IN
  IF c.by = "none" THEN JsUnseen
  ELSE CASE c.by = "class" -> JsBy("visit", c.owner, FALSE)
         [] c.by = "object" /\ kind[p] = "object" -> c
         [] kind[p] = "class" -> JsBy("visit", own, FALSE)
         [] kind[p] = "iface" -> JsBy("member", own, FALSE)
         [] kind[p] = "enum" -> JsBy("member", own, c.exp)
         [] kind[p] = "ns" -> JsBy(c.by, own, FALSE)
         [] kind[p] = "ambient" -> JsBy("ambient", c.owner, c.exp)
         [] kind[p] = "strmod" -> JsBy("ambient", c.owner, FALSE)
         [] kind[p] = "export" /\ kind[n] = "object" -> JsObjectIn(c.owner, TRUE, FALSE, 0)
         [] kind[p] = "export" /\ kind[n] # "object" ->
              JsBy(IF kind[n] \in {"fsig", "var"} THEN c.by ELSE "visit", c.owner, TRUE)
         [] OTHER -> JsValueOf(p, n, c)

JsCtx[n \in File] ==
  IF n = 1 THEN JsUnseen
  ELSE IF Up(n) = 1 THEN JsBy("visit", << >>, FALSE)
  ELSE JsBelow(n, Up(n), JsCtx[Up(n)])

-----------------------------------------------------------------------------
(* What they emit for the node n seen in context c                         *)

Exported(yes) == IF yes THEN {"exported"} ELSE {}
FnSort(owner) == IF owner = << >> THEN "function" ELSE "method"

JsNamedSym(n, sort, c) ==
  {MemberOf(n, sort, c.owner, IF sort \in {"function", "method"} THEN JsCallSites(n) ELSE {},
            Exported(c.exp))}

\* this.x = .. anywhere in the body but in functions and classes of its own.
JsThisFields(body, owner) ==
  {MemberOf(t, "field", owner, {}, {"this-assigned"}) :
     t \in {t \in Of({"this"}) :
              /\ InSubtree(lev, body, t)
              /\ Way(body, t) \cap Of({"fn", "funcexp", "class", "classexp", "method"}) = {}}}

JsParamProperties(n, owner) ==
  {MemberOf(m, "field", owner, {}, {}) : m \in {m \in Kids(n) : kind[m] = "param"}}

JsMethodDef(n, owner) ==
  IF name[n] = "constructor" /\ owner # << >>
  THEN {MemberOf(n, "constructor", owner, JsCallSites(n), {})}
         \cup JsParamProperties(n, owner) \cup JsThisFields(n, owner)
  ELSE {MemberOf(n, "method", owner, JsCallSites(n), {})}

JsFieldDef(n, owner) ==
  {MemberOf(n, "field", owner,
            IF Value(n) \in JsFnValues THEN JsCallSites(FirstKid(n)) ELSE {}, {})}

JsDecoratorCalls(n) ==
  UNION {JsCallSites(d) : d \in {d \in Kids(n) : kind[d] = "deco"}}

JsClassSym(n, owner, exp) ==
  {Sym(n, "class", owner, QualLast(SubSeq(owner, 1, Len(owner) - 1)), JsDecoratorCalls(n),
       Exported(exp))}

JsArrowDecl(n, c) ==
  CASE Value(n) \in JsFnValues ->
         {MemberOf(n, FnSort(c.owner), c.owner, JsCallSites(FirstKid(n)), Exported(c.exp))}
    [] Value(n) \in {"require", "classexp"} -> {}
    [] OTHER -> {MemberOf(n, "variable", c.owner, {}, Exported(c.exp))}

JsTargets(n) == {name[n]} \cup IF kind[n] = "chain" THEN {"y"} ELSE {}

\* One symbol per target, all with the calls of the one function.
JsAssignTarget(n, x, c) ==
  LET parent == JsAssignParent(n, c.owner)
      exp == kind[n] = "exports"
      module == kind[n] = "module"
      own == IF ~module THEN x ELSE IF JsAnonymous(FirstKid(n)) THEN "exports" ELSE name[FirstKid(n)]
      function ==
        {Sym(n, FnSort(parent), <<own>>, parent,
             JsCallSites(FirstKid(n)), Exported(exp \/ module))}
  IN  CASE Value(n) = "arrow" -> function
        [] Value(n) = "funcexp" ->
             function \cup IF parent # << >> THEN JsThisFields(FirstKid(n), parent) ELSE {}
        [] Value(n) \notin JsFnValues \cup {"classexp"} /\ exp /\ JsIsDeclaredValue(n) ->
             {Sym(n, "variable", <<x>>, << >>, {}, {"exported"})}
        [] OTHER -> {}

JsAssignFunc(n, c) == UNION {JsAssignTarget(n, x, c) : x \in JsTargets(n)}

JsDefineProperty(n) == {Sym(n, "method", <<name[n]>>, <<"C">>, JsCallSites(n), {})}

JsObjectMember(n, c) ==
  CASE kind[n] = "method" ->
         IF c.owner # << >> THEN JsMethodDef(n, c.owner) ELSE JsNamedSym(n, "function", c)
    [] kind[n] = "pair" /\ Value(n) \in JsFnValues ->
         {MemberOf(n, FnSort(c.owner), c.owner, JsCallSites(FirstKid(n)),
                   Exported(c.owner = << >> /\ c.exp))}
    [] kind[n] = "pair" /\ Value(n) = "object" /\ c.depth = 0
         /\ JsObjectHasFunctions(FirstKid(n)) -> {MemberOf(n, "variable", c.owner, {}, {})}
    [] kind[n] = "pair" /\ Value(n) \notin JsFnValues \cup {"object"} /\ c.values
         /\ JsIsDeclaredValue(n) ->
         {MemberOf(n, "variable", c.owner, {}, Exported(c.owner = << >> /\ c.exp))}
    [] OTHER -> {}

JsVisitChild(n, c) ==
  CASE kind[n] = "fn" -> JsNamedSym(n, FnSort(c.owner), c)
    [] kind[n] = "class" -> JsClassSym(n, QualJoin(c.owner, name[n]), c.exp)
    [] kind[n] \in {"iface", "enum", "ns"} -> JsNamedSym(n, kind[n], c)
    [] kind[n] = "method" -> JsMethodDef(n, c.owner)
    [] kind[n] = "field" -> JsFieldDef(n, c.owner)
    [] kind[n] = "var" -> JsArrowDecl(n, c)
    [] kind[n] \in {"exports", "module", "member", "chain"} -> JsAssignFunc(n, c)
    [] kind[n] = "define" -> JsDefineProperty(n)
    [] kind[n] = "fsig" /\ c.by = "ambient" ->
         {MemberOf(n, FnSort(c.owner), c.owner, {}, Exported(c.exp) \cup {"declaration"})}
    [] OTHER -> {}

JsEmit(n) ==
  LET c == JsCtx[n] IN
  CASE c.by \in {"visit", "ambient"} -> JsVisitChild(n, c)
    [] c.by = "member" ->
         {MemberOf(n, "member", c.owner, {},
                   Exported(c.exp) \cup IF kind[n] = "sig" THEN {"declaration"} ELSE {})}
    [] c.by = "class" -> JsClassSym(n, c.owner, c.exp)
    [] c.by = "object" -> JsObjectMember(n, c)
    [] OTHER -> {}

JsVisit ==
  /\ prof.lang = "javascript"
  /\ Pass("parse", "locals", UNION {JsEmit(n) : n \in File})

\* jsEnclosingQualifier: the names around n, outermost first.
JsEnclosingQualifier[n \in File] ==
  IF n = 1 THEN << >>
  ELSE LET p == Up(n)
           rest == JsEnclosingQualifier[p]
       IN  CASE kind[p] \in {"fn", "class", "method", "ns", "strmod"} -> QualJoin(rest, name[p])
             [] kind[p] \in JsFnValues /\ kind[Up(p)] = "var" -> QualJoin(rest, name[Up(p)])
             [] OTHER -> rest

JsLocalFunctions ==
  /\ prof.lang = "javascript"
  /\ Pass("locals", "dedupe",
          out \cup {Sym(n, "function", QualJoin(JsEnclosingQualifier[n], name[n]), << >>,
                        JsCallSites(n), {"local"}) : n \in JsNestedFunctionDecls})

JsKey(s) == IF Len(s.qual) = 1 /\ s.parent # << >> THEN s.parent \o s.qual ELSE s.qual
ThisAssigned(s) == "this-assigned" \in s.marks

\* jsDedupeThisFields
JsDedupe ==
  /\ prof.lang = "javascript"
  /\ Pass("dedupe", "exports",
          {s \in out : ThisAssigned(s) =>
             \A r \in out : JsKey(r) = JsKey(s) => ThisAssigned(r) /\ s.at <= r.at})

\* jsNamedExports: the export clauses of the file itself.
JsNamedExports == {name[n] : n \in {n \in Of({"spec"}) : Up(Up(Up(n))) = 1}}

JsExports ==
  /\ prof.lang = "javascript"
  /\ Pass("exports", "done",
          {IF s.parent = << >> /\ \E x \in JsNamedExports : QualLast(s.qual) = <<x>>
           THEN [s EXCEPT !.marks = @ \cup {"exported"}] ELSE s : s \in out})

JsNext == JsFile \/ JsVisit \/ JsLocalFunctions \/ JsDedupe \/ JsExports
=============================================================================
