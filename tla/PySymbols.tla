------------------------------ MODULE PySymbols ------------------------------
(***************************************************************************)
(* The symbols of a Python file (extractPythonNodes) and the calls each is *)
(* given (pythonCallSites).                                                *)
(*                                                                         *)
(* Node types: "def" and "class" with their body as children after an      *)
(* optional "header" (parameters with their defaults, base classes);       *)
(* "deco" (decorated_definition) with "decorator"s before its definition;  *)
(* "if" for every compound statement and clause, blocks merged; "call";    *)
(* "assign" (x = ...), "typed" (x: T = ...), "self" (self.x = ...) and     *)
(* "import".                                                               *)
(***************************************************************************)
EXTENDS Extraction

PyBody == {"def", "class", "deco", "if", "call", "assign"}
PyScopes == Of({"def", "class", "deco"})

\* The statements of a def's own block, in or outside compound statements.
InDef(p) ==
  \E d \in Of({"def"}) : /\ InSubtree(lev, d, p)
                         /\ \A m \in Way(d, p) : kind[m] = "if"

PyUnder(p) ==
  CASE kind[p] = "file" -> PyBody \cup {"typed", "import"}
    [] kind[p] = "if" -> PyBody \cup (IF InDef(p) THEN {"self"} ELSE {"typed", "import"})
    [] kind[p] = "class" -> PyBody \cup {"typed"} \cup (IF Kids(p) = {} THEN {"header"} ELSE {})
    [] kind[p] = "def" -> PyBody \cup {"self"} \cup (IF Kids(p) = {} THEN {"header"} ELSE {})
    [] kind[p] = "deco" -> IF Kids(p) = {} THEN {"decorator"}
                           ELSE IF Kids(p) \cap Of({"def", "class"}) = {}
                                THEN {"decorator", "def", "class"} ELSE {}
    [] kind[p] \in {"call", "header", "decorator", "assign"} ->
         IF Kids(p) = {} THEN {"call"} ELSE {}
    [] OTHER -> {}

PyFile ==
  /\ prof.lang = "python"
  /\ \E l \in Levels : \E k \in PyUnder(Open(l)) : Grow(l, k)

\* Every decorated definition has its definition.
PyWhole == \A n \in Of({"deco"}) : Kids(n) \cap Of({"def", "class"}) # {}

\* A bare decorator is a call of its name.
PyCalls == Of({"call"}) \cup {d \in Of({"decorator"}) : Kids(d) = {}}

PyHeader(n) == {m \in Of({"header"}) : Up(m) = n}

\* Fault: the walk goes on into the definitions nested in the body.
PyCallSitesDeep(n) ==
  {c \in PyCalls : InSubtree(lev, n, c) /\ Way(n, c) \cap PyHeader(n) = {}}

\* pythonCallSites of n's body: calls outside the definitions nested in it,
\* and those of their decorators.
PyCallSites(n) ==
  {c \in PyCalls : /\ InSubtree(lev, n, c)
                   /\ Way(n, c) \cap PyHeader(n) = {}
                   /\ LET scopes == Way(n, c) \cap PyScopes IN
                        \/ scopes = {}
                        \/ \E d \in scopes : /\ scopes = {d} /\ kind[d] = "deco"
                                             /\ \E e \in Way(d, c) : kind[e] = "decorator"}

\* What pythonVisit passes down to the children of each node: the class, the
\* qualifier and whether they are in a function; `on` is FALSE below the
\* nodes it does not enter.
PyCtx[n \in File] ==
  IF n = 1 THEN [on |-> TRUE, class |-> << >>, qual |-> << >>, inFunction |-> FALSE]
  ELSE LET c == PyCtx[Up(n)]
           q == QualJoin(c.qual, name[n])
       IN  CASE ~c.on -> c
             [] c.on /\ kind[n] = "def" -> [c EXCEPT !.qual = q, !.inFunction = TRUE]
             [] c.on /\ kind[n] = "class" ->
                  [on |-> TRUE, class |-> q, qual |-> q, inFunction |-> FALSE]
             [] c.on /\ kind[n] \in {"deco", "if"} -> c
             [] OTHER -> [c EXCEPT !.on = FALSE]

PyDef(n) ==
  LET c == PyCtx[Up(n)] IN
  MemberOf(n, IF c.class = << >> \/ c.inFunction THEN "function"
              ELSE IF name[n] = "init" THEN "constructor" ELSE "method",
           c.qual, PyCallSites(n), {})

\* Fault: a class in a function is named after the class around it only.
PyClassFlat(n) == MemberOf(n, "class", PyCtx[Up(n)].class, PyCallSites(n), {})

PyClass(n) == MemberOf(n, "class", PyCtx[Up(n)].qual, PyCallSites(n), {})

\* An assignment in a class body is a field; at module level only an
\* annotated one is a symbol of this pass.
PyAssignment(n) ==
  LET c == PyCtx[Up(n)] IN
  IF c.inFunction \/ (c.class = << >> /\ kind[n] = "assign") THEN {}
  ELSE {MemberOf(n, IF c.class = << >> THEN "variable" ELSE "field", c.class, {}, {})}

PyVisited(kinds) == {n \in Of(kinds) : PyCtx[Up(n)].on}

PyMembers ==
  {PyDef(n) : n \in PyVisited({"def"})} \cup {PyClass(n) : n \in PyVisited({"class"})}
    \cup UNION {PyAssignment(n) : n \in PyVisited({"assign", "typed"})}

\* The statements pythonEachBlock reaches from a block, by compound
\* statements only.
PyEachBlock(b, kinds) ==
  {n \in Of(kinds) : InSubtree(lev, b, n) /\ \A m \in Way(b, n) : m = n \/ kind[m] = "if"}

\* The class's __init__: its first, decorated or not.
PyInits(n) ==
  {d \in Of({"def"}) : /\ name[d] = "init"
                       /\ Up(d) = n \/ (kind[Up(d)] = "deco" /\ Up(Up(d)) = n)}

\* pythonInstanceAttributes: the first assignment of each self.x in __init__,
\* unless the class has a member of that name.
PyInstanceAttributes(n, members) ==
  LET class == QualJoin(PyCtx[Up(n)].qual, name[n])
      taken == {s.qual : s \in {s \in members : s.at \in Under(n)}}
  IN  {s \in {MemberOf(a, "field", class, {}, {"instance-attr"}) :
                a \in UNION {{a \in PyEachBlock(i, {"self"}) :
                                \A b \in PyEachBlock(i, {"self"}) : name[b] = name[a] => a <= b} :
                             i \in {i \in PyInits(n) : \A j \in PyInits(n) : i <= j}}} :
         s.qual \notin taken}

PyVisit ==
  /\ prof.lang = "python" /\ PyWhole
  /\ Pass("parse", "assignments",
          PyMembers \cup UNION {PyInstanceAttributes(n, PyMembers) : n \in PyVisited({"class"})})

\* Fault: a name is taken by any symbol of that name, a method or a field too.
PyTakenByName ==
  {QualLast(s.qual) : s \in out} \cup {<<name[i]>> : i \in PyEachBlock(1, {"import"})}

\* Fault: an annotated assignment does not count as a binding.
PyTakenByDefinition ==
  {s.qual : s \in {s \in out : s.parent = << >> /\ s.sort # "variable"}}
    \cup {<<name[i]>> : i \in PyEachBlock(1, {"import"})}

\* The names that a definition, an annotated assignment or an import binds.
PyTaken ==
  {s.qual : s \in {s \in out : s.parent = << >>}}
    \cup {<<name[i]>> : i \in PyEachBlock(1, {"import"})}

\* pythonModuleAssignments: the first plain binding of each module-level name
\* that is not taken.
PyModuleAssignments ==
  LET plain == PyEachBlock(1, {"assign"})
      first == {a \in plain : \A b \in plain : name[b] = name[a] => a <= b}
  IN  /\ prof.lang = "python"
      /\ Pass("assignments", "toplevel",
              out \cup {MemberOf(a, "variable", << >>, {}, {"module-value"}) :
                          a \in {a \in first : <<name[a]>> \notin PyTaken}})

\* pythonTopLevelSymbol: what is left of the module's calls.
PyTopLevel ==
  /\ prof.lang = "python"
  /\ Pass("toplevel", "done",
          IF PyCallSites(1) = {} THEN out
          ELSE out \cup {Sym(1, "function", <<"<top-level>">>, << >>, PyCallSites(1), {})})

PyNext == PyFile \/ PyVisit \/ PyModuleAssignments \/ PyTopLevel

\* Where the call belongs: the innermost definition whose body it stands in,
\* or the module.
PyOwner(c) ==
  CHOOSE s \in Of({"file", "def", "class"}) :
    /\ InSubtree(lev, s, c)
    /\ Way(s, c) \cap Of({"def", "class"}) = {}

\* Default values and base classes are nobody's.
PyOwnerless == {c \in PyCalls : \E h \in Way(1, c) : kind[h] = "header"}
=============================================================================
