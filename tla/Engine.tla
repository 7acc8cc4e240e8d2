------------------------------- MODULE Engine -------------------------------
(***************************************************************************)
(* One call of Engine.Parse or Engine.Validate (engine.go:28-122), with    *)
(* the Kotlin path that may parse twice (kotlinparse.go:32-66).            *)
(*                                                                         *)
(* What can go wrong is the life of the native objects (the parser, the    *)
(* trees, the context with its timer), and the time a call may take.  The  *)
(* parse itself is external: it may end with a tree at any moment, it      *)
(* never has to, and it aborts only once its context is done.  Time is     *)
(* counted in ticks of parsing work; other goroutines may derive engines   *)
(* with WithTimeout meanwhile, and the caller's context may be cancelled.  *)
(***************************************************************************)
EXTENDS SyntaxTree

CONSTANTS DefaultParseTimeout,  \* of NewEngine, in ticks
          Timeouts,             \* arguments of WithTimeout
          MaxEngines,           \* bound on WithTimeout calls
          MaxCuts,              \* bound on a Kotlin source's cuts
          Results               \* what a parse may yield: [tree, errs, missing],
                                \* with its ERROR and its MISSING nodes

ASSUME EngineAssumption ==
  /\ DefaultParseTimeout \in Nat
  /\ Timeouts \subseteq Nat
  /\ MaxEngines \in Nat \ {0}
  /\ MaxCuts \in Nat
  /\ \A r \in Results : /\ IsTree(r.tree) /\ r.errs \subseteq Nodes(r.tree)
                        /\ r.missing \subseteq Nodes(r.tree) \ {1}

VARIABLES timeout,    \* timeout[e]: the field of engine object e
          engine,     \* the receiver of the call
          asked,      \* its timeout when the caller built it
          op, lang,   \* the operation and the kind of language
          cuts,       \* number of comment-only line runs in a Kotlin source
          editable,   \* nativeTree finds go-tree-sitter's layout
          pc,
          parser,     \* "none", "open", "closed"
          parent,     \* the caller's context: "live" or "cancelled"
          cctx,       \* the call's context: "none", "live" or "cancelled"
          left,       \* ticks before cctx's deadline
          elapsed,    \* ticks of parsing done by this call
          trees,      \* the trees parsed: "none", "open", "closed", "returned"
          cur,        \* the tree being worked on
          cut,        \* cuts put back so far
          result,     \* what the last parse produced
          node, kid,  \* firstSyntaxError's n and the child it looks at
          ret         \* the outcome of the call

callVars == <<engine, asked, op, lang, cuts, editable>>
ctxVars == <<parent, cctx, left, elapsed>>
treeVars == <<trees, cur, cut, result>>
searchVars == <<node, kid>>
vars == <<timeout, callVars, pc, parser, ctxVars, treeVars, searchVars, ret>>

NoResult == [tree |-> NilTree, errs |-> {}, missing |-> {}]

Outcomes == Results \cup {NoResult}

Init ==
  /\ timeout = <<DefaultParseTimeout>>
  /\ engine = 1 /\ asked = DefaultParseTimeout
  /\ op \in {"Parse", "Validate"}
  /\ lang \in {"none", "plain", "kotlin"}
  /\ cuts \in IF lang = "kotlin" THEN 0 .. MaxCuts ELSE {0}
  /\ editable \in BOOLEAN
  /\ pc = "build"
  /\ parser = "none"
  /\ parent = "live" /\ cctx = "none" /\ left = 0 /\ elapsed = 0
  /\ trees = [i \in {1, 2} |-> "none"]
  /\ cur = 0 /\ cut = 0 /\ result = NoResult
  /\ node = 0 /\ kid = 0
  /\ ret = "none"

-----------------------------------------------------------------------------
(* The environment *)

\* Fault: WithTimeout sets the timeout of e itself.
WithTimeoutInPlace ==
  /\ pc # "returned"
  /\ Len(timeout) < MaxEngines
  /\ \E e \in 1 .. Len(timeout), d \in Timeouts :
       timeout' = Append([timeout EXCEPT ![e] = d], d)
  /\ UNCHANGED <<callVars, pc, parser, ctxVars, treeVars, searchVars, ret>>

\* Another goroutine derives an engine: a copy with its own timeout.
WithTimeout ==
  /\ pc # "returned"
  /\ Len(timeout) < MaxEngines
  /\ \E d \in Timeouts : timeout' = Append(timeout, d)
  /\ UNCHANGED <<callVars, pc, parser, ctxVars, treeVars, searchVars, ret>>

CallerCancels ==
  /\ pc # "returned" /\ parent = "live"
  /\ parent' = "cancelled"
  /\ UNCHANGED <<timeout, callVars, pc, parser, cctx, left, elapsed, treeVars,
                 searchVars, ret>>

-----------------------------------------------------------------------------
(* Parse *)

\* The caller picks one of the engines; a language without a grammar ends
\* the call with (nil, nil).
Call ==
  /\ pc = "build"
  /\ \E e \in 1 .. Len(timeout) : engine' = e /\ asked' = timeout[e]
  /\ pc' = IF lang = "none" THEN "parsed" ELSE "newParser"
  /\ ret' = IF lang = "none" THEN "nil" ELSE "none"
  /\ UNCHANGED <<timeout, op, lang, cuts, editable, parser, ctxVars, treeVars,
                 searchVars>>

NewParser ==
  /\ pc = "newParser"
  /\ parser' = "open"
  /\ pc' = "newContext"
  /\ UNCHANGED <<timeout, callVars, ctxVars, treeVars, searchVars, ret>>

\* context.WithTimeout(ctx, e.timeout); the first parse starts under it.
NewContext ==
  /\ pc = "newContext"
  /\ cctx' = "live"
  /\ left' = timeout[engine]
  /\ pc' = "parsing"
  /\ cur' = 1
  /\ UNCHANGED <<timeout, callVars, parser, parent, elapsed, trees, cut, result,
                 searchVars, ret>>

\* Fault: the call runs under the caller's context alone.
CtxDoneByCaller == parent = "cancelled"

CtxDone == parent = "cancelled" \/ left = 0

\* One tick of parsing work.
Tick ==
  /\ pc = "parsing" /\ left > 0
  /\ left' = left - 1
  /\ elapsed' = elapsed + 1
  /\ UNCHANGED <<timeout, callVars, pc, parser, parent, cctx, treeVars,
                 searchVars, ret>>

\* The Kotlin source without its comment-only lines was parsed: its cuts are
\* to be put back.
Compact == lang = "kotlin" /\ cuts > 0 /\ cur = 1

ParseEnds ==
  /\ pc = "parsing"
  /\ \E r \in Results : result' = r
  /\ trees' = [trees EXCEPT ![cur] = "open"]
  /\ pc' = IF Compact THEN "edit" ELSE "cancel"
  /\ ret' = IF Compact THEN "none" ELSE "tree"
  /\ UNCHANGED <<timeout, callVars, parser, ctxVars, cur, cut, searchVars>>

ParseAborts ==
  /\ pc = "parsing" /\ CtxDone
  /\ ret' = "error"
  /\ pc' = "cancel"
  /\ UNCHANGED <<timeout, callVars, parser, ctxVars, treeVars, searchVars>>

\* treeEdit for the next cut.
Edit ==
  /\ pc = "edit" /\ editable /\ cut < cuts
  /\ cut' = cut + 1
  /\ UNCHANGED <<timeout, callVars, pc, parser, ctxVars, trees, cur, result,
                 searchVars, ret>>

Edited ==
  /\ pc = "edit" /\ cut = cuts
  /\ ret' = "tree"
  /\ pc' = "cancel"
  /\ UNCHANGED <<timeout, callVars, parser, ctxVars, treeVars, searchVars>>

\* Fault: the tree that could not be edited is not closed.
ParseInPlaceLeak ==
  /\ pc = "edit" /\ ~editable /\ cut < cuts
  /\ cur' = 2
  /\ pc' = "parsing"
  /\ UNCHANGED <<timeout, callVars, parser, ctxVars, trees, cut, result,
                 searchVars, ret>>

\* Fault: the second parse gets a timeout of its own.
ParseInPlaceAfresh ==
  /\ pc = "edit" /\ ~editable /\ cut < cuts
  /\ trees' = [trees EXCEPT ![cur] = "closed"]
  /\ cur' = 2
  /\ left' = timeout[engine]
  /\ pc' = "parsing"
  /\ UNCHANGED <<timeout, callVars, parser, parent, cctx, elapsed, cut, result,
                 searchVars, ret>>

\* treeEdit answers false: the tree is given up and the masked source parsed
\* in place, with the same parser under the same context.
ParseInPlace ==
  /\ pc = "edit" /\ ~editable /\ cut < cuts
  /\ trees' = [trees EXCEPT ![cur] = "closed"]
  /\ cur' = 2
  /\ pc' = "parsing"
  /\ UNCHANGED <<timeout, callVars, parser, ctxVars, cut, result, searchVars,
                 ret>>

\* The deferred calls, last one first.
CancelContext ==
  /\ pc = "cancel"
  /\ cctx' = "cancelled"
  /\ pc' = "closeParser"
  /\ UNCHANGED <<timeout, callVars, parser, parent, left, elapsed, treeVars,
                 searchVars, ret>>

CloseParser ==
  /\ pc = "closeParser"
  /\ parser' = "closed"
  /\ pc' = "parsed"
  /\ UNCHANGED <<timeout, callVars, ctxVars, treeVars, searchVars, ret>>

\* Parse hands its tree to the caller, who is to close it.
ReturnParse ==
  /\ pc = "parsed" /\ op = "Parse"
  /\ trees' = IF ret = "tree" THEN [trees EXCEPT ![cur] = "returned"] ELSE trees
  /\ pc' = "returned"
  /\ UNCHANGED <<timeout, callVars, parser, ctxVars, cur, cut, result,
                 searchVars, ret>>

-----------------------------------------------------------------------------
(* Validate *)

ErrorNodes == result.errs \cup result.missing

\* n.IsError() || n.IsMissing()
IsErrorNode(n) == n \in ErrorNodes

\* n.HasError(): tree-sitter's flag for an ERROR node at n or below it, or a
\* MISSING one below it.  Of a MISSING node itself firstSyntaxError does not
\* ask for the flag alone.
HasError(n) ==
  \/ Subtree(result.tree, n) \cap result.errs # {}
  \/ (Subtree(result.tree, n) \ {n}) \cap result.missing # {}

\* Fault: the flag is asked for alone.
ErroneousByFlag(c) == HasError(c)

\* c.HasError() || c.IsMissing()
Erroneous(c) == HasError(c) \/ c \in result.missing

\* Fault: a tree without errors is not closed.
ValidateLeak ==
  /\ pc = "parsed" /\ op = "Validate"
  /\ IF ret # "tree" \/ ~HasError(1)
     THEN /\ pc' = "returned"
          /\ ret' = IF ret = "tree" THEN "nil" ELSE ret
          /\ UNCHANGED searchVars
     ELSE /\ pc' = "search"
          /\ ret' = "syntax"
          /\ node' = 1 /\ kid' = FirstChild(result.tree, 1)
  /\ UNCHANGED <<timeout, callVars, parser, ctxVars, treeVars>>

\* Fault: the tree is closed as soon as HasError has been asked.
ValidateCloseEarly ==
  /\ pc = "parsed" /\ op = "Validate"
  /\ \/ /\ ret # "tree"
        /\ pc' = "returned"
        /\ UNCHANGED <<ret, searchVars, trees>>
     \/ /\ ret = "tree" /\ ~HasError(1)
        /\ pc' = "returned"
        /\ ret' = "nil"
        /\ trees' = [trees EXCEPT ![cur] = "closed"]
        /\ UNCHANGED searchVars
     \/ /\ ret = "tree" /\ HasError(1)
        /\ pc' = "search"
        /\ ret' = "syntax"
        /\ trees' = [trees EXCEPT ![cur] = "closed"]
        /\ node' = 1 /\ kid' = FirstChild(result.tree, 1)
  /\ UNCHANGED <<timeout, callVars, parser, ctxVars, cur, cut, result>>

\* The parse error, or nil without a tree; then nil for a tree whose root
\* does not HasError().
Validate ==
  /\ pc = "parsed" /\ op = "Validate"
  /\ \/ /\ ret # "tree"
        /\ pc' = "returned"
        /\ UNCHANGED <<ret, searchVars>>
     \/ /\ ret = "tree" /\ ~HasError(1)
        /\ pc' = "closeTree"
        /\ ret' = "nil"
        /\ UNCHANGED searchVars
     \/ /\ ret = "tree" /\ HasError(1)
        /\ pc' = "search"
        /\ ret' = "syntax"
        /\ node' = 1 /\ kid' = FirstChild(result.tree, 1)
  /\ UNCHANGED <<timeout, callVars, parser, ctxVars, treeVars>>

\* The first child with an error below or at it becomes n.
DescendToError ==
  /\ pc = "search" /\ ~IsErrorNode(node)
  /\ kid # 0 /\ Erroneous(kid)
  /\ node' = kid
  /\ kid' = FirstChild(result.tree, kid)
  /\ UNCHANGED <<timeout, callVars, pc, parser, ctxVars, treeVars, ret>>

SkipChild ==
  /\ pc = "search" /\ ~IsErrorNode(node)
  /\ kid # 0 /\ ~Erroneous(kid)
  /\ kid' = NextSibling(result.tree, kid)
  /\ UNCHANGED <<timeout, callVars, pc, parser, ctxVars, treeVars, node, ret>>

\* n is an error, or no child of it has one.
FoundError ==
  /\ pc = "search" /\ (IsErrorNode(node) \/ kid = 0)
  /\ pc' = "closeTree"
  /\ UNCHANGED <<timeout, callVars, parser, ctxVars, treeVars, searchVars, ret>>

\* The deferred tree.Close() of Validate.
CloseTree ==
  /\ pc = "closeTree"
  /\ trees' = [trees EXCEPT ![cur] = "closed"]
  /\ pc' = "returned"
  /\ UNCHANGED <<timeout, callVars, parser, ctxVars, cur, cut, result,
                 searchVars, ret>>

-----------------------------------------------------------------------------
ParseStep ==
  \/ Call \/ NewParser \/ NewContext \/ Edit \/ Edited \/ ParseInPlace
  \/ CancelContext \/ CloseParser \/ ReturnParse

ValidateStep ==
  Validate \/ DescendToError \/ SkipChild \/ FoundError \/ CloseTree

Next ==
  \/ WithTimeout \/ CallerCancels
  \/ Tick \/ ParseEnds \/ ParseAborts
  \/ ParseStep \/ ValidateStep

Spec == Init /\ [][Next]_vars

\* The goroutine of the call runs, time passes, and a parse whose context is
\* done notices it.  A parse need not end by itself.
FairSpec ==
  /\ Spec
  /\ WF_vars(ParseStep \/ ValidateStep)
  /\ WF_vars(Tick)
  /\ WF_vars(ParseAborts)

-----------------------------------------------------------------------------
Locations ==
  {"build", "newParser", "newContext", "parsing", "edit", "cancel",
   "closeParser", "parsed", "search", "closeTree", "returned"}

TypeOK ==
  /\ timeout \in Seq(Nat) /\ engine \in 1 .. Len(timeout) /\ asked \in Nat
  /\ op \in {"Parse", "Validate"} /\ lang \in {"none", "plain", "kotlin"}
  /\ cuts \in Nat /\ cut \in Nat /\ editable \in BOOLEAN
  /\ pc \in Locations
  /\ parser \in {"none", "open", "closed"}
  /\ parent \in {"live", "cancelled"}
  /\ cctx \in {"none", "live", "cancelled"}
  /\ left \in Nat /\ elapsed \in Nat
  /\ trees \in [{1, 2} -> {"none", "open", "closed", "returned"}]
  /\ cur \in 0 .. 2
  /\ result \in Outcomes
  /\ node \in Nat /\ kid \in Nat
  /\ ret \in {"none", "nil", "tree", "error", "syntax"}

\* The deadline is fixed when the context is made and never pushed back.
Budget ==
  /\ pc \in {"newParser", "newContext"} => asked = timeout[engine]
  /\ IF cctx = "none" THEN elapsed = 0 /\ left = 0 ELSE elapsed + left = asked

\* Which locations hold the parser and the context.
Held ==
  /\ parser = "open" <=>
       pc \in {"newContext", "parsing", "edit", "cancel", "closeParser"}
  /\ cctx = "live" <=> pc \in {"parsing", "edit", "cancel"}
  /\ pc \in {"build", "newParser", "newContext"} => cctx = "none"

\* Which locations own a tree: the current one, and no other.
OwnsTree ==
  \/ pc \in {"edit", "search", "closeTree"}
  \/ pc \in {"cancel", "closeParser", "parsed"} /\ ret = "tree"

HandsOver == pc = "returned" /\ op = "Parse" /\ ret = "tree"

Owned ==
  /\ \A i \in {1, 2} :
       /\ trees[i] = "open" <=> OwnsTree /\ i = cur
       /\ trees[i] = "returned" <=> HandsOver /\ i = cur
  /\ pc \in {"build", "newParser", "newContext"} => trees[1] = "none"
  /\ pc \in {"build", "newParser", "newContext", "edit"} => trees[2] = "none"
  /\ pc = "parsing" => trees[cur] = "none" /\ (cur = 1 => trees[2] = "none")
  /\ pc \in {"parsing", "edit"} => cur # 0
  /\ OwnsTree \/ HandsOver => cur # 0
  /\ pc \in {"build", "newParser", "newContext", "parsing", "edit"} => ret = "none"
  /\ pc = "edit" => cur = 1
  /\ pc = "returned" /\ op = "Validate" => ret # "tree"
  /\ pc \in {"search", "closeTree"} => op = "Validate" /\ ret # "tree"

\* Validate names the first ERROR or MISSING node in source order
\* (engine.go:102-122).
FirstErrorNamed ==
  pc = "closeTree" /\ ret = "syntax" =>
    /\ node \in ErrorNodes
    /\ \A e \in ErrorNodes : node <= e

\* firstSyntaxError stays on the path to the first error: no error precedes
\* n, none precedes the child it looks at, and there is one below n.
Searching ==
  LET t == result.tree
  IN  /\ ret = "syntax"
      /\ node \in Nodes(t) /\ Erroneous(node)
      /\ \A e \in ErrorNodes : node <= e
      /\ ~IsErrorNode(node) =>
           /\ kid \in Nodes(t) /\ InSubtree(t, node, kid)
           /\ t[kid] = t[node] + 1
           /\ \A e \in ErrorNodes : kid <= e

Search ==
  /\ OwnsTree => result \in Results
  /\ pc = "search" => Searching
  /\ FirstErrorNamed

\* The inductive invariant: types, the deadline, who owns what, the search.
IInv == TypeOK /\ Budget /\ Held /\ Owned /\ Search

\* Once the call has returned, on whatever path, its parser is closed, its
\* timer stopped, and of its trees none is open: at most one went to the
\* caller of Parse, and that one exactly when the call did not fail
\* (engine.go:48-78, 88-100; kotlinparse.go:61).
NothingLeaks ==
  pc = "returned" =>
    /\ parser # "open" /\ cctx # "live"
    /\ \A i \in {1, 2} : trees[i] # "open"
    /\ {i \in {1, 2} : trees[i] = "returned"} =
         IF op = "Parse" /\ ret = "tree" THEN {cur} ELSE {}

\* Every native object is used while it is open: the parser by a parse, the
\* tree by the edits, the search and the error's position.
UsedWhileOpen ==
  /\ pc = "parsing" => parser = "open" /\ cctx = "live" /\ trees[cur] = "none"
  /\ pc \in {"edit", "search", "closeTree"} => trees[cur] = "open"
  /\ ret = "tree" /\ pc # "returned" => trees[cur] = "open"

\* A call parses for no longer than the timeout of the engine it was made
\* on: the two parses of the Kotlin path share one deadline, and no engine
\* derived from it meanwhile changes it (engine.go:41-46, 65).
TimeBounded == elapsed <= asked

\* Every call returns, even when the parser would run for ever.
EveryCallReturns == <>(pc = "returned")
=============================================================================
