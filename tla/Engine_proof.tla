---------------------------- MODULE Engine_proof ----------------------------
(***************************************************************************)
(* For every timeout, every set of parse results and any number of derived *)
(* engines: a call leaks no native object, uses each while it is open, and *)
(* parses for no longer than the timeout of its engine.                    *)
(***************************************************************************)
EXTENDS Engine, SyntaxTree_proof, TLAPS

\* The invariant without the search.
Life == TypeOK /\ Budget /\ Held /\ Owned

LEMMA InitInv == Init => Life
<1>1. DefaultParseTimeout \in Nat /\ MaxCuts \in Nat
  BY EngineAssumption
<1>2. ASSUME Init PROVE cuts \in Nat
  BY <1>1, <1>2 DEF Init
<1>. QED
  BY <1>1, <1>2
     DEF Init, Life, TypeOK, Outcomes, Budget, Held, Owned, OwnsTree, HandsOver, Locations

\* The environment: engines derived meanwhile leave those there are alone.
LEMMA EnvironmentStep == IInv /\ (WithTimeout \/ CallerCancels) => Life'
<1>a. SUFFICES ASSUME IInv, WithTimeout \/ CallerCancels PROVE Life'
  OBVIOUS
<1>0. TypeOK /\ Budget /\ Held /\ Owned
  BY <1>a DEF IInv, Life
<1>1. CASE WithTimeout
  <2>1. PICK d \in Timeouts : timeout' = Append(timeout, d)
    BY <1>1 DEF WithTimeout
  <2>2. d \in Nat /\ timeout \in Seq(Nat) /\ engine \in 1 .. Len(timeout)
    BY <1>0, EngineAssumption DEF TypeOK
  <2>3. /\ timeout' \in Seq(Nat) /\ engine \in 1 .. Len(timeout')
        /\ timeout'[engine] = timeout[engine]
    BY <2>1, <2>2
  <2>. QED
    BY <2>3, <1>0, <1>1
       DEF Life, WithTimeout, TypeOK, Budget, Held, Owned, OwnsTree, HandsOver,
           callVars, ctxVars, treeVars, searchVars
<1>2. CASE CallerCancels
  BY <1>0, <1>2
     DEF Life, CallerCancels, TypeOK, Budget, Held, Owned, OwnsTree, HandsOver,
         callVars, ctxVars, treeVars, searchVars
<1>. QED
  BY <1>a, <1>1, <1>2

\* The steps of Parse.
LEMMA ParseStepKept ==
  IInv /\ (Tick \/ ParseEnds \/ ParseAborts \/ ParseStep) => Life'
<1>a. SUFFICES ASSUME IInv, Tick \/ ParseEnds \/ ParseAborts \/ ParseStep
               PROVE  Life'
  OBVIOUS
<1>0. TypeOK /\ Budget /\ Held /\ Owned
  BY <1>a DEF IInv, Life
<1>1. CASE Tick
  BY <1>0, <1>1
     DEF Life, Tick, TypeOK, Budget, Held, Owned, OwnsTree, HandsOver,
         Locations, callVars, ctxVars, treeVars, searchVars
<1>2. CASE ParseEnds
  BY <1>0, <1>2
     DEF Life, ParseEnds, Compact, Outcomes, TypeOK, Budget, Held, Owned, OwnsTree, HandsOver,
         Locations, callVars, ctxVars, treeVars, searchVars
<1>3. CASE ParseAborts
  BY <1>0, <1>3
     DEF Life, ParseAborts, TypeOK, Budget, Held, Owned, OwnsTree, HandsOver,
         Locations, callVars, ctxVars, treeVars, searchVars
<1>4. CASE Call
  BY <1>0, <1>4
     DEF Life, Call, TypeOK, Budget, Held, Owned, OwnsTree, HandsOver,
         Locations, callVars, ctxVars, treeVars, searchVars
<1>5. CASE NewParser
  BY <1>0, <1>5
     DEF Life, NewParser, TypeOK, Budget, Held, Owned, OwnsTree, HandsOver,
         Locations, callVars, ctxVars, treeVars, searchVars
<1>6. CASE NewContext
  BY <1>0, <1>6
     DEF Life, NewContext, TypeOK, Budget, Held, Owned, OwnsTree, HandsOver,
         Locations, callVars, ctxVars, treeVars, searchVars
<1>7. CASE Edit
  BY <1>0, <1>7
     DEF Life, Edit, TypeOK, Budget, Held, Owned, OwnsTree, HandsOver,
         Locations, callVars, ctxVars, treeVars, searchVars
<1>8. CASE Edited
  BY <1>0, <1>8
     DEF Life, Edited, TypeOK, Budget, Held, Owned, OwnsTree, HandsOver,
         Locations, callVars, ctxVars, treeVars, searchVars
<1>9. CASE ParseInPlace
  <2>1. cur = 1 /\ trees[2] = "none" /\ trees' = [trees EXCEPT ![1] = "closed"]
    BY <1>0, <1>9 DEF ParseInPlace, Owned
  <2>2. trees'[1] = "closed" /\ trees'[2] = "none"
    BY <2>1, <1>0 DEF TypeOK
  <2>3. trees' \in [{1, 2} -> {"none", "open", "closed", "returned"}]
    BY <2>1, <1>0 DEF TypeOK
  <2>. QED
    BY <2>1, <2>2, <2>3, <1>0, <1>9
     DEF Life, ParseInPlace, TypeOK, Budget, Held, Owned, OwnsTree, HandsOver,
         Locations, callVars, ctxVars, treeVars, searchVars
<1>10. CASE CancelContext
  BY <1>0, <1>10
     DEF Life, CancelContext, TypeOK, Budget, Held, Owned, OwnsTree, HandsOver,
         Locations, callVars, ctxVars, treeVars, searchVars
<1>11. CASE CloseParser
  BY <1>0, <1>11
     DEF Life, CloseParser, TypeOK, Budget, Held, Owned, OwnsTree, HandsOver,
         Locations, callVars, ctxVars, treeVars, searchVars
<1>12. CASE ReturnParse
  BY <1>0, <1>12
     DEF Life, ReturnParse, TypeOK, Budget, Held, Owned, OwnsTree, HandsOver,
         Locations, callVars, ctxVars, treeVars, searchVars
<1>. QED
  BY <1>a, <1>1, <1>2, <1>3, <1>4, <1>5, <1>6, <1>7, <1>8, <1>9, <1>10, <1>11, <1>12 DEF ParseStep

\* The steps of Validate; the search only moves node and kid.
LEMMA ValidateStepKept == IInv /\ ValidateStep => Life'
<1>a. SUFFICES ASSUME IInv, ValidateStep PROVE Life'
  OBVIOUS
<1>0. TypeOK /\ Budget /\ Held /\ Owned /\ Search
  BY <1>a DEF IInv
<1>1. CASE Validate
  <2>1. ret = "tree" => IsTree(result.tree) /\ FirstChild(result.tree, 1) \in Nat
    <3> SUFFICES ASSUME ret = "tree" PROVE IsTree(result.tree)
      BY DEF FirstChild
    <3>. QED
      BY <1>0, <1>1, EngineAssumption DEF Validate, Search, OwnsTree
  <2>. QED
    BY <2>1, <1>0, <1>1
       DEF Life, Validate, TypeOK, Budget, Held, Owned, OwnsTree, HandsOver,
           Locations, callVars, ctxVars, treeVars, searchVars
<1>2. CASE DescendToError
  <2>1. kid \in Nat /\ FirstChild(result.tree, kid) \in Nat
    BY <1>0 DEF TypeOK, FirstChild
  <2>. QED
    BY <2>1, <1>0, <1>2
       DEF Life, DescendToError, TypeOK, Budget, Held, Owned, OwnsTree,
           HandsOver, Locations, callVars, ctxVars, treeVars, searchVars
<1>3. CASE SkipChild
  <2>1. IsTree(result.tree) /\ kid \in Nodes(result.tree)
    BY <1>0, <1>3, EngineAssumption
       DEF SkipChild, Search, Searching, OwnsTree
  <2>2. NextSibling(result.tree, kid) \in Nat
    BY <2>1, NextSiblingLevel DEF Nodes
  <2>. QED
    BY <2>2, <1>0, <1>3
       DEF Life, SkipChild, TypeOK, Budget, Held, Owned, OwnsTree, HandsOver,
           Locations, callVars, ctxVars, treeVars, searchVars
<1>4. CASE FoundError
  BY <1>0, <1>4
     DEF Life, FoundError, TypeOK, Budget, Held, Owned, OwnsTree, HandsOver,
         Locations, callVars, ctxVars, treeVars, searchVars
<1>5. CASE CloseTree
  <2>1. cur \in {1, 2} /\ trees' = [trees EXCEPT ![cur] = "closed"]
    BY <1>0, <1>5 DEF CloseTree, TypeOK, Owned, OwnsTree
  <2>2. /\ trees'[cur] = "closed"
        /\ \A i \in {1, 2} : i # cur => trees'[i] = trees[i]
        /\ trees' \in [{1, 2} -> {"none", "open", "closed", "returned"}]
    BY <2>1, <1>0 DEF TypeOK
  <2>3. op = "Validate" /\ ret # "tree"
    BY <1>0, <1>5 DEF CloseTree, Owned
  <2>. QED
    BY <2>1, <2>2, <2>3, <1>0, <1>5
       DEF Life, CloseTree, TypeOK, Budget, Held, Owned, OwnsTree, HandsOver,
           Locations, callVars, ctxVars, treeVars, searchVars
<1>. QED
  BY <1>a, <1>1, <1>2, <1>3, <1>4, <1>5 DEF ValidateStep

\* Steps that neither search nor change the tree at hand.
LEMMA SearchUntouched ==
  ASSUME IInv, OwnsTree' => OwnsTree, pc' # "search",
         ~(pc' = "closeTree" /\ ret' = "syntax"), UNCHANGED result
  PROVE  Search'
  BY DEF IInv, Search, FirstErrorNamed

\* What Node.HasError and Node.IsMissing say together: an ERROR or a MISSING
\* node is at n or below it.
LEMMA ErroneousSubtree ==
  ASSUME NEW n \in Nodes(result.tree),
         result.missing \subseteq Nodes(result.tree),
         result.tree \in Seq(Nat)
  PROVE  Erroneous(n) <=> Subtree(result.tree, n) \cap ErrorNodes # {}
<1>1. n \in Subtree(result.tree, n)
  BY DEF Subtree, InSubtree, Nodes
<1>. QED
  BY <1>1 DEF Erroneous, HasError, ErrorNodes

\* Of the root, which is no MISSING node, the flag alone says as much.
LEMMA RootHasError ==
  ASSUME IsTree(result.tree), result.errs \subseteq Nodes(result.tree),
         result.missing \subseteq Nodes(result.tree) \ {1}
  PROVE  HasError(1) <=> ErrorNodes # {}
  BY RootSubtree DEF HasError, ErrorNodes, Subtree

\* The first step of the search, at the root.
LEMMA SearchStarts == IInv /\ Validate => Search'
<1>a. SUFFICES ASSUME IInv, Validate PROVE Search'
  OBVIOUS
<1>1. UNCHANGED result /\ (OwnsTree' => OwnsTree)
  BY <1>a DEF Validate, OwnsTree, treeVars
<1>0. ret = "tree" =>
        /\ result \in Results /\ IsTree(result.tree)
        /\ result.errs \subseteq Nodes(result.tree)
        /\ result.missing \subseteq Nodes(result.tree) \ {1}
  BY <1>a, EngineAssumption DEF IInv, Search, OwnsTree, Validate
<1>2. CASE ret = "tree" /\ ErrorNodes # {}
  <2> DEFINE t == result.tree
  <2>1. result \in Results /\ IsTree(t) /\ ErrorNodes \subseteq Nodes(t)
    BY <1>0, <1>2 DEF ErrorNodes
  <2>2. /\ pc' = "search" /\ ret' = "syntax"
        /\ node' = 1 /\ kid' = FirstChild(t, 1)
    BY <1>a, <1>0, <1>2, RootHasError DEF Validate
  <2>3. \A e \in ErrorNodes : e \in Nodes(t) /\ InSubtree(t, 1, e) /\ 1 <= e
    BY <2>1, RootSubtree DEF InSubtree
  <2>4. 1 \in Nodes(t) /\ Erroneous(1)
    BY <1>0, <2>1, <1>2, RootSubtree, RootHasError DEF Erroneous
  <2>5. ASSUME 1 \notin ErrorNodes
        PROVE  LET k == FirstChild(t, 1)
               IN  /\ k \in Nodes(t) /\ InSubtree(t, 1, k) /\ t[k] = t[1] + 1
                   /\ \A e \in ErrorNodes : k <= e
    <3>1. \A e \in ErrorNodes : e # 1
      BY <2>5
    <3>2. PICK e \in ErrorNodes : e \in Nodes(t) /\ InSubtree(t, 1, e)
      BY <2>3, <1>2
    <3>. QED
      BY <2>1, <2>3, <2>4, <3>1, <3>2, <1>2, FirstChildBefore
  <2>6. Searching'
    BY <1>1, <2>2, <2>3, <2>4, <2>5
       DEF Searching, Erroneous, HasError, IsErrorNode, ErrorNodes
  <2>. QED
    BY <1>1, <2>1, <2>2, <2>6 DEF Search, FirstErrorNamed
<1>3. CASE ret # "tree" \/ ErrorNodes = {}
  <2>1. pc' # "search" /\ ~(pc' = "closeTree" /\ ret' = "syntax")
    BY <1>a, <1>0, <1>3, RootHasError DEF Validate
  <2>. QED
    BY <1>1, <1>a, <2>1, SearchUntouched
<1>. QED
  BY <1>2, <1>3

LEMMA BeyondInterval ==
  ASSUME NEW a \in Int, NEW b \in Int, NEW c \in Int,
         a <= c, c \notin a .. b - 1
  PROVE  b <= c
  OBVIOUS

\* One level down, and one child on.
LEMMA SearchMoves == IInv /\ (DescendToError \/ SkipChild) => Search'
<1>a. SUFFICES ASSUME IInv, DescendToError \/ SkipChild PROVE Search'
  OBVIOUS
<1> DEFINE t == result.tree
<1>1. /\ UNCHANGED <<result, pc, ret>> /\ pc = "search"
      /\ (OwnsTree' => OwnsTree) /\ ~IsErrorNode(node)
  BY <1>a DEF DescendToError, SkipChild, OwnsTree, treeVars
<1>2. /\ result \in Results /\ IsTree(t) /\ ErrorNodes \subseteq Nodes(t)
      /\ Searching
  BY <1>a, <1>1, EngineAssumption DEF IInv, Search, OwnsTree, ErrorNodes
<1>e. \A n \in Nodes(t) :
        Erroneous(n) <=> \E f \in ErrorNodes : f \in Nodes(t) /\ InSubtree(t, n, f)
  <2>1. t \in Seq(Nat) /\ result.missing \subseteq Nodes(t)
    BY <1>2 DEF IsTree, ErrorNodes
  <2>. QED
    BY <2>1, ErroneousSubtree DEF Subtree
<1>3. /\ node \in Nodes(t) /\ kid \in Nodes(t)
      /\ InSubtree(t, node, kid) /\ t[kid] = t[node] + 1
      /\ \A e \in ErrorNodes : kid <= e /\ e \in Nodes(t)
      /\ ret = "syntax"
  BY <1>1, <1>2 DEF Searching
<1>4. CASE DescendToError
  <2>1. Erroneous(kid) /\ node' = kid /\ kid' = FirstChild(t, kid)
    BY <1>4 DEF DescendToError
  <2>2. PICK f \in ErrorNodes : f \in Nodes(t) /\ InSubtree(t, kid, f)
    BY <2>1, <1>3, <1>e
  <2>3. ASSUME kid \notin ErrorNodes
        PROVE  LET k == FirstChild(t, kid)
               IN  /\ k \in Nodes(t) /\ InSubtree(t, kid, k)
                   /\ t[k] = t[kid] + 1
                   /\ \A e \in ErrorNodes : k <= e
    <3>1. /\ FirstChild(t, kid) = kid + 1 /\ kid + 1 \in Nodes(t)
          /\ t[kid + 1] = t[kid] + 1 /\ InSubtree(t, kid, kid + 1)
      BY <1>2, <1>3, <2>2, <2>3, FirstChildBefore
    <3>2. \A e \in ErrorNodes : kid + 1 <= e
      BY <1>2, <1>3, <2>3, TreeShape DEF Nodes
    <3>. QED
      BY <3>1, <3>2
  <2>4. Searching'
    BY <1>1, <1>3, <2>1, <2>3
       DEF Searching, Erroneous, HasError, IsErrorNode, ErrorNodes
  <2>. QED
    BY <1>1, <1>2, <2>4 DEF Search, FirstErrorNamed
<1>5. CASE SkipChild
  <2>1. ~Erroneous(kid) /\ node' = node /\ kid' = NextSibling(t, kid)
    BY <1>5 DEF SkipChild
  <2>2. PICK f \in ErrorNodes : f \in Nodes(t) /\ InSubtree(t, node, f)
    BY <1>2, <1>3, <1>e DEF Searching
  <2>3. \A e \in ErrorNodes : ~InSubtree(t, kid, e)
    BY <2>1, <1>3, <1>e
  <2>4. /\ kid' \in Nodes(t) /\ t[kid'] = t[node] + 1
        /\ InSubtree(t, node, kid')
        /\ \A k \in kid .. kid' - 1 : InSubtree(t, kid, k)
    <3>1. kid <= f /\ ~InSubtree(t, kid, f)
      BY <1>3, <2>2, <2>3
    <3>. QED
      BY <1>2, <1>3, <2>1, <2>2, <3>1, NextSiblingBefore
  <2>5. \A e \in ErrorNodes : kid' <= e
    <3> TAKE e \in ErrorNodes
    <3>1. kid <= e /\ e \notin kid .. kid' - 1
      BY <1>3, <2>3, <2>4
    <3>2. e \in Int /\ kid \in Int /\ kid' \in Int
      BY <1>2, <1>3, <2>4, TreeShape DEF Nodes
    <3>. QED
      BY <3>1, <3>2, BeyondInterval
  <2>6. Searching'
    BY <1>1, <1>2, <1>3, <2>1, <2>4, <2>5
       DEF Searching, Erroneous, HasError, IsErrorNode, ErrorNodes
  <2>. QED
    BY <1>1, <1>2, <2>6 DEF Search, FirstErrorNamed
<1>. QED
  BY <1>a, <1>4, <1>5

\* The search ends at an error, which is the first one.
LEMMA SearchEnds == IInv /\ FoundError => Search'
<1>a. SUFFICES ASSUME IInv, FoundError PROVE Search'
  OBVIOUS
<1> DEFINE t == result.tree
<1>1. /\ UNCHANGED <<result, node, kid, ret>> /\ pc = "search"
      /\ pc' = "closeTree" /\ (OwnsTree' => OwnsTree)
      /\ IsErrorNode(node) \/ kid = 0
  BY <1>a DEF FoundError, OwnsTree, treeVars, searchVars
<1>2. result \in Results /\ IsTree(t) /\ Searching
  BY <1>a, <1>1, EngineAssumption DEF IInv, Search, OwnsTree
<1>3. IsErrorNode(node)
  BY <1>1, <1>2, TreeShape DEF Searching, Nodes
<1>. QED
  BY <1>1, <1>2, <1>3
     DEF Search, FirstErrorNamed, Searching, IsErrorNode, ErrorNodes

LEMMA SearchKept == IInv /\ [Next]_vars => Search'
<1>a. SUFFICES ASSUME IInv, [Next]_vars PROVE Search'
  OBVIOUS
<1>1. CASE Validate \/ DescendToError \/ SkipChild \/ FoundError
  BY <1>a, <1>1, SearchStarts, SearchMoves, SearchEnds
<1>2. CASE ParseEnds
  <2>1. result' \in Results /\ pc' \in {"edit", "cancel"}
    BY <1>2 DEF ParseEnds
  <2>. QED
    BY <2>1 DEF Search, FirstErrorNamed
<1>3. CASE WithTimeout \/ CallerCancels
  BY <1>a, <1>3
     DEF IInv, WithTimeout, CallerCancels, Search, Searching, FirstErrorNamed,
         OwnsTree, Erroneous, HasError, IsErrorNode, ErrorNodes, treeVars, searchVars
<1>4. CASE UNCHANGED vars
  BY <1>a, <1>4
     DEF IInv, vars, Search, Searching, FirstErrorNamed, OwnsTree, Erroneous,
         HasError, IsErrorNode, ErrorNodes, treeVars, searchVars
<1>5. CASE Tick \/ ParseAborts \/ ParseStep \/ CloseTree
  <2>1. /\ pc' # "search" /\ pc' # "closeTree" /\ UNCHANGED result
        /\ OwnsTree' => OwnsTree
    BY <1>5
       DEF Tick, ParseAborts, ParseStep, CloseTree, Call, NewParser, NewContext,
           Edit, Edited, ParseInPlace, CancelContext, CloseParser, ReturnParse,
           OwnsTree, treeVars
  <2>. QED
    BY <1>a, <2>1, SearchUntouched
<1>. QED
  BY <1>a, <1>1, <1>2, <1>3, <1>4, <1>5 DEF Next, ValidateStep

-----------------------------------------------------------------------------
\* The invariant behind the results below, for every value of the constants.
THEOREM Inductive == Spec => []IInv
<1>1. Init => IInv
  BY InitInv
     DEF IInv, Life, Init, Search, FirstErrorNamed, OwnsTree
<1>2. IInv /\ [Next]_vars => IInv'
  <2>1. IInv /\ [Next]_vars => Life'
    <3>1. IInv /\ UNCHANGED vars => Life'
      BY DEF IInv, Life, vars, TypeOK, Budget, Held, Owned, OwnsTree, HandsOver,
             callVars, ctxVars, treeVars, searchVars
    <3>. QED
      BY <3>1, EnvironmentStep, ParseStepKept, ValidateStepKept DEF Next
  <2>. QED
    BY <2>1, SearchKept DEF IInv, Life
<1>. QED
  BY <1>1, <1>2, PTL DEF Spec

\* Once a call of Parse or Validate has returned, on whatever path, its parser
\* is closed, its timer stopped and no tree of it open but the one Parse
\* returns (engine.go:48-78, 88-100; kotlinparse.go:61).
THEOREM NoNativeObjectLeaks == Spec => []NothingLeaks
<1>1. IInv => NothingLeaks
  BY DEF IInv, TypeOK, Held, Owned, OwnsTree, HandsOver, NothingLeaks
<1>. QED
  BY <1>1, Inductive, PTL

\* No parser or tree is used after it was closed.
THEOREM NoUseAfterClose == Spec => []UsedWhileOpen
<1>1. IInv => UsedWhileOpen
  BY DEF IInv, TypeOK, Held, Owned, OwnsTree, HandsOver, UsedWhileOpen, Locations
<1>. QED
  BY <1>1, Inductive, PTL

\* A call, the Kotlin one that parses twice included, parses for no longer
\* than the timeout of its engine (engine.go:41-46, 65).
THEOREM DeadlineHolds == Spec => []TimeBounded
<1>1. IInv => TimeBounded
  BY DEF IInv, TypeOK, Budget, TimeBounded
<1>. QED
  BY <1>1, Inductive, PTL

\* Validate names the first syntax error of any tree in source order
\* (engine.go:102-122).
THEOREM FirstErrorIsNamed == Spec => []FirstErrorNamed
<1>1. IInv => FirstErrorNamed
  BY DEF IInv, Search
<1>. QED
  BY <1>1, Inductive, PTL
=============================================================================
