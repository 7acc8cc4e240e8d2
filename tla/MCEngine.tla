------------------------------ MODULE MCEngine ------------------------------
(***************************************************************************)
(* Every tree of at most MCMaxNodes nodes with every set of at most        *)
(* MCMaxErrors nodes that are ERROR nodes or MISSING ones, the latter      *)
(* leaves.                                                                 *)
(***************************************************************************)
EXTENDS Engine, FiniteSets

CONSTANTS MCMaxNodes, MCMaxErrors

MCLeaves(t) == {n \in Nodes(t) \ {1} : Subtree(t, n) = {n}}

MCMarks(t) ==
  {m \in (SUBSET Nodes(t)) \X (SUBSET MCLeaves(t)) :
     m[1] \cap m[2] = {} /\ Cardinality(m[1] \cup m[2]) <= MCMaxErrors}

MCResults ==
  {[tree |-> r[1], errs |-> r[2][1], missing |-> r[2][2]] :
     r \in UNION {{t} \X MCMarks(t) : t \in TreesUpTo(MCMaxNodes)}}

MCReturned == pc = "returned" /\ UNCHANGED vars

MCSpec ==
  /\ Init /\ [][Next \/ MCReturned]_vars
  /\ WF_vars(ParseStep \/ ValidateStep) /\ WF_vars(Tick) /\ WF_vars(ParseAborts)
=============================================================================
