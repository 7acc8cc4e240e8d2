---------------------------- MODULE MCDepthGuard ----------------------------
(* Every tree of at most MCMaxNodes nodes, and the nil tree. *)
EXTENDS DepthGuard

CONSTANT MCMaxNodes

MCTrees == TreesUpTo(MCMaxNodes) \cup {NilTree}

\* Both walks end; a state without successors is a finished extraction.
Finished ==
  \/ verdict = "deep"
  \/ verdict = "ok" /\ (tree = NilTree \/ (visited # << >> /\ frames = << >>))

MCTerminated == Finished /\ UNCHANGED depthVars

MCSpec == DepthInit /\ [][DepthNext \/ MCTerminated]_depthVars /\ WF_depthVars(DepthNext)
=============================================================================
