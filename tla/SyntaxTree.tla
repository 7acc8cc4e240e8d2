----------------------------- MODULE SyntaxTree -----------------------------
(***************************************************************************)
(* The tree-sitter trees that astkit walks.  A tree is the sequence of the *)
(* levels of its nodes in document order (preorder): the root is node 1    *)
(* and has level 0, and a node is at most one level below the node before  *)
(* it.  Every ordered tree has exactly one such sequence.                  *)
(*                                                                         *)
(* The navigation operators are those of go-tree-sitter as engine.go and   *)
(* internalast/helpers.go use them: a node's first child, next sibling and *)
(* parent, with 0 where the library returns nil or false.                  *)
(***************************************************************************)
EXTENDS Integers, Sequences

NilTree == << >>

IsTree(t) ==
  /\ t \in Seq(Nat)
  /\ Len(t) > 0
  /\ t[1] = 0
  /\ \A i \in 1 .. Len(t) - 1 : t[i + 1] >= 1 /\ t[i + 1] <= t[i] + 1

Nodes(t) == 1 .. Len(t)

FirstChild(t, n) == IF n < Len(t) /\ t[n + 1] = t[n] + 1 THEN n + 1 ELSE 0

\* m follows n at the same level with nothing but descendants of n between.
IsNextSibling(t, n, m) ==
  /\ n < m
  /\ t[m] = t[n]
  /\ \A k \in n + 1 .. m - 1 : t[k] > t[n]

IsParent(t, n, p) ==
  /\ p < n
  /\ t[p] = t[n] - 1
  /\ \A k \in p + 1 .. n : t[k] > t[p]

NextSibling(t, n) ==
  IF \E m \in Nodes(t) : IsNextSibling(t, n, m)
  THEN CHOOSE m \in Nodes(t) : IsNextSibling(t, n, m)
  ELSE 0

\* The nodes of the subtree rooted at n, n included.
InSubtree(t, n, m) == n <= m /\ \A k \in n + 1 .. m : t[k] > t[n]

Subtree(t, n) == {m \in Nodes(t) : InSubtree(t, n, m)}

Child(t, p, n) == n \in Nodes(t) /\ IsParent(t, n, p)

\* The level sequences of at most maxNodes nodes: all ordered trees of that
\* size.
TreesUpTo(maxNodes) ==
  {t \in UNION {[1 .. n -> 0 .. maxNodes - 1] : n \in 1 .. maxNodes} : IsTree(t)}
=============================================================================
