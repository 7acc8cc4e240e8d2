----------------------------- MODULE DepthGuard -----------------------------
(***************************************************************************)
(* The nesting guard of Registry.Extract (engine.go, guardDepth) and the   *)
(* recursive extraction it protects (internalast.WalkTree, one Go call     *)
(* frame per tree level).                                                  *)
(*                                                                         *)
(* guardDepth drives a TreeCursor: the outer loop tries GoToFirstChild,    *)
(* and the inner loop tries GoToNextSibling and then GoToParent until a    *)
(* sibling is found or the cursor is back at the root.  `dir` is which of  *)
(* the two loops the walk is in.  Only after the verdict "ok" does the     *)
(* strategy walk the tree by recursion; `frames` is its call stack.        *)
(***************************************************************************)
EXTENDS SyntaxTree

CONSTANTS Trees,       \* the trees a caller may pass; NilTree may be one
          MaxASTDepth  \* engine.go: MaxASTDepth (4000 in the code)

ASSUME DepthAssumption ==
  /\ MaxASTDepth \in Nat
  /\ \A t \in Trees : IsTree(t) \/ t = NilTree

VARIABLES tree,     \* the argument
          at,       \* the cursor's node, 0 when there is no cursor
          depth,    \* guardDepth's depth counter
          dir,      \* "down": outer loop; "across": inner loop
          verdict,  \* "walking", "ok" (nil error) or "deep" (error)
          frames,   \* WalkTree's call stack: the node and its next child
          visited   \* the nodes fn was called on, in order

depthVars == <<tree, at, depth, dir, verdict, frames, visited>>

DepthInit ==
  /\ tree \in Trees
  /\ at = 0
  /\ depth = 0
  /\ dir = "down"
  /\ verdict = "start"
  /\ frames = << >>
  /\ visited = << >>

walkVars == <<frames, visited>>

\* A nil tree is accepted without a cursor.
GuardNilTree ==
  /\ verdict = "start" /\ tree = NilTree
  /\ verdict' = "ok"
  /\ UNCHANGED <<tree, at, depth, dir, walkVars>>

GuardStart ==
  /\ verdict = "start" /\ tree # NilTree
  /\ verdict' = "walking"
  /\ at' = 1
  /\ UNCHANGED <<tree, depth, dir, walkVars>>

\* Fault: the bound is checked before the counter moves.
DescendOffByOne ==
  /\ verdict = "walking" /\ dir = "down"
  /\ FirstChild(tree, at) # 0
  /\ at' = FirstChild(tree, at)
  /\ depth' = depth + 1
  /\ verdict' = IF depth > MaxASTDepth THEN "deep" ELSE "walking"
  /\ UNCHANGED <<tree, dir, walkVars>>

\* depth++, checked before anything below the child is visited.
Descend ==
  /\ verdict = "walking" /\ dir = "down"
  /\ FirstChild(tree, at) # 0
  /\ at' = FirstChild(tree, at)
  /\ depth' = depth + 1
  /\ verdict' = IF depth' > MaxASTDepth THEN "deep" ELSE "walking"
  /\ UNCHANGED <<tree, dir, walkVars>>

TurnAcross ==
  /\ verdict = "walking" /\ dir = "down"
  /\ FirstChild(tree, at) = 0
  /\ dir' = "across"
  /\ UNCHANGED <<tree, at, depth, verdict, walkVars>>

ToSibling ==
  /\ verdict = "walking" /\ dir = "across"
  /\ \E m \in Nodes(tree) : IsNextSibling(tree, at, m) /\ at' = m
  /\ dir' = "down"
  /\ UNCHANGED <<tree, depth, verdict, walkVars>>

NoSibling == \A m \in Nodes(tree) : ~IsNextSibling(tree, at, m)

\* Fault: the counter is not decremented on the way up.
ToParentKeepsDepth ==
  /\ verdict = "walking" /\ dir = "across" /\ NoSibling
  /\ at # 1
  /\ \E p \in Nodes(tree) : IsParent(tree, at, p) /\ at' = p
  /\ UNCHANGED <<tree, depth, dir, verdict, walkVars>>

\* Fault: after GoToParent the walk goes back to the outer loop.
ToParentThenDown ==
  /\ verdict = "walking" /\ dir = "across" /\ NoSibling
  /\ at # 1
  /\ \E p \in Nodes(tree) : IsParent(tree, at, p) /\ at' = p
  /\ depth' = depth - 1
  /\ dir' = "down"
  /\ UNCHANGED <<tree, verdict, walkVars>>

ToParent ==
  /\ verdict = "walking" /\ dir = "across" /\ NoSibling
  /\ at # 1
  /\ \E p \in Nodes(tree) : IsParent(tree, at, p) /\ at' = p
  /\ depth' = depth - 1
  /\ UNCHANGED <<tree, dir, verdict, walkVars>>

GuardDone ==
  /\ verdict = "walking" /\ dir = "across" /\ NoSibling
  /\ at = 1
  /\ verdict' = "ok"
  /\ UNCHANGED <<tree, at, depth, dir, walkVars>>

Guard ==
  \/ GuardNilTree \/ GuardStart \/ Descend \/ TurnAcross
  \/ ToSibling \/ ToParent \/ GuardDone

guardVars == <<tree, at, depth, dir, verdict>>

Frame(n) == [node |-> n, next |-> FirstChild(tree, n)]

\* Strategy.Extract calls WalkTree on the root.
WalkRoot ==
  /\ verdict = "ok" /\ tree # NilTree /\ visited = << >>
  /\ frames' = <<Frame(1)>>
  /\ visited' = <<1>>
  /\ UNCHANGED guardVars

\* Fault: the loop stops after its first child.
WalkChildOnce ==
  /\ frames # << >>
  /\ LET top == frames[Len(frames)] IN
       /\ top.next # 0
       /\ frames' = Append([frames EXCEPT ![Len(frames)].next = 0],
                           Frame(top.next))
       /\ visited' = Append(visited, top.next)
  /\ UNCHANGED guardVars

\* The loop of the innermost frame calls WalkTree on its next child.
WalkChild ==
  /\ frames # << >>
  /\ LET top == frames[Len(frames)] IN
       /\ top.next # 0
       /\ frames' = Append([frames EXCEPT ![Len(frames)].next =
                              NextSibling(tree, top.next)], Frame(top.next))
       /\ visited' = Append(visited, top.next)
  /\ UNCHANGED guardVars

WalkReturn ==
  /\ frames # << >>
  /\ frames[Len(frames)].next = 0
  /\ frames' = SubSeq(frames, 1, Len(frames) - 1)
  /\ UNCHANGED <<guardVars, visited>>

WalkTree == WalkRoot \/ WalkChild \/ WalkReturn

DepthNext == Guard \/ WalkTree

DepthSpec == DepthInit /\ [][DepthNext]_depthVars

\* Both walks are plain loops of one goroutine.
DepthFairSpec == DepthSpec /\ WF_depthVars(DepthNext)

-----------------------------------------------------------------------------
DepthTypeOK ==
  /\ tree \in Trees
  /\ at \in 0 .. Len(tree)
  /\ depth \in Int
  /\ dir \in {"down", "across"}
  /\ verdict \in {"start", "walking", "ok", "deep"}
  /\ frames \in Seq([node : Nat, next : Nat])
  /\ visited \in Seq(Nat)

\* guardDepth returns nil exactly for the trees whose every node is within
\* MaxASTDepth levels of the root, and an error exactly for the others: a
\* deep branch is found wherever it hangs, and no shallow tree is refused.
VerdictExact ==
  /\ verdict = "ok" => \A n \in Nodes(tree) : tree[n] <= MaxASTDepth
  /\ verdict = "deep" => \E n \in Nodes(tree) : tree[n] > MaxASTDepth

\* The extraction behind the guard never holds more than MaxASTDepth + 1 call
\* frames, and never starts on a tree the guard refused or has not finished:
\* the guarantee the MaxASTDepth comment (engine.go:248-256) is about.
StackBounded ==
  /\ Len(frames) <= MaxASTDepth + 1
  /\ visited # << >> => verdict = "ok"

\* WalkTree calls fn in document order and, once its last frame has
\* returned, has called it on every node exactly once (helpers.go:29-42).
DocumentOrder ==
  /\ \A i \in 1 .. Len(visited) : visited[i] = i
  /\ (visited # << >> /\ frames = << >>) => Len(visited) = Len(tree)

\* The guard ends on every tree, and an accepted tree is extracted to the
\* end: neither walk can cycle.
EventuallyExtracted ==
  <>(\/ verdict = "deep"
     \/ verdict = "ok" /\ frames = << >> /\ Len(visited) = Len(tree))

-----------------------------------------------------------------------------
\* Every node up to the end of the subtree of n is within bounds.
CheckedThrough(n) ==
  \E s \in n .. Len(tree) :
    /\ InSubtree(tree, n, s)
    /\ s = Len(tree) \/ tree[s + 1] <= tree[n]
    /\ \A k \in 1 .. s : tree[k] <= MaxASTDepth

\* What the guard knows between two steps.
GuardInv ==
  /\ verdict = "walking" =>
       /\ tree # NilTree
       /\ at \in Nodes(tree)
       /\ depth = tree[at]
       /\ dir = "down" => \A k \in 1 .. at : tree[k] <= MaxASTDepth
       /\ dir = "across" => CheckedThrough(at)
  /\ verdict = "start" => depth = 0 /\ dir = "down"
  /\ VerdictExact

\* Frame k of the stack stands on a node of level k - 1, and the child it
\* recurses into next is one level below.
WalkInv ==
  /\ visited # << >> => verdict = "ok"
  /\ frames # << >> => visited # << >>
  /\ \A k \in 1 .. Len(frames) :
       /\ frames[k].node \in Nodes(tree)
       /\ tree[frames[k].node] = k - 1
       /\ frames[k].next # 0 =>
            frames[k].next \in Nodes(tree) /\ tree[frames[k].next] = k

\* fn was called on the first nodes of the tree, all frames stand on an
\* ancestor of the last of them, and each frame's next child is the node that
\* follows the subtree its callee is in.  Between two calls the innermost
\* frame recurses into the very next node or has none left.
WalkOrder ==
  LET last == Len(visited)
      n    == Len(frames)
  IN  /\ last <= Len(tree)
      /\ \A i \in 1 .. last : visited[i] = i
      /\ \A k \in 1 .. n : InSubtree(tree, frames[k].node, last)
      /\ \A k \in 1 .. n - 1 :
           frames[k].next = NextSibling(tree, frames[k + 1].node)
      /\ n > 0 =>
           IF frames[n].next = 0
           THEN last = Len(tree) \/ tree[last + 1] <= tree[frames[n].node]
           ELSE frames[n].next = last + 1
      /\ last > 0 /\ n = 0 => last = Len(tree)

DepthInv == DepthTypeOK /\ GuardInv /\ WalkInv /\ WalkOrder
=============================================================================
