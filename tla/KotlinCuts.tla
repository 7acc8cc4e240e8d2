----------------------------- MODULE KotlinCuts -----------------------------
(***************************************************************************)
(* parseKotlinWithoutComments (kotlinparse.go): comment-only lines are cut *)
(* out of what the parser sees and put back into its tree by edits, so     *)
(* that the tree addresses the bytes, rows and columns of the source.      *)
(*                                                                         *)
(* A source is a sequence of "x" (code), " ", "c" (comment text) and "\n"; *)
(* byte b is src[b + 1].  The tree is what positions are read from: one    *)
(* leaf per byte of code, in order.                                        *)
(***************************************************************************)
EXTENDS Integers, Sequences, FiniteSets

CONSTANT Sources
ASSUME SourcesAssumption == \A s \in Sources : Len(s) \in Nat  \* files are finite

VARIABLES src,   \* the file
          todo,  \* the cuts not put back yet, <<start, end>>
          at,    \* points: an offset of src and its row and column
          tree,  \* the leaves' [byte, row, col]; << >> before the parse
          stage  \* "parse", "edit" or "done"

kotlinVars == <<src, todo, at, tree, stage>>

Bytes == 0 .. Len(src) - 1
At(b) == src[b + 1]

\* The line of byte b, its newline included.
LineStart(b) == CHOOSE s \in 0 .. b : (s = 0 \/ At(s - 1) = "\n")
                                      /\ \A m \in s .. b - 1 : At(m) # "\n"
SameLine(a, b) == LineStart(a) = LineStart(b)

\* A line blank once masked, and not before.
CommentOnly(b) ==
  /\ \A m \in Bytes : SameLine(m, b) => At(m) # "x"
  /\ \E m \in Bytes : SameLine(m, b) /\ At(m) = "c"

CutBytes == {b \in Bytes : CommentOnly(b)}

\* kotlinCommentOnlyLines: the maximal runs of bytes cut, in order.
CutStarts == {b \in CutBytes : b - 1 \notin CutBytes}
CutFrom(s) == <<s, CHOOSE e \in s + 1 .. Len(src) : e \notin CutBytes
                                                   /\ \A m \in s .. e - 1 : m \in CutBytes>>
Cuts == [k \in 1 .. Cardinality(CutStarts) |->
           CutFrom(CHOOSE s \in CutStarts : Cardinality({r \in CutStarts : r < s}) = k - 1)]

\* Row and column of byte b in the text that lacks the bytes of `gone`.
RowOf(b, gone) == Cardinality({m \in 0 .. b - 1 : m \notin gone /\ At(m) = "\n"})
ColOf(b, gone) ==
  Cardinality({m \in 0 .. b - 1 : m \notin gone /\ \A r \in m .. b - 1 : r \in gone \/ At(r) # "\n"})
Position(b, gone) ==
  [byte |-> Cardinality((0 .. b - 1) \ gone), row |-> RowOf(b, gone), col |-> ColOf(b, gone)]

Code == {b \in Bytes : At(b) = "x"}
Leaf(k) == CHOOSE b \in Code : Cardinality({a \in Code : a < b}) = k - 1
Parsed(gone) == [k \in 1 .. Cardinality(Code) |-> Position(Leaf(k), gone)]

Start == [byte |-> 0, row |-> 0, col |-> 0]

\* points.advance: from the point p on to offset b of the source.
Advance(p, b) ==
  LET passed == p.byte .. b - 1
      rows == {m \in passed : At(m) = "\n"}
  IN  [byte |-> IF b > p.byte THEN b ELSE p.byte,
       row |-> p.row + Cardinality(rows),
       col |-> IF rows = {} THEN p.col + Cardinality(passed)
               ELSE Cardinality({m \in passed : \A r \in m .. b - 1 : At(r) # "\n"})]

KotlinInit ==
  /\ src \in Sources
  /\ todo = << >> /\ tree = << >> /\ at = Start /\ stage = "parse"

KotlinParse ==
  /\ stage = "parse"
  /\ tree' = Parsed(CutBytes)
  /\ todo' = Cuts
  /\ stage' = IF Cuts = << >> THEN "done" ELSE "edit"
  /\ UNCHANGED <<src, at>>

\* Fault (go-tree-sitter's Tree.Edit): the old end point is the new one too.
TreeEditSamePoint(leaf, start, end) ==
  IF leaf.byte < start.byte THEN leaf ELSE [leaf EXCEPT !.byte = @ + end.byte - start.byte]

\* ts_tree_edit for text inserted at `start`: what does not stand before it
\* moves, its column only on the row of the insertion.
TreeEdit(leaf, start, end) ==
  IF leaf.byte < start.byte THEN leaf
  ELSE [byte |-> leaf.byte + end.byte - start.byte,
        row |-> leaf.row + end.row - start.row,
        col |-> IF leaf.row = start.row THEN leaf.col + end.col - start.col ELSE leaf.col]

\* treeEdit of the next cut, front to back.
PutBack ==
  /\ stage = "edit" /\ todo # << >>
  /\ LET start == Advance(at, Head(todo)[1])
         end == Advance(start, Head(todo)[2])
     IN  /\ tree' = [k \in DOMAIN tree |-> TreeEdit(tree[k], start, end)]
         /\ at' = end
  /\ todo' = Tail(todo)
  /\ stage' = IF Len(todo) = 1 THEN "done" ELSE "edit"
  /\ UNCHANGED src

\* The native tree is not where go-tree-sitter keeps it: parse in place.
ParseInPlace ==
  /\ stage = "edit" /\ todo # << >>
  /\ tree' = Parsed({})
  /\ todo' = << >>
  /\ stage' = "done"
  /\ UNCHANGED <<src, at>>

KotlinNext == KotlinParse \/ PutBack \/ ParseInPlace

KotlinSpec == KotlinInit /\ [][KotlinNext]_kotlinVars

\* The tree addresses the source: every leaf stands at the byte, row and
\* column of its own text, however many comment-only lines were cut before,
\* after and around it, and with comments at either end of the file.
LeavesInPlace == stage = "done" => tree = Parsed({})
=============================================================================
