----------------------------- MODULE Extraction -----------------------------
(***************************************************************************)
(* What the extractors of strategies/extractors.go have in common: a file, *)
(* the tree tree-sitter made of it, and the list of symbols that the       *)
(* passes of one language build, one after the other.  A language module   *)
(* gives the node types its walkers tell apart and the passes.             *)
(*                                                                         *)
(* A node has a level (module SyntaxTree), a type, which may stand for     *)
(* several types of the grammar that the code treats alike, and for a node *)
(* with a name that name.  A symbol is a record of the node it stands on   *)
(* (`at`), its sort, its qualified name and its ParentName as paths, the   *)
(* call nodes its CallSites come from, and its marks: modifiers,           *)
(* annotations and "exported".                                             *)
(***************************************************************************)
EXTENDS SyntaxTree, FiniteSets

CONSTANT Profiles  \* the kinds of file: language, largest tree, node types
                   \* with the names they may have

VARIABLES prof,  \* the kind of this file
          lev,   \* the tree: levels in document order,
          kind,  \* node types
          name,  \* and names, "" without one
          pass,  \* "parse", the extraction's next pass, or "done"
          out    \* the symbols so far

vars == <<prof, lev, kind, name, pass, out>>
fileVars == <<prof, lev, kind, name>>

File == Nodes(lev)
Of(kinds) == {n \in File : kind[n] \in kinds}
Kids(n) == {m \in File : IsParent(lev, m, n)}
Up(n) == CHOOSE p \in File : IsParent(lev, n, p)
Under(n) == Subtree(lev, n) \ {n}

\* The nodes on the way from b, itself left out, down to n.
Way(b, n) == {m \in b + 1 .. n : InSubtree(lev, m, n)}

FirstKid(n) == n + 1
IsFirstKid(n) == n > 1 /\ lev[n] = lev[n - 1] + 1

QualJoin(prefix, nm) == Append(prefix, nm)
QualLast(path) == IF path = << >> THEN << >> ELSE <<path[Len(path)]>>

Sym(n, sort, qual, parent, calls, marks) ==
  [at |-> n, sort |-> sort, qual |-> qual, parent |-> parent, calls |-> calls,
   marks |-> marks]

MemberOf(n, sort, prefix, calls, marks) ==
  Sym(n, sort, QualJoin(prefix, name[n]), QualLast(prefix), calls, marks)

\* collectCallSites: every call below the body, except through a node that
\* spec.skip gives to another symbol.
CollectCallSites(body, calls, skip) ==
  {c \in calls : InSubtree(lev, body, c) /\ Way(body, c) \cap skip = {}}

Init ==
  /\ prof \in Profiles
  /\ lev = <<0>>
  /\ kind = <<"file">>
  /\ name = <<"">>
  /\ pass = "parse"
  /\ out = {}

\* The last node of level l - 1: the parent of a new node of level l.
Open(l) == CHOOSE p \in File : lev[p] = l - 1 /\ \A m \in p + 1 .. Len(lev) : lev[m] >= l

\* The parser adds the next node of the file.
Grow(l, k) ==
  /\ pass = "parse"
  /\ Len(lev) < prof.size
  /\ k \in DOMAIN prof.names
  /\ \E nm \in prof.names[k] : name' = Append(name, nm)
  /\ lev' = Append(lev, l)
  /\ kind' = Append(kind, k)
  /\ UNCHANGED <<prof, pass, out>>

Levels == 1 .. lev[Len(lev)] + 1

Pass(from, to, symbols) ==
  /\ pass = from
  /\ pass' = to
  /\ out' = symbols
  /\ UNCHANGED fileVars
=============================================================================
