--------------------------- MODULE MCCallColumns ---------------------------
(***************************************************************************)
(* Files of at most MCMaxLines lines and MCMaxTokens identifiers, each of  *)
(* them a function's declaration, a declaration that does not look called  *)
(* (a class, `const f = ...`) or a call.  Each declaration is a symbol     *)
(* that ends before the next one starts or, when it does not look called,  *)
(* with the file; each call belongs to the declaration before it, and the  *)
(* calls of a symbol are recorded in source order or, as the calls of one  *)
(* chain are, outermost (last) first.                                      *)
(***************************************************************************)
EXTENDS CallColumns, SequencesExt

CONSTANTS MCMaxLines, MCMaxTokens, MCUses, MCOrders

MCWord == [name : Name, use : MCUses, eol : BOOLEAN]

\* A file as one sequence of words, each perhaps the last of its line.
MCTexts ==
  {t \in SeqOf(MCWord, MCMaxTokens) :
     /\ t # << >>
     /\ t[1].use # "call"
     /\ t[Len(t)].eol
     /\ Cardinality({k \in DOMAIN t : t[k].eol}) <= MCMaxLines}

\* The lines of a text, all of them with at least one word.
MCLines(t) ==
  FoldLeft(LAMBDA a, w :
             IF w.eol THEN [done |-> Append(a.done, Append(a.open, w)), open |-> << >>]
                      ELSE [a EXCEPT !.open = Append(@, w)],
           [done |-> << >>, open |-> << >>], t).done

MCFiles == {MCLines(t) : t \in MCTexts}

MCPositions(f) == {<<l, c>> : l \in 1 .. Len(f), c \in 1 .. MCMaxTokens}

MCIn(f, p) == p[2] <= Len(f[p[1]])

MCBefore(p, q) == p[1] < q[1] \/ (p[1] = q[1] /\ p[2] < q[2])

MCWordAt(f, p) == f[p[1]][p[2]]

MCDecls(f) ==
  SetToSortSeq({p \in MCPositions(f) : MCIn(f, p) /\ MCWordAt(f, p).use # "call"},
               MCBefore)

MCSymbol(f, d, a, order) ==
  LET p == d[a]
      last == a = Len(d)
      mine == {q \in MCPositions(f) :
                 /\ MCIn(f, q) /\ MCBefore(p, q)
                 /\ last \/ MCBefore(q, d[a + 1])}
      sorted == SetToSortSeq(mine, MCBefore)
      sites == [k \in 1 .. Len(sorted) |->
                  [name |-> MCWordAt(f, sorted[k]).name, line |-> sorted[k][1],
                   preset |-> 0, tok |-> sorted[k][2]]]
  IN  [name |-> MCWordAt(f, p).name, start |-> p[1],
       end |-> IF last \/ MCWordAt(f, p).use = "bind" THEN Len(f) ELSE d[a + 1][1],
       sites |-> IF order = "source" THEN sites ELSE Reverse(sites)]

MCInput(f, order) ==
  [lines |-> [l \in 1 .. Len(f) |->
                [c \in 1 .. Len(f[l]) |->
                   [name |-> f[l][c].name, called |-> f[l][c].use # "bind"]]],
   syms |-> LET d == MCDecls(f)
            IN  [a \in 1 .. Len(d) |-> MCSymbol(f, d, a, order)]]

\* PHP's iteration sites come with a column; an anonymous declaration and a
\* callee that ends in a separator have no name.
MCOdd ==
  LET n == CHOOSE x \in Name : TRUE
      t == [name |-> n, called |-> TRUE]
      site(x, pre) == [name |-> x, line |-> 1, preset |-> pre, tok |-> 2]
  IN  {[lines |-> <<<<t, t>>>>,
        syms |-> <<[name |-> x, start |-> st, end |-> 1,
                    sites |-> <<site(y, pre), site(n, 0)>>]>>] :
         x \in {n, NoName}, st \in {0, 1}, y \in {n, NoName}, pre \in {0, 2}}

MCInputs == {MCInput(f, o) : f \in MCFiles, o \in MCOrders} \cup MCOdd

MCPlainInputs == {MCInput(f, o) : f \in MCFiles, o \in MCOrders}

MCDone == phase = "done" /\ UNCHANGED vars

MCSpec == Init /\ [][Next \/ MCDone]_vars
=============================================================================
