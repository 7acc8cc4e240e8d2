---------------------------- MODULE CallColumns ----------------------------
(***************************************************************************)
(* fillCallColumns (callcolumns.go): the column of each call site, found   *)
(* by name on the site's line after the strategy has run.                  *)
(*                                                                         *)
(* A line of masked code is the sequence of the identifiers on it, each    *)
(* with its name and whether "(", "<" or "!" follows (`called`); a column  *)
(* is an index into that sequence.  An input also carries the truth the    *)
(* code does not know: a site's `tok` is the column of its own identifier. *)
(*                                                                         *)
(* The cache of the code is left out: it holds what Free computes, and     *)
(* nothing Free depends on changes once it is consulted.                   *)
(***************************************************************************)
EXTENDS Integers, Sequences, FiniteSets

CONSTANTS Name,        \* identifiers
          NoName,      \* the empty name
          DeclWindow,  \* lines searched past Span.Start; 30 in the code
          Inputs       \* [lines, syms]: the lines of a file and its symbols

Token == [name : Name, called : BOOLEAN]
Site == [name : Name \cup {NoName}, line : Nat, preset : Nat, tok : Nat]
Symbol == [name : Name \cup {NoName}, start : Nat, end : Nat, sites : Seq(Site)]

ASSUME CallColumnsAssumption ==
  /\ NoName \notin Name
  /\ DeclWindow \in Nat
  /\ \A in \in Inputs : in.lines \in Seq(Seq(Token)) /\ in.syms \in Seq(Symbol)

VARIABLES lines, syms,   \* the input
          phase,         \* "declare", "fill" or "done"
          i,             \* the symbol at hand
          ln,            \* "declare": the line searched for its name
          j,             \* "fill": the call site at hand
          declared,      \* <<line, column>> of the declarations' names
          used,          \* used[<<line, name>>]: occurrences handed out
          col            \* col[<<i, j>>]: the Col of site j of symbol i

vars == <<lines, syms, phase, i, ln, j, declared, used, col>>

SiteIds == UNION {{a} \X (1 .. Len(syms[a].sites)) : a \in 1 .. Len(syms)}

SiteOf(id) == syms[id[1]].sites[id[2]]

\* nameColumns on line l, which is empty when l is not a line of the file:
\* the whole identifiers with that name that look called.
NameColumns(l, name) ==
  IF l \in 1 .. Len(lines)
  THEN {c \in 1 .. Len(lines[l]) : lines[l][c] = [name |-> name, called |-> TRUE]}
  ELSE {}

\* The member of S with n smaller ones: the code's cols[n].
Nth(S, n) == CHOOSE c \in S : Cardinality({d \in S : d < c}) = n

Init ==
  /\ \E in \in Inputs : lines = in.lines /\ syms = in.syms
  /\ phase = "declare"
  /\ i = 1
  /\ ln = IF syms # << >> THEN syms[1].start ELSE 0
  /\ j = 1
  /\ declared = {}
  /\ used = [k \in (1 .. Len(lines)) \X Name |-> 0]
  /\ col = [id \in SiteIds |-> SiteOf(id).preset]

-----------------------------------------------------------------------------
(* First loop: each symbol's own name *)

NextSymbol ==
  /\ i' = i + 1
  /\ ln' = IF i < Len(syms) THEN syms[i + 1].start ELSE 0

\* The symbol's last line searched.
WindowEnd ==
  LET s == syms[i]
  IN  IF s.end < s.start \/ s.end > s.start + DeclWindow
      THEN s.start + DeclWindow
      ELSE s.end

DeclareSkip ==
  /\ phase = "declare" /\ i <= Len(syms)
  /\ syms[i].name = NoName \/ syms[i].start <= 0
  /\ NextSymbol
  /\ UNCHANGED <<lines, syms, phase, j, declared, used, col>>

Searching ==
  /\ phase = "declare" /\ i <= Len(syms)
  /\ syms[i].name # NoName /\ syms[i].start > 0

\* Fault: a declaration's name is not set aside.
DeclareNothing ==
  /\ Searching /\ ln <= WindowEnd
  /\ NameColumns(ln, syms[i].name) # {}
  /\ NextSymbol
  /\ UNCHANGED <<lines, syms, phase, j, declared, used, col>>

\* The first occurrence on the first line that has one is the declaration.
DeclareHere ==
  /\ Searching /\ ln <= WindowEnd
  /\ LET cols == NameColumns(ln, syms[i].name)
     IN  cols # {} /\ declared' = declared \cup {<<ln, Nth(cols, 0)>>}
  /\ NextSymbol
  /\ UNCHANGED <<lines, syms, phase, j, used, col>>

DeclareNextLine ==
  /\ Searching /\ ln <= WindowEnd
  /\ NameColumns(ln, syms[i].name) = {}
  /\ ln' = ln + 1
  /\ UNCHANGED <<lines, syms, phase, i, j, declared, used, col>>

DeclareNowhere ==
  /\ Searching /\ ln > WindowEnd
  /\ NextSymbol
  /\ UNCHANGED <<lines, syms, phase, j, declared, used, col>>

DeclareDone ==
  /\ phase = "declare" /\ i > Len(syms)
  /\ phase' = "fill"
  /\ i' = 1
  /\ UNCHANGED <<lines, syms, ln, j, declared, used, col>>

-----------------------------------------------------------------------------
(* Second loop: each call site *)

\* Fault: declarations' columns are offered to calls.
FreeWithDeclared(l, name) == NameColumns(l, name)

\* The occurrences on line l that declare nothing.
Free(l, name) == {c \in NameColumns(l, name) : <<l, c>> \notin declared}

\* Fault: the next symbol's sites are entered in the middle.
FillNextSymbolAtJ ==
  /\ phase = "fill" /\ i <= Len(syms) /\ j > Len(syms[i].sites)
  /\ i' = i + 1
  /\ UNCHANGED <<lines, syms, phase, j, ln, declared, used, col>>

FillNextSymbol ==
  /\ phase = "fill" /\ i <= Len(syms) /\ j > Len(syms[i].sites)
  /\ i' = i + 1
  /\ j' = 1
  /\ UNCHANGED <<lines, syms, phase, ln, declared, used, col>>

AtSite == phase = "fill" /\ i <= Len(syms) /\ j <= Len(syms[i].sites)

Skipped(s) == s.line <= 0 \/ s.preset > 0 \/ s.name = NoName

FillSkip ==
  /\ AtSite
  /\ Skipped(syms[i].sites[j])
  /\ j' = j + 1
  /\ UNCHANGED <<lines, syms, phase, i, ln, declared, used, col>>

\* Fault: the occurrence is not marked as handed out.
FillAgain ==
  /\ AtSite
  /\ LET s == syms[i].sites[j]
         free == Free(s.line, s.name)
     IN  /\ ~Skipped(s)
         /\ IF free # {} /\ used[<<s.line, s.name>>] < Cardinality(free)
            THEN /\ col' = [col EXCEPT ![<<i, j>>] =
                              Nth(free, used[<<s.line, s.name>>])]
            ELSE UNCHANGED col
  /\ j' = j + 1
  /\ UNCHANGED <<lines, syms, phase, i, ln, declared, used>>

\* The site takes the next occurrence, or keeps 0 when they are used up.
FillSite ==
  /\ AtSite
  /\ LET s == syms[i].sites[j]
         k == <<s.line, s.name>>
         free == Free(s.line, s.name)
     IN  /\ ~Skipped(s)
         /\ IF free # {} /\ used[k] < Cardinality(free)
            THEN /\ col' = [col EXCEPT ![<<i, j>>] = Nth(free, used[k])]
                 /\ used' = [used EXCEPT ![k] = @ + 1]
            ELSE UNCHANGED <<col, used>>
  /\ j' = j + 1
  /\ UNCHANGED <<lines, syms, phase, i, ln, declared>>

FillDone ==
  /\ phase = "fill" /\ i > Len(syms)
  /\ phase' = "done"
  /\ UNCHANGED <<lines, syms, i, ln, j, declared, used, col>>

Next ==
  \/ DeclareSkip \/ DeclareHere \/ DeclareNextLine \/ DeclareNowhere \/ DeclareDone
  \/ FillNextSymbol \/ FillSkip \/ FillSite \/ FillDone

Spec == Init /\ [][Next]_vars

-----------------------------------------------------------------------------
\* Types; the cursor (i, j) stays on the input and no key hands out more
\* occurrences than its line has.
TypeOK ==
  /\ lines \in Seq(Seq(Token)) /\ syms \in Seq(Symbol)
  /\ phase \in {"declare", "fill", "done"} /\ (phase = "done" => i > Len(syms))
  /\ i \in 1 .. Len(syms) + 1 /\ ln \in Nat
  /\ j \in 1 .. (IF i <= Len(syms) THEN Len(syms[i].sites) ELSE 0) + 1
  /\ declared \subseteq Nat \X Nat
  /\ used \in [(1 .. Len(lines)) \X Name -> Nat]
  /\ \A k \in DOMAIN used : used[k] <= Cardinality(NameColumns(k[1], k[2]))
  /\ col \in [SiteIds -> Nat]

Filled(id) == col[id] # 0 /\ SiteOf(id).preset = 0

\* No two call sites are sent to the same identifier, however the symbols
\* overlap and however often a name is called on a line (callcolumns.go:14-15,
\* 96-99): two edits made at the columns never hit one token twice.
NoSharedToken ==
  \A a, b \in SiteIds :
    /\ a # b /\ Filled(a) /\ Filled(b)
    /\ SiteOf(a).line = SiteOf(b).line
    => col[a] # col[b]

\* A column names the callee, in a place that looks like a call and that the
\* first loop did not set aside for a declaration.
NamesTheCallee ==
  \A id \in SiteIds : Filled(id) =>
    LET s == SiteOf(id)
    IN  /\ col[id] \in NameColumns(s.line, s.name)
        /\ <<s.line, col[id]>> \notin declared

\* The sites that name n on line l, in the order they are recorded in.
SitesOf(l, n) ==
  {id \in SiteIds :
     SiteOf(id).line = l /\ SiteOf(id).name = n /\ SiteOf(id).preset = 0}

Before(a, b) == a[1] < b[1] \/ (a[1] = b[1] /\ a[2] < b[2])

\* The first n on line l, where a symbol of that name starts.
Declarations(l, n) ==
  {Nth(NameColumns(l, n), 0) :
     a \in {x \in 1 .. Len(syms) : syms[x].name = n /\ syms[x].start = l}}

\* The source is plain where it says n on line l: symbols of that name have
\* it on the line they start on, every other n there that looks called is a
\* call site, and those sites are recorded in the order of their tokens.
Plain(l, n) ==
  /\ \A a \in 1 .. Len(syms) :
       syms[a].name = n => NameColumns(syms[a].start, n) # {}
  /\ {SiteOf(id).tok : id \in SitesOf(l, n)}
       = NameColumns(l, n) \ Declarations(l, n)
  /\ \A a, b \in SitesOf(l, n) :
       Before(a, b) => SiteOf(a).tok < SiteOf(b).tok

\* Where the source is plain, every site gets the column of its own token
\* (symbol.go:44-47), several calls on a line and recursion included, and
\* whatever the other lines and names are.
ExactWhenPlain ==
  phase = "done" =>
    \A l \in 1 .. Len(lines), n \in Name :
      Plain(l, n) => \A id \in SitesOf(l, n) : col[id] = SiteOf(id).tok

\* symbol.go:44-47: "with it a consumer edits exactly that token, even with
\* several same-named calls on one line".
ColIsTheCallsToken ==
  \A id \in SiteIds : Filled(id) => col[id] = SiteOf(id).tok

-----------------------------------------------------------------------------
(* What the two loops know between two steps *)

\* What is set aside is a name where a symbol of that name was looked for,
\* and for the symbols passed that are declared where they start, it is that
\* place and no other.
DeclareInv ==
  /\ \A d \in declared : \E a \in 1 .. Len(syms) :
       /\ syms[a].name \in Name
       /\ d[2] \in NameColumns(d[1], syms[a].name)
       /\ d[2] = Nth(NameColumns(d[1], syms[a].name), 0)
       /\ NameColumns(syms[a].start, syms[a].name) # {} => d[1] = syms[a].start
  /\ phase = "declare" =>
       /\ j = 1
       /\ i <= Len(syms) /\ ln # syms[i].start =>
            syms[i].name = NoName \/ NameColumns(syms[i].start, syms[i].name) = {}
  /\ \A a \in 1 .. Len(syms) :
       /\ phase = "declare" => a < i
       /\ syms[a].name # NoName
       /\ NameColumns(syms[a].start, syms[a].name) # {}
       => <<syms[a].start, Nth(NameColumns(syms[a].start, syms[a].name), 0)>> \in declared

\* The sites that compete for name n of line l and are recorded before id.
Earlier(l, n, id) == {e \in SitesOf(l, n) : Before(e, id)}

\* The column of the site that has m such sites before it, if there is one.
Given(l, n, m) ==
  IF m < Cardinality(Free(l, n)) THEN Nth(Free(l, n), m) ELSE 0

\* The second loop's place, and the sites it has given a column.
Cursor == IF phase = "declare" THEN <<1, 1>> ELSE <<i, j>>

Passed(id) == Before(id, Cursor) /\ ~Skipped(SiteOf(id))

\* The m-th of the sites with one name and line has the m-th free occurrence,
\* if there is one.
FillInv ==
  /\ \A id \in SiteIds :
       LET l == SiteOf(id).line
           n == SiteOf(id).name
       IN  col[id] = IF Passed(id) THEN Given(l, n, Cardinality(Earlier(l, n, id)))
                                   ELSE SiteOf(id).preset
  /\ \A l \in 1 .. Len(lines), n \in Name :
       LET m == Cardinality(Earlier(l, n, Cursor))
           free == Cardinality(Free(l, n))
       IN  used[<<l, n>>] = IF phase = "declare" THEN 0
                            ELSE IF m < free THEN m ELSE free

IInv == TypeOK /\ DeclareInv /\ FillInv
=============================================================================
