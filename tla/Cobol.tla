------------------------------- MODULE Cobol -------------------------------
(***************************************************************************)
(* The COBOL strategy (strategies/cobol.go), which has no grammar: it      *)
(* reads a file line by line, carrying the division it is in, the groups   *)
(* of data items that are open and the paragraph that receives calls, then *)
(* adds to each PERFORM ... THRU the procedures of its range, and then     *)
(* reads the lines again for COPY members.                                 *)
(*                                                                         *)
(* A line has an indicator ("code", "cont" for a continuation, "comment"   *)
(* or "debug"), whether it starts in area A, and its words; "." ends a     *)
(* sentence and "==" delimits pseudo-text.  Names are in one letter case,  *)
(* whether the file is in fixed format is already known.                   *)
(***************************************************************************)
EXTENDS Integers, SequencesExt

CONSTANTS Sources,   \* files, as sequences of lines
          LitText,   \* [literals -> the name in the literal]
          Number     \* [words that are digits -> Nat]

VARIABLES source,      \* the file
          pc,          \* "lines", "ranges", "imports" or "done"
          lines,       \* the normalised lines of the pass
          pos,         \* the next of them
          division,    \* the division it is in
          stack,       \* the open groups of data items
          lastItem,    \* the latest data item, which 88-levels bind to
          currentProc, \* << >> or the open paragraph or section
          syms,        \* the symbols
          progIndex,   \* the index of the latest program, or 0
          ranges,      \* the PERFORM ... THRU to add calls for
          imports,     \* the copybooks
          pendingCopy  \* the line before ended at COPY

data == <<stack, lastItem>>
procs == <<currentProc, ranges, progIndex>>
copies == <<imports, pendingCopy>>
vars == <<source, pc, lines, pos, division, data, procs, syms, copies>>

-----------------------------------------------------------------------------
(* Words and the forms of lines *)

Divisions == {"IDENTIFICATION", "ENVIRONMENT", "DATA", "PROCEDURE"}

Reserved == {"EXIT", "STOP", "GOBACK", "END", "ELSE", "WHEN", "UNTIL", "VARYING",
             "TIMES", "WITH", "TEST", "THRU", "FROM", "BY", "GIVING"}

IsLit(w) == w \in DOMAIN LitText

IsName(w) == ~IsLit(w) /\ w \notin {".", "=="}

IsMember(w) == IsName(w) /\ w \notin DOMAIN Number

\* srcLine.code: literals are blank.
Code(l) == SelectSeq(l.words, LAMBDA w : ~IsLit(w))

\* The positions in c where the regular expression of F matches, in order.
Where(c, F(_)) == SelectSeq([k \in 1 .. Len(c) |-> k], F)

Followed(c, k, w) == c[k] = w /\ k < Len(c) /\ IsName(c[k + 1])

IsDivision(c) == Len(c) > 1 /\ c[1] \in Divisions /\ c[2] = "DIVISION"

IsItem(c) == Len(c) > 1 /\ c[1] \in DOMAIN Number /\ IsName(c[2])

EndsSentence(c) == c # << >> /\ Last(c) = "."

ProgramAt(c) == IF Len(c) > 1 /\ c[2] = "." THEN 3 ELSE 2

IsProgramId(c) ==
  /\ c # << >> /\ c[1] = "PROGRAM-ID"
  /\ ProgramAt(c) <= Len(c) /\ IsName(c[ProgramAt(c)])

IsSelect(c) ==
  \E k \in 1 .. Len(c) - 4 : Followed(c, k, "SELECT") /\ c[k + 2] = "ASSIGN"
                             /\ c[k + 3] = "TO" /\ IsName(c[k + 4])

IsSection(c) == Len(c) > 2 /\ IsName(c[1]) /\ c[2] = "SECTION" /\ c[3] = "."

IsParagraph(l) ==
  LET c == Code(l)
  IN  l.areaA /\ Len(c) = 2 /\ IsName(c[1]) /\ c[2] = "." /\ c[1] \notin Reserved

Level(w) == IF Number[w] \in 1 .. 88 THEN Number[w] ELSE 0

-----------------------------------------------------------------------------
(* normalizeCOBOL and joinCOBOLDataClauses *)

\* Comment and debug lines are dropped, a continuation joins the line before.
Normalize(src) ==
  FoldLeft(LAMBDA out, i :
             IF src[i].ind \in {"comment", "debug"} \/ src[i].words = << >> THEN out
             ELSE IF src[i].ind = "cont" /\ out # << >>
             THEN [out EXCEPT ![Len(out)].words = @ \o src[i].words]
             ELSE Append(out, [orig |-> i, areaA |-> src[i].areaA, words |-> src[i].words]),
           << >>, [i \in 1 .. Len(src) |-> i])

\* The lines of an item's sentence are one line, up to the next item.
JoinData(ls) ==
  FoldLeft(LAMBDA st, l :
             CASE IsDivision(l.words) ->
                    [out |-> Append(st.out, l), div |-> l.words[1], open |-> FALSE]
               [] st.open /\ ~IsDivision(l.words) /\ ~IsItem(l.words) ->
                    [st EXCEPT !.out[Len(st.out)].words = @ \o l.words,
                               !.open = ~EndsSentence(l.words)]
               [] OTHER ->
                    [st EXCEPT !.out = Append(@, l),
                               !.open = /\ st.div = "DATA" /\ IsItem(l.words)
                                        /\ ~EndsSentence(l.words)],
           [out |-> << >>, div |-> "DATA", open |-> FALSE], ls).out

-----------------------------------------------------------------------------
(* The loop over the lines *)

InitFrom(files) ==
  /\ source \in files
  /\ pc = "lines" /\ lines = JoinData(Normalize(source)) /\ pos = 1
  /\ division = "DATA" /\ stack = << >> /\ lastItem = ""
  /\ currentProc = << >> /\ syms = << >> /\ progIndex = 0 /\ ranges = << >>
  /\ imports = << >> /\ pendingCopy = FALSE

Init == InitFrom(Sources)

Line == lines[pos]
C == Code(Line)

Reading(p) == pc = p /\ pos <= Len(lines)

\* A line that is neither a division's header nor a PROGRAM-ID.
Within(d) ==
  /\ Reading("lines") /\ ~IsDivision(C) /\ ~IsProgramId(Line.words)
  /\ division = d

Advance == pos' = pos + 1 /\ UNCHANGED <<source, pc, lines, copies>>

Symbol(kind, name, path, parent) ==
  [kind |-> kind, name |-> name, path |-> path, parent |-> parent,
   start |-> Line.orig, end |-> Line.orig, calls |-> << >>, mods |-> {},
   body |-> << >>]

ProgramName == IF progIndex = 0 THEN "" ELSE syms[progIndex].name

\* flushProc
Flushed == syms \o currentProc

DivisionHeader ==
  /\ Reading("lines") /\ IsDivision(C)
  /\ division' = C[1]
  /\ Advance /\ UNCHANGED <<data, procs, syms>>

ProgramId ==
  /\ Reading("lines") /\ ~IsDivision(C) /\ IsProgramId(Line.words)
  /\ LET name == Line.words[ProgramAt(Line.words)]
     IN  syms' = Append(Flushed, Symbol("program", name, <<name>>, ""))
  /\ currentProc' = << >>
  /\ progIndex' = Len(Flushed) + 1
  /\ Advance /\ UNCHANGED <<division, data, ranges>>

SelectClause ==
  /\ Within("ENVIRONMENT") /\ IsSelect(C)
  /\ LET name == C[Where(C, LAMBDA k : Followed(C, k, "SELECT"))[1] + 1]
     IN  syms' = Append(syms, Symbol("logical-file", name, <<name>>, ProgramName))
  /\ Advance /\ UNCHANGED <<division, data, procs>>

IsFD(c) == Len(c) > 1 /\ c[1] = "FD" /\ IsName(c[2])

FileDescription ==
  /\ Within("DATA") /\ IsFD(C)
  /\ stack' = << >>
  /\ Advance /\ UNCHANGED <<division, lastItem, procs, syms>>

Unnamed(c) == Level(c[1]) = 0 \/ c[2] = "FILLER" \/ c[2] \in Reserved

UnnamedItem ==
  /\ Within("DATA") /\ ~IsFD(C) /\ IsItem(C) /\ Unnamed(C)
  /\ Advance /\ UNCHANGED <<division, data, procs, syms>>

\* The clauses of an item, each with an argument.
Clauses(c) ==
  {w \in {"PIC", "REDEFINES", "OCCURS"} : \E k \in 3 .. Len(c) : Followed(c, k, w)}

\* Mutant: an item of the level of an open group is put into that group.
OpenAboveOrEqual(level) ==
  SubSeq(stack, 1, Max({0} \cup {k \in DOMAIN stack : stack[k].level <= level}))

\* The groups that are open when an item of this level is declared.
OpenAbove(level) ==
  CASE level = 88 -> stack
    [] level \in {66, 77} -> << >>
    [] OTHER ->
         SubSeq(stack, 1, Max({0} \cup {k \in DOMAIN stack : stack[k].level < level}))

DataItem ==
  /\ Within("DATA") /\ ~IsFD(C) /\ IsItem(C) /\ ~Unnamed(C)
  /\ LET level == Level(C[1])
         name == C[2]
         mods == Clauses(C)
         open == OpenAbove(level)
         path == [k \in DOMAIN open |-> open[k].name]
         named == IF level = 88 THEN "condition-name" ELSE "data-item"
         item == IF level = 88
                 THEN Symbol(named, name,
                             IF lastItem # "" THEN <<lastItem, name>>
                                              ELSE Append(path, name), lastItem)
                 ELSE Symbol(named, name, Append(path, name),
                             IF open = << >> THEN "" ELSE Last(path))
     IN  /\ syms' = Append(syms, [item EXCEPT !.mods = mods])
         /\ lastItem' = IF level = 88 THEN lastItem ELSE name
         /\ stack' = IF level \in {66, 77, 88} \/ "PIC" \in mods THEN open
                     ELSE Append(open, [level |-> level, name |-> name])
  /\ Advance /\ UNCHANGED <<division, procs>>

Procedure ==
  /\ Within("PROCEDURE") /\ (IsSection(C) \/ IsParagraph(Line))
  /\ LET kind == IF IsSection(C) THEN "section" ELSE "paragraph"
     IN  currentProc' = <<[Symbol(kind, C[1], <<C[1]>>, ProgramName)
                             EXCEPT !.body = <<Line.words>>]>>
  /\ syms' = Flushed
  /\ Advance /\ UNCHANGED <<division, data, ranges, progIndex>>

Site(callee) == [callee |-> callee, line |-> Line.orig]

PerformsIn(c) == Where(c, LAMBDA k : Followed(c, k, "PERFORM"))

HasThru(c, k) == k + 2 <= Len(c) /\ Followed(c, k + 2, "THRU")

\* What a line performs: the target, and the end of its range.
PerformSites(c) ==
  FlattenSeq([i \in DOMAIN PerformsIn(c) |->
    LET k == PerformsIn(c)[i]
        names == IF HasThru(c, k) THEN <<c[k + 1], c[k + 3]>> ELSE <<c[k + 1]>>
        targets == SelectSeq(names, LAMBDA w : w \notin Reserved)
    IN  [j \in DOMAIN targets |-> Site(targets[j])]])

\* Only the first CALL of a line: a program's name, or the variable with it.
CallSites(ws) ==
  LET at == Where(ws, LAMBDA k : ws[k] = "CALL" /\ k < Len(ws))
      callee == ws[at[1] + 1]
  IN  IF at = << >> THEN << >>
      ELSE IF IsLit(callee) THEN <<Site(LitText[callee])>>
      ELSE IF IsMember(callee) /\ callee # "FUNCTION" THEN <<Site(callee)>>
      ELSE << >>

RangesOf(c, caller) ==
  LET at == Where(c, LAMBDA k : /\ Followed(c, k, "PERFORM") /\ HasThru(c, k)
                                /\ c[k + 3] \notin Reserved)
  IN  [i \in DOMAIN at |-> [caller |-> caller, first |-> c[at[i] + 1],
                            last |-> c[at[i] + 3], line |-> Line.orig]]

\* Mutant: lines without a statement leave no empty line in the body.
GrownTight(p) == [p EXCEPT !.end = Line.orig, !.body = Append(@, Line.words)]

\* A procedure's body has one line for every line of its span.
Grown(p) ==
  [p EXCEPT !.end = Line.orig,
            !.body = @ \o [k \in 1 .. Line.orig - p.end |->
                             IF k = Line.orig - p.end THEN Line.words ELSE << >>]]

Statement ==
  /\ Within("PROCEDURE") /\ ~IsSection(C) /\ ~IsParagraph(Line)
  /\ LET sites == PerformSites(C) \o CallSites(Line.words)
     IN  \/ /\ currentProc # << >>
            /\ currentProc' = <<Grown([Head(currentProc) EXCEPT !.calls = @ \o sites])>>
            /\ ranges' = ranges \o RangesOf(C, Head(currentProc).path)
            /\ UNCHANGED syms
         \/ /\ currentProc = << >> /\ progIndex > 0
            /\ syms' = [syms EXCEPT ![progIndex].calls = @ \o sites]
            /\ ranges' = ranges \o RangesOf(C, syms[progIndex].path)
            /\ UNCHANGED currentProc
         \/ /\ currentProc = << >> /\ progIndex = 0
            /\ UNCHANGED <<currentProc, ranges, syms>>
  /\ Advance /\ UNCHANGED <<division, data, progIndex>>

OtherLine ==
  /\ \/ Within("IDENTIFICATION")
     \/ Within("ENVIRONMENT") /\ ~IsSelect(C)
     \/ Within("DATA") /\ ~IsFD(C) /\ ~IsItem(C)
  /\ Advance /\ UNCHANGED <<division, data, procs, syms>>

-----------------------------------------------------------------------------
(* The end of the file, and the ranges *)

\* The latest program ends with the file, even if the file has others.
EndOfFile ==
  /\ pc = "lines" /\ pos > Len(lines)
  /\ LET fileEnd == Last(Normalize(source)).orig
     IN  syms' = IF progIndex > 0 THEN [Flushed EXCEPT ![progIndex].end = fileEnd]
                                  ELSE Flushed
  /\ currentProc' = << >>
  /\ pc' = "ranges"
  /\ UNCHANGED <<source, lines, pos, division, data, ranges, progIndex, copies>>

IsProc(s) == s.kind \in {"paragraph", "section"}

\* paragraphOrder: where a procedure is, or 0.
Order(name) ==
  Max({0} \cup {k \in DOMAIN syms : IsProc(syms[k]) /\ syms[k].name = name})

\* Mutant: the procedure before the end of a range is left out.
BetweenShort(first, last) == SelectSeq(SubSeq(syms, first + 1, last - 2), IsProc)

\* The procedures strictly between the ends of a range.
Between(first, last) == SelectSeq(SubSeq(syms, first + 1, last - 1), IsProc)

PerformRange ==
  /\ pc = "ranges" /\ ranges # << >>
  /\ LET r == Head(ranges)
         first == Order(r.first)
         last == Order(r.last)
         callers == {k \in DOMAIN syms : syms[k].path = r.caller}
         added == [k \in DOMAIN Between(first, last) |->
                     [callee |-> Between(first, last)[k].name, line |-> r.line]]
     IN  IF first = 0 \/ first >= last \/ callers = {} THEN UNCHANGED syms
         ELSE syms' = [syms EXCEPT ![Min(callers)].calls = @ \o added]
  /\ ranges' = Tail(ranges)
  /\ UNCHANGED <<source, pc, lines, pos, division, data, currentProc, progIndex, copies>>

StartImports ==
  /\ pc = "ranges" /\ ranges = << >>
  /\ pc' = "imports" /\ lines' = Normalize(source) /\ pos' = 1
  /\ UNCHANGED <<source, division, data, procs, syms, copies>>

-----------------------------------------------------------------------------
(* ExtractImports *)

\* Pseudo-text that starts and ends on the line is erased.
Erased(c) ==
  LET before(k) == Cardinality({j \in 1 .. k : c[j] = "=="})
      paired == 2 * (before(Len(c)) \div 2)
      kept(k) == before(k) > paired \/ (before(k) % 2 = 0 /\ c[k] # "==")
      at == SelectSeq([k \in 1 .. Len(c) |-> k], kept)
  IN  [i \in DOMAIN at |-> c[at[i]]]

Members(c) ==
  LET at == Where(c, LAMBDA k : c[k] = "COPY" /\ k < Len(c) /\ IsMember(c[k + 1]))
  IN  [i \in DOMAIN at |-> c[at[i] + 1]]

\* Mutant: a member on the line after its COPY is not awaited.
ImportLineAlone ==
  /\ Reading("imports")
  /\ LET members == SelectSeq(Members(Erased(C)), LAMBDA w : w \notin Reserved)
     IN  imports' = imports \o [i \in DOMAIN members |->
                                  [path |-> members[i], line |-> Line.orig]]
  /\ pos' = pos + 1
  /\ UNCHANGED <<source, pc, lines, division, data, procs, syms, pendingCopy>>

ImportLine ==
  /\ Reading("imports")
  /\ LET clean == Erased(C)
         awaited == IF pendingCopy /\ clean # << >> /\ IsMember(clean[1])
                    THEN <<clean[1]>> ELSE << >>
         members == SelectSeq(awaited \o Members(clean), LAMBDA w : w \notin Reserved)
     IN  /\ imports' = imports \o [i \in DOMAIN members |->
                                     [path |-> members[i], line |-> Line.orig]]
         /\ pendingCopy' = (clean # << >> /\ Last(clean) = "COPY")
  /\ pos' = pos + 1
  /\ UNCHANGED <<source, pc, lines, division, data, procs, syms>>

EndImports ==
  /\ pc = "imports" /\ pos > Len(lines)
  /\ pc' = "done"
  /\ UNCHANGED <<source, lines, pos, division, data, procs, syms, copies>>

Extract ==
  \/ DivisionHeader \/ ProgramId \/ SelectClause \/ FileDescription \/ UnnamedItem
  \/ DataItem \/ Procedure \/ Statement \/ OtherLine \/ EndOfFile
  \/ PerformRange \/ StartImports

ExtractImports == ImportLine \/ EndImports

Next == Extract \/ ExtractImports

Spec == Init /\ [][Next]_vars

-----------------------------------------------------------------------------
(* Properties, against a reading of the file as sentences of words *)

\* The words of the file with their lines; comments are not among them.
Words ==
  LET normal == Normalize(source)
      of(l) == [k \in DOMAIN l.words |->
                  [w |-> l.words[k], line |-> l.orig, margin |-> l.areaA /\ k = 1]]
  IN  FlattenSeq([i \in DOMAIN normal |-> of(normal[i])])

Word(ws, k) == IF k \in DOMAIN ws THEN ws[k].w ELSE "."

\* The division a word is in, and the words that start a sentence there.
DivisionAt(ws, k) ==
  LET heads == {j \in 1 .. k : Word(ws, j) \in Divisions /\ Word(ws, j + 1) = "DIVISION"}
  IN  IF heads = {} THEN "DATA" ELSE Word(ws, Max(heads))

Sentences(ws, d) ==
  {k \in DOMAIN ws : Word(ws, k - 1) = "." /\ DivisionAt(ws, k) = d}

\* The declarations of data items, by their first words.
Entries(ws) ==
  {k \in Sentences(ws, "DATA") : Word(ws, k) \in DOMAIN Number /\ Level(Word(ws, k)) # 0}

EntryLevel(ws, k) == Number[Word(ws, k)]

\* COBOL's tree: an item belongs to the nearest item before it with a lower
\* level, a condition name to the item above it, levels 66 and 77 to none.
Owner(ws, k) ==
  LET items(P(_)) == {j \in Entries(ws) : j < k /\ P(EntryLevel(ws, j))}
      above == CASE EntryLevel(ws, k) = 88 -> items(LAMBDA n : n # 88)
                 [] EntryLevel(ws, k) \in {66, 77} -> {}
                 [] OTHER -> items(LAMBDA n : n < EntryLevel(ws, k))
  IN  IF above = {} THEN "" ELSE Word(ws, Max(above) + 1)

Ascending(S) == SetToSortSeq(S, <)

\* Each named data item and condition name is a symbol, in order, under the
\* item that COBOL's level numbers put it in (cobol.go:193, 277-297): whatever
\* the levels that were opened and closed before it, and however its sentence
\* is laid out on lines.
DataTree ==
  pc = "done" =>
    LET ws == Words
        entries == Ascending({k \in Entries(ws) : Word(ws, k + 1) # "FILLER"})
        found == SelectSeq(syms, LAMBDA s : s.kind \in {"data-item", "condition-name"})
    IN  [i \in DOMAIN found |-> <<found[i].name, found[i].parent>>]
          = [i \in DOMAIN entries |->
               <<Word(ws, entries[i] + 1), Owner(ws, entries[i])>>]

\* Paragraphs and sections, by their first words.
Headers(ws) ==
  {k \in Sentences(ws, "PROCEDURE") :
     \/ /\ Word(ws, k + 1) = "." /\ ws[k].margin
        /\ IsName(Word(ws, k)) /\ Word(ws, k) \notin Reserved
     \/ Word(ws, k + 1) = "SECTION"}

\* The program or procedure that a word is in.
Caller(ws, k) ==
  LET heads == {j \in Headers(ws) : j < k}
      programs == {j \in 1 .. k - 1 : Word(ws, j) = "PROGRAM-ID"}
      in == Max({0} \cup {j \in heads : \A p \in programs : p < j})
  IN  IF in # 0 THEN Word(ws, in) ELSE Word(ws, Max(programs) + 2)

\* The procedures that the PERFORM at k runs.
Performed(ws, k) ==
  LET at(name) == {h \in Headers(ws) : Word(ws, h) = name}
      range == IF Word(ws, k + 2) # "THRU" THEN {}
               ELSE {h \in Headers(ws) :
                       /\ \E a \in at(Word(ws, k + 1)) : a <= h
                       /\ \E b \in at(Word(ws, k + 3)) : h <= b}
      ends == IF Word(ws, k + 2) # "THRU" THEN {k + 1} ELSE {k + 1, k + 3}
  IN  {Word(ws, j) : j \in range \cup ends} \ Reserved

Called(ws, k) ==
  IF IsLit(Word(ws, k + 1)) THEN LitText[Word(ws, k + 1)] ELSE Word(ws, k + 1)

\* Every procedure that a paragraph, a section or a program's main line
\* performs, by name or within a range, and every program it calls, is among
\* its calls, on the line of the verb, and nothing else is (cobol.go:28).
CallsReach ==
  pc = "done" =>
    LET ws == Words
        verbs(v) == {k \in DOMAIN ws :
                       /\ Word(ws, k) = v /\ DivisionAt(ws, k) = "PROCEDURE"
                       /\ \E j \in 1 .. k : j \in Headers(ws) \/ Word(ws, j) = "PROGRAM-ID"}
    IN  UNION {{<<s.name, c.callee, c.line>> : c \in Range(s.calls)} : s \in Range(syms)}
          = UNION {{<<Caller(ws, k), n, ws[k].line>> : n \in Performed(ws, k)} :
                     k \in verbs("PERFORM")}
              \cup {<<Caller(ws, k), Called(ws, k), ws[k].line>> : k \in verbs("CALL")}

\* The body of a procedure has a line for each line of its span, with the
\* statement that is there, if any, so that its words can be cited by line; and
\* no line is in two procedures (cobol.go:379-381).
BodyIsSpan ==
  pc = "done" =>
    LET normal == Range(Normalize(source))
        procedures == {s \in Range(syms) : IsProc(s)}
        at(n) == {l.words : l \in {x \in normal : x.orig = n}}
    IN  /\ \A s \in procedures :
             /\ Len(s.body) = s.end - s.start + 1
             /\ \A k \in DOMAIN s.body :
                  IF s.body[k] = << >> THEN at(s.start + k - 1) = {}
                                       ELSE at(s.start + k - 1) = {s.body[k]}
        /\ \A s, t \in procedures : s.start < t.start => s.end < t.start

\* The members of the COPY statements, in order: also of one whose member is
\* on a later line, and none from literals, comments or pseudo-text
\* (cobol.go:469-473).
CopiesImported ==
  pc = "done" =>
    LET ws == Words
        marks(k) == {j \in 1 .. k : Word(ws, j) = "=="}
        copied == Ascending({k \in DOMAIN ws :
                    /\ Word(ws, k) = "COPY" /\ Cardinality(marks(k)) % 2 = 0
                    /\ k < Len(ws) /\ IsMember(Word(ws, k + 1))
                    /\ Word(ws, k + 1) \notin Reserved})
    IN  imports = [i \in DOMAIN copied |->
                     [path |-> Word(ws, copied[i] + 1), line |-> ws[copied[i] + 1].line]]
=============================================================================
