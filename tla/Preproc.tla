------------------------------ MODULE Preproc ------------------------------
(***************************************************************************)
(* The three passes over the lines of a source that follow its conditional *)
(* directives:                                                             *)
(*   "inactive"  MaskInactivePreprocessor (textmask/preproc.go), which     *)
(*               blanks the branches of #if 0 and #if false;               *)
(*   "cpponly"   blankCPPOnlyBranches (lang.go), which blanks the lines of *)
(*               a header that only a C++ compiler sees;                   *)
(*   "alternate" csAlternateInactiveLines (strategies/cspreproc.go), the   *)
(*               losing branches of C# conditionals with alternatives.     *)
(*                                                                         *)
(* A line is its directive, or "code", with the directive's argument: for  *)
(* the C# pass the tokens of a condition, else what the passes tell apart; *)
(* and whether its text has "#else" or "#elif" in it, which a directive    *)
(* with a blank after its # does not say and a comment may.                *)
(***************************************************************************)
EXTENDS CSCondition, FiniteSets

CONSTANTS Sources,   \* [tool, lines] to run a pass on
          Truth(_)   \* what a condition means in C#, with no symbol defined

\* A source is a finite sequence of lines.
ASSUME SourcesAssumption == \A s \in Sources : Len(s.lines) \in Nat

VARIABLES tool,      \* the pass
          lines,     \* the source
          ln,        \* the line it has reached
          hidden,    \* the lines blanked or reported
          depth,     \* "inactive": nesting inside a disabled branch
          stack,     \* "cpponly": frames; "alternate": indices of groups
          groups,    \* "alternate": the branches of each conditional
          g          \* "alternate": the group to decide next

source == <<tool, lines>>
vars == <<source, ln, hidden, depth, stack, groups, g>>

Ifs == {"if", "ifdef", "ifndef"}
Elses == {"elif", "else"}

Line == lines[ln]
Reads(t) == tool = t /\ ln <= Len(lines)
Top == stack[Len(stack)]
Popped == SubSeq(stack, 1, Len(stack) - 1)

Init ==
  /\ \E s \in Sources : tool = s.tool /\ lines = s.lines
  /\ ln = 1 /\ hidden = {} /\ depth = 0
  /\ stack = << >> /\ groups = << >> /\ g = 1

-----------------------------------------------------------------------------
(* MaskInactivePreprocessor *)

IsOff(k) == lines[k].dir = "if" /\ lines[k].arg = "off"

LiveLine ==
  /\ Reads("inactive") /\ depth = 0
  /\ depth' = IF IsOff(ln) THEN 1 ELSE 0
  /\ ln' = ln + 1
  /\ UNCHANGED <<source, hidden, stack, groups, g>>

EndsDisabled == depth = 1 /\ Line.dir \in Elses \cup {"endif"}

DisabledEnd ==
  /\ Reads("inactive") /\ EndsDisabled
  /\ depth' = 0
  /\ ln' = ln + 1
  /\ UNCHANGED <<source, hidden, stack, groups, g>>

\* Mutant: #ifdef and #ifndef are not counted.
DisabledLineIfOnly ==
  /\ Reads("inactive") /\ depth > 0 /\ ~EndsDisabled
  /\ depth' = depth + (IF Line.dir = "if" THEN 1 ELSE 0)
                    - (IF Line.dir = "endif" THEN 1 ELSE 0)
  /\ hidden' = hidden \cup {ln}
  /\ ln' = ln + 1
  /\ UNCHANGED <<source, stack, groups, g>>

DisabledLine ==
  /\ Reads("inactive") /\ depth > 0 /\ ~EndsDisabled
  /\ depth' = CASE Line.dir \in Ifs -> depth + 1
                [] Line.dir = "endif" -> depth - 1
                [] OTHER -> depth
  /\ hidden' = hidden \cup {ln}
  /\ ln' = ln + 1
  /\ UNCHANGED <<source, stack, groups, g>>

-----------------------------------------------------------------------------
(* blankCPPOnlyBranches *)

\* cppGuard: 1 for a conditional on __cplusplus, -1 for its negation.
Guard(k) ==
  CASE lines[k].dir \in {"if", "ifdef"} /\ lines[k].arg = "cpp" -> 1
    [] \/ lines[k].dir = "ifndef" /\ lines[k].arg = "cpp"
       \/ lines[k].dir = "if" /\ lines[k].arg = "notcpp" -> -1
    [] OTHER -> 0

OpenGuard ==
  /\ Reads("cpponly") /\ Line.dir \in Ifs
  /\ stack' = Append(stack, [guard |-> Guard(ln), cppOnly |-> Guard(ln) = 1])
  /\ ln' = ln + 1
  /\ UNCHANGED <<source, hidden, depth, groups, g>>

\* Mutant: every alternative turns the guard round.
TurnGuardRound ==
  /\ Reads("cpponly") /\ Line.dir \in Elses
  /\ stack' = IF stack # << >> /\ Top.guard # 0
              THEN Append(Popped, [Top EXCEPT !.cppOnly = ~@])
              ELSE stack
  /\ ln' = ln + 1
  /\ UNCHANGED <<source, hidden, depth, groups, g>>

TurnGuard ==
  /\ Reads("cpponly") /\ Line.dir \in Elses
  /\ stack' = IF stack # << >> /\ Top.guard # 0
              THEN Append(Popped, [Top EXCEPT !.cppOnly = (Top.guard = -1)])
              ELSE stack
  /\ ln' = ln + 1
  /\ UNCHANGED <<source, hidden, depth, groups, g>>

CloseGuard ==
  /\ Reads("cpponly") /\ Line.dir = "endif"
  /\ stack' = IF stack # << >> THEN Popped ELSE stack
  /\ ln' = ln + 1
  /\ UNCHANGED <<source, hidden, depth, groups, g>>

\* Other directives are kept; they are no code.
GuardedLine ==
  /\ Reads("cpponly") /\ Line.dir \in {"code", "define"}
  /\ hidden' = IF Line.dir = "code" /\ \E k \in 1 .. Len(stack) : stack[k].cppOnly
               THEN hidden \cup {ln} ELSE hidden
  /\ ln' = ln + 1
  /\ UNCHANGED <<source, depth, stack, groups, g>>

-----------------------------------------------------------------------------
(* csAlternateInactiveLines *)

Branch(cond, isElse) ==
  [start |-> ln + 1, end |-> 0, cond |-> cond, isElse |-> isElse]

\* The open branch of the innermost group ends before this line.
Ended == [groups EXCEPT ![Top][Len(groups[Top])].end = ln - 1]

\* The source has "#else" or "#elif" somewhere in its text.
Mentioned == \E k \in 1 .. Len(lines) : lines[k].says

\* Nothing is looked at otherwise.
ReturnNil ==
  /\ Reads("alternate") /\ ~Mentioned
  /\ ln' = Len(lines) + 1
  /\ UNCHANGED <<source, hidden, depth, stack, groups, g>>

OpenGroup ==
  /\ Reads("alternate") /\ Line.dir = "if"
  /\ groups' = Append(groups, <<Branch(Line.arg, FALSE)>>)
  /\ stack' = Append(stack, Len(groups) + 1)
  /\ ln' = ln + 1
  /\ UNCHANGED <<source, hidden, depth, g>>

NextBranch ==
  /\ Reads("alternate") /\ Line.dir \in Elses /\ stack # << >>
  /\ groups' = [Ended EXCEPT ![Top] = Append(@, Branch(Line.arg, Line.dir = "else"))]
  /\ ln' = ln + 1
  /\ UNCHANGED <<source, hidden, depth, stack, g>>

CloseGroup ==
  /\ Reads("alternate") /\ Line.dir = "endif" /\ stack # << >>
  /\ groups' = Ended
  /\ stack' = Popped
  /\ ln' = ln + 1
  /\ UNCHANGED <<source, hidden, depth, g>>

OutsideGroups ==
  /\ Reads("alternate")
  /\ \/ Line.dir \notin Elses \cup {"if", "endif"}
     \/ Line.dir # "if" /\ stack = << >>
  /\ ln' = ln + 1
  /\ UNCHANGED <<source, hidden, depth, stack, groups, g>>

\* The first branch that is #else or whose condition is not false.
Settling(bs) ==
  {k \in 1 .. Len(bs) :
     /\ bs[k].isElse \/ EvalCondition(bs[k].cond) # "false"
     /\ \A j \in 1 .. k - 1 :
          ~bs[j].isElse /\ EvalCondition(bs[j].cond) = "false"}

\* A group without an alternative, without an #endif, or with a condition that
\* cannot be read before one that is true, is left alone.
Decidable(bs) ==
  /\ Len(bs) >= 2 /\ bs[Len(bs)].end # 0
  /\ \A k \in Settling(bs) :
       bs[k].isElse \/ EvalCondition(bs[k].cond) # "unreadable"

Inside(b) == b.start .. b.end

\* Mutant: an unreadable condition counts as true.
DecideAnyway ==
  /\ tool = "alternate" /\ ln > Len(lines) /\ g <= Len(groups)
  /\ LET bs == groups[g]
     IN  hidden' = IF Len(bs) >= 2 /\ bs[Len(bs)].end # 0
                   THEN hidden \cup UNION {Inside(bs[k]) :
                          k \in (1 .. Len(bs)) \ Settling(bs)}
                   ELSE hidden
  /\ g' = g + 1
  /\ UNCHANGED <<source, ln, depth, stack, groups>>

Decide ==
  /\ tool = "alternate" /\ ln > Len(lines) /\ g <= Len(groups)
  /\ LET bs == groups[g]
     IN  hidden' = IF Decidable(bs)
                   THEN hidden \cup UNION {Inside(bs[k]) :
                          k \in (1 .. Len(bs)) \ Settling(bs)}
                   ELSE hidden
  /\ g' = g + 1
  /\ UNCHANGED <<source, ln, depth, stack, groups>>

-----------------------------------------------------------------------------
Inactive == LiveLine \/ DisabledEnd \/ DisabledLine
CPPOnly == OpenGuard \/ TurnGuard \/ CloseGuard \/ GuardedLine
Alternate ==
  \/ ReturnNil
  \/ /\ Mentioned
     /\ OpenGroup \/ NextBranch \/ CloseGroup \/ OutsideGroups \/ Decide

Next == Inactive \/ CPPOnly \/ Alternate

Spec == Init /\ [][Next]_vars

Done == ln > Len(lines) /\ (tool = "alternate" => g > Len(groups))

-----------------------------------------------------------------------------
(* What the directives of a source mean *)

Opens(k) == lines[k].dir \in Ifs
Ends(k) == lines[k].dir = "endif"

\* How much deeper line j stands than the branches of the conditional at i.
Deeper(i, j) ==
  Cardinality({k \in i + 1 .. j - 1 : Opens(k)})
    - Cardinality({k \in i + 1 .. j - 1 : Ends(k)})

\* Line j is in the conditional that opens at i, or ends it.
Within(i, j) ==
  /\ i < j
  /\ \A k \in i + 1 .. j - 1 : Ends(k) => Deeper(i, k) > 0

Alternatives(i) ==
  {j \in i + 1 .. Len(lines) :
     lines[j].dir \in Elses /\ Within(i, j) /\ Deeper(i, j) = 0}

End(i) ==
  {j \in i + 1 .. Len(lines) : Ends(j) /\ Within(i, j) /\ Deeper(i, j) = 0}

\* The directives that start a branch of the conditional at i.
Starts(i) == {i} \cup Alternatives(i)

\* Line l is inside the branch that starts at m.
InBranch(i, m, l) ==
  /\ m < l
  /\ \A j \in Alternatives(i) \cup End(i) : j <= m \/ l < j

-----------------------------------------------------------------------------
(* Properties *)

\* Exactly the lines between an #if 0 and the directive that ends its branch
\* are blanked, nested conditionals and their directives included
\* (textmask/preproc.go:5-12); at any time, and whatever #endif is missing or
\* stray.
DisabledBranchesMasked ==
  tool = "inactive" =>
    hidden = {l \in 1 .. ln - 1 :
                \E i \in 1 .. l - 1 : IsOff(i) /\ InBranch(i, i, l)}

\* Exactly the code lines in a branch that needs __cplusplus are blanked: the
\* first one of a conditional on it, the later ones of a conditional on its
\* absence (lang.go:73-75).
CPPOnlyBranchesBlanked ==
  tool = "cpponly" =>
    hidden = {l \in 1 .. ln - 1 :
                /\ lines[l].dir = "code"
                /\ \E i \in 1 .. l - 1 :
                     \/ Guard(i) = 1 /\ InBranch(i, i, l)
                     \/ /\ Guard(i) = -1
                        /\ \E m \in Alternatives(i) : InBranch(i, m, l)}

\* The branch the compiler takes, with no symbol defined.
Takes(i, m) ==
  /\ lines[m].dir = "else" \/ Truth(lines[m].arg) = "true"
  /\ \A k \in Starts(i) : k < m =>
       lines[k].dir # "else" /\ Truth(lines[k].arg) = "false"

\* The conditional has an alternative and an end, and every condition up to
\* the branch taken can be read.
Readable(i) ==
  /\ Alternatives(i) # {} /\ End(i) # {}
  /\ \/ \E m \in Starts(i) : Takes(i, m)
     \/ \A k \in Starts(i) : Truth(lines[k].arg) = "false"

\* Sources of the C# pass: C# has no #ifdef, and the evaluator reads their
\* conditions as C# means them.
CSharpLines(ls) ==
  \A k \in 1 .. Len(ls) :
    /\ ls[k].dir \notin {"ifdef", "ifndef"}
    /\ ls[k].dir \in {"if", "elif"} => EvalCondition(ls[k].arg) = Truth(ls[k].arg)

\* Of every C# conditional with alternatives exactly the branch the compiler
\* takes stays, none if it takes none; a lone #if, one without #endif and one
\* whose conditions cannot be read stay whole (strategies/cspreproc.go:7-20).
\* In a source that writes no alternative without a blank after its #, all do
\* (22-24), while one that does is read with its other spellings too.
LosingBranchesReported ==
  tool = "alternate" /\ Done =>
    hidden = {l \in 1 .. Len(lines) :
                /\ Mentioned
                /\ \E i \in 1 .. l - 1 :
                     /\ lines[i].dir = "if" /\ Readable(i)
                     /\ \E m \in Starts(i) : InBranch(i, m, l) /\ ~Takes(i, m)}
=============================================================================
