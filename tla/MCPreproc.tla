----------------------------- MODULE MCPreproc -----------------------------
(***************************************************************************)
(* Every sequence of at most MCMaxLines lines, well nested or not, for     *)
(* each pass; and for C# one conditional around every condition of at most *)
(* MCMaxTokens tokens, readable or not.                                    *)
(***************************************************************************)
EXTENDS Preproc

CONSTANTS MCMaxLines, MCMaxTokens

MCTokens == {"A", "true", "!", "(", ")", "&&", "||", "=="}

\* C#'s grammar: MCGrammar[n] has the expressions of n tokens with their
\* values, level by level; an operator's left operand is of its own level.
MCJoin(left, ops, right) ==
  {<<a[1] \o <<op>> \o b[1], Combined(op, a[2], b[2])>> :
     a \in left, b \in right, op \in ops}

MCGrammar[n \in 0 .. MCMaxTokens] ==
  LET Chain(unit, ops, Level(_), Unit(_)) ==
        unit \cup UNION {MCJoin(Level(k), ops, Unit(n - 1 - k)) : k \in 1 .. n - 2}
      prim == CASE n = 0 -> {}
                [] n = 1 -> {<<<<"A">>, FALSE>>, <<<<"true">>, TRUE>>}
                [] OTHER ->
                     {<<<<"!">> \o e[1], ~e[2]>> : e \in MCGrammar[n - 1].prim}
                       \cup {<<<<"(">> \o e[1] \o <<")">>, e[2]>> :
                               e \in MCGrammar[n - 2].or}
      eq == Chain(prim, {"==", "!="}, LAMBDA k : MCGrammar[k].eq,
                  LAMBDA k : MCGrammar[k].prim)
      and == Chain(eq, {"&&"}, LAMBDA k : MCGrammar[k].and,
                   LAMBDA k : MCGrammar[k].eq)
  IN  [prim |-> prim, eq |-> eq, and |-> and,
       or |-> Chain(and, {"||"}, LAMBDA k : MCGrammar[k].or,
                    LAMBDA k : MCGrammar[k].and)]

MCTruth(toks) ==
  LET meanings == {e[2] : e \in {x \in MCGrammar[Len(toks)].or : x[1] = toks}}
  IN  IF meanings = {} THEN "unreadable"
      ELSE IF TRUE \in meanings THEN "true" ELSE "false"

MCConditions ==
  UNION {[1 .. n -> MCTokens] : n \in 0 .. 3}
    \cup UNION {{e[1] : e \in MCGrammar[n].or} : n \in 4 .. MCMaxTokens}

MCLine(dir, arg) == [dir |-> dir, arg |-> arg, says |-> dir \in Elses]

\* An alternative with a blank after its #; a comment that has one in it.
MCSpaced(dir, arg) == [MCLine(dir, arg) EXCEPT !.says = FALSE]
MCComment == [MCLine("code", << >>) EXCEPT !.says = TRUE]

MCInactiveLines ==
  {MCLine("if", "off"), MCLine("if", "other"), MCLine("ifdef", "other"),
   MCLine("else", ""), MCLine("elif", "off"), MCLine("endif", ""), MCLine("code", "")}

MCHeaderLines ==
  {MCLine("ifdef", "cpp"), MCLine("if", "notcpp"), MCLine("if", "other"),
   MCLine("else", ""), MCLine("elif", "other"), MCLine("endif", ""), MCLine("code", "")}

MCDefine == MCLine("define", "")

MCShort == {<<"A">>, <<"true">>, <<"?">>}

MCCSharpLines ==
  {MCLine(d, c) : d \in {"if", "elif"}, c \in MCShort}
    \cup {MCLine("else", << >>), MCLine("endif", << >>), MCLine("code", << >>)}
    \cup {MCSpaced("else", << >>), MCSpaced("elif", <<"true">>), MCComment}

MCSequences(kinds) == UNION {[1 .. n -> kinds] : n \in 1 .. MCMaxLines}

\* One more line, of the kinds that make a conditional.
MCLonger(kinds) ==
  [1 .. MCMaxLines + 1 -> {k \in kinds : k.dir \in {"if", "else", "endif", "code"}}]

\* C# conditionals in the branches of a C# conditional.
MCIf(c, a, d, e, b) ==
  <<MCLine("if", c)>> \o a \o <<MCLine(d, e)>> \o b \o <<MCLine("endif", << >>)>>

MCCode == <<MCLine("code", << >>)>>

MCInner ==
  {MCCode, MCCode \o <<MCLine("if", <<"A">>)>>, <<MCLine("endif", << >>)>> \o MCCode}
    \cup {MCIf(c, MCCode, "elif", e, MCCode) : c, e \in MCShort}
    \cup {MCIf(c, MCCode, "else", << >>, MCCode) : c \in MCShort}

MCNested ==
  {MCIf(c, a, "else", << >>, b) \o MCCode : c \in MCShort, a, b \in MCInner}
    \cup {MCIf(c, a, "elif", <<"true">>, b) : c \in MCShort, a, b \in MCInner}

MCSources ==
  {[tool |-> "inactive", lines |-> f] :
           f \in MCSequences(MCInactiveLines) \cup MCLonger(MCInactiveLines)}
    \cup {[tool |-> "cpponly", lines |-> f] :
           f \in MCSequences(MCHeaderLines \cup {MCDefine}) \cup MCLonger(MCHeaderLines)}
    \cup {[tool |-> "alternate", lines |-> f] : f \in MCSequences(MCCSharpLines) \cup MCNested}
    \cup {[tool |-> "alternate",
            lines |-> MCIf(c, MCCode, "else", << >>, MCCode)] :
             c \in MCConditions}

\* The evaluator reads every condition of these sources as the grammar does.
ASSUME MCConditionsRead ==
  \A s \in Sources : s.tool = "alternate" => CSharpLines(s.lines)
=============================================================================
