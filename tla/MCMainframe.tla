---------------------------- MODULE MCMainframe ----------------------------
(***************************************************************************)
(* COBOL files and JCL decks for the two mainframe strategies, which have  *)
(* nothing in common but their lines: a behaviour extracts from one file   *)
(* or from one deck.                                                       *)
(***************************************************************************)
EXTENDS Cobol

CONSTANTS MCMaxItems, MCMaxStatements, MCMaxCopies, Decks

VARIABLES deck, jpc, at, jobName, procName, lastStep, lastDD, symbols, entries,
          bindings

MCRefOf == "&A" :> "A" @@ "&B" :> "B"

J == INSTANCE Jcl WITH RefOf <- MCRefOf

MCLitText == "'PERFORM'" :> "PERFORM" @@ "'SUB'" :> "SUB"

MCNumber == "01" :> 1 @@ "05" :> 5 @@ "10" :> 10 @@ "66" :> 66 @@ "77" :> 77
              @@ "88" :> 88 @@ "99" :> 99

MCLine(ind, areaA, words) == [ind |-> ind, areaA |-> areaA, words |-> words]
MCArea(words) == MCLine("code", TRUE, words)
MCCode(words) == MCLine("code", FALSE, words)
MCComment == MCLine("comment", FALSE, <<"PERFORM", "A", ".">>)

\* A sentence ends before area A, and does not before a continuation.
MCFlow(s) ==
  /\ \A j \in DOMAIN s : s[j].ind = "cont" => \E i \in 1 .. j - 1 : s[i] # MCComment
  /\ \A i, j \in DOMAIN s :
       /\ i < j /\ s[i] # MCComment /\ s[j] # MCComment
       /\ \A k \in i + 1 .. j - 1 : s[k] = MCComment
       => /\ s[j].ind = "cont" => Last(s[i].words) # "."
          /\ s[j].areaA => Last(s[i].words) = "."

-----------------------------------------------------------------------------
(* Data divisions: legal sequences of items *)

MCShapes ==
  {[lvl |-> l, pic |-> p, lay |-> "one"] : l \in {"01", "05", "10"}, p \in BOOLEAN}
    \cup {[lvl |-> "05", pic |-> TRUE, lay |-> "two"]}
    \cup {[lvl |-> l, pic |-> TRUE, lay |-> "one"] : l \in {"66", "77", "88"}}

MCFiller == [lvl |-> "05", pic |-> TRUE, lay |-> "filler"]

\* Levels nest, only groups have items below them, 66 ends a record.
MCLegal(s) ==
  LET num(i) == MCNumber[s[i].lvl]
      plain == {i \in DOMAIN s : num(i) < 66}
      below(i) == {j \in plain : j < i /\ num(j) < num(i)}
      prev(i) == Max({0} \cup {j \in DOMAIN s : j < i /\ num(j) # 88})
  IN  /\ num(1) # 88
      /\ \A i \in DOMAIN s :
           /\ s[i].lvl = "66" => prev(i) # 0 /\ num(prev(i)) # 77
           /\ prev(i) # 0 /\ num(prev(i)) \in {66, 77} /\ i \in plain => num(i) = 1
           /\ i \in plain /\ prev(i) \in plain /\ num(prev(i)) < num(i)
                => ~s[prev(i)].pic
           /\ i \in plain /\ prev(i) \in plain /\ num(prev(i)) > num(i)
                => num(i) = 1 \/ \E j \in plain : j < i /\ num(j) = num(i)
                                    /\ \A k \in plain : k \in j .. i => num(k) >= num(i)
           /\ ~s[i].pic => \E j \in DOMAIN s : j > i /\ j \in plain /\ prev(j) = i
                                               /\ num(j) > num(i)

MCNames == <<"N1", "N2", "N3", "N4", "N5", "N6">>

MCItem(i, sh) ==
  LET name == IF sh.lay = "filler" THEN "FILLER" ELSE MCNames[i]
      rest == IF sh.lvl = "66" THEN <<"RENAMES", "N1", ".">>
              ELSE IF sh.lvl = "88" THEN <<"VALUE", "'SUB'", ".">>
              ELSE IF sh.pic THEN <<"PIC", "X", ".">> ELSE <<".">>
  IN  IF sh.lay = "two" THEN <<MCCode(<<sh.lvl, name>>), MCComment, MCCode(rest)>>
      ELSE <<MCCode(<<sh.lvl, name>> \o rest)>>

MCDataOf(shapes, n) ==
  {FlattenSeq([i \in DOMAIN s |-> MCItem(i, s[i])]) :
     s \in {t \in UNION {[1 .. m -> shapes] : m \in 1 .. n} : MCLegal(t)}}

\* A condition name of an item without a name.
MCFillerCondition(x) ==
  \E i \in DOMAIN x : i > 1 /\ x[i].words[1] = "88" /\ x[i - 1].words[2] = "FILLER"

MCDataSources ==
  MCDataOf(MCShapes, MCMaxItems)
    \cup {a \o <<MCCode(<<"FD", "F1", ".">>)>> \o b :
            a \in MCDataOf(MCShapes, 2), b \in {x \in MCDataOf(MCShapes, 2) :
                                                  x[1].words[1] = "01"}}
    \cup {<<MCCode(<<"01", "N1", "OCCURS">>), MCCode(<<"10", "TIMES", "PIC", "X", ".">>),
            MCCode(<<"99", "N2", "PIC", "X", ".">>)>> \o <<MCCode(<<"COPY", "M1", ".">>)>>
            \o MCItem(3, [lvl |-> "01", pic |-> TRUE, lay |-> "filler"])}
    \cup {x \in MCDataOf(MCShapes \cup {MCFiller}, 3) : ~MCFillerCondition(x)}

-----------------------------------------------------------------------------
(* Procedure divisions *)

MCHead(prog) ==
  <<MCArea(<<"IDENTIFICATION", "DIVISION", ".">>), MCArea(<<"PROGRAM-ID", ".", prog, ".">>)>>

MCSelects ==
  <<MCArea(<<"ENVIRONMENT", "DIVISION", ".">>), MCArea(<<"FILE-CONTROL", ".">>),
    MCCode(<<"SELECT", "F1", "ASSIGN", "TO", "DD1", ".">>),
    MCArea(<<"DATA", "DIVISION", ".">>), MCCode(<<"FD", "F1", ".">>)>>
    \o MCItem(1, [lvl |-> "01", pic |-> TRUE, lay |-> "one"])

MCBody(s) == <<MCArea(<<"PROCEDURE", "DIVISION", ".">>)>> \o s

MCHeaders(names) ==
  {MCArea(<<n, ".">>) : n \in names} \cup {MCArea(<<n, "SECTION", ".">>) : n \in {"A"} \cap names}

MCPerforms(names) ==
  {MCCode(<<"PERFORM", n, ".">>) : n \in {"B"} \cap names}
    \cup {MCCode(<<"PERFORM", "A", "THRU", n, ".">>) : n \in {"C", "D"} \cap names}

MCStatements ==
  {MCCode(<<"CALL", "'SUB'", "PERFORM", "A">>), MCCode(<<"CALL", "N1", ".">>),
   MCCode(<<"DISPLAY", "'PERFORM'", ".">>), MCCode(<<"PERFORM", "UNTIL", "N1", ".">>),
   MCArea(<<"EXIT", ".">>), MCComment, MCLine("cont", FALSE, <<"PERFORM", "B", ".">>)}

\* No name is declared twice.
MCOnce(s) ==
  \A i, j \in DOMAIN s : i # j /\ s[i].areaA /\ s[j].areaA
                         => s[i].words[1] # s[j].words[1] \/ s[i].words[1] = "EXIT"

MCBodies(menu, n) ==
  {s \in UNION {[1 .. m -> menu] : m \in 1 .. n} :
     MCOnce(s) /\ MCFlow(s)}

MCAll == {"A", "B", "C"}

MCParagraphs == {MCArea(<<n, ".">>) : n \in {"A", "B", "C", "D"}}

MCProgramSources ==
  {MCHead("P") \o MCBody(s) :
     s \in MCBodies(MCHeaders(MCAll) \cup MCPerforms(MCAll) \cup MCStatements, MCMaxStatements)
             \cup MCBodies(MCHeaders({"A", "B", "C"}) \cup MCPerforms({"C"}), MCMaxStatements + 1)
             \cup MCBodies(MCParagraphs \cup MCPerforms({"D"}), MCMaxStatements + 2)}
    \cup {MCHead("P") \o MCSelects \o MCBody(s) \o MCHead("Q") \o MCBody(t) :
            s \in MCBodies(MCHeaders({"A", "B"}) \cup MCStatements, 2),
            t \in MCBodies({MCArea(<<"C", ".">>)} \cup MCStatements, 2)}
    \cup {MCBody(s) : s \in MCBodies(MCHeaders({"A"}) \cup MCStatements, 2)}

-----------------------------------------------------------------------------
(* COPY statements *)

MCCopyLines ==
  {MCCode(<<"COPY", "M1", ".">>), MCCode(<<"COPY">>), MCCode(<<"M2", ".">>), MCComment,
   MCCode(<<"99", "N1", ".">>), MCCode(<<"DISPLAY", "'PERFORM'", "COPY">>),
   MCLine("cont", FALSE, <<"M3", ".">>),
   MCCode(<<"COPY", "M4", "REPLACING", "==", "COPY", "X", "==", "BY", "==", "Y", "==", ".">>),
   MCCode(<<"==", "COPY", "X", "==", "COPY", "M5", ".", "COPY", "EXIT", ".">>)}

\* What comes after COPY is a name, or a number.
MCNamed(s) ==
  \A i, j \in DOMAIN s :
    /\ i < j /\ s[i] # MCComment /\ s[j] # MCComment /\ Last(s[i].words) = "COPY"
    /\ \A k \in i + 1 .. j - 1 : s[k] = MCComment
    => s[j].words[1] \in {"M2", "M3", "99"}

MCCopySources ==
  {s \in UNION {[1 .. n -> MCCopyLines] : n \in 1 .. MCMaxCopies} : MCFlow(s) /\ MCNamed(s)}

-----------------------------------------------------------------------------
(* JCL decks *)

MCCard(name, op, args, comma) ==
  [kind |-> "code", name |-> name, op |-> op, args |-> args, comma |-> comma]

MCArg(key, val) == [key |-> key, val |-> val]
MCOne(name, op, key, val) == MCCard(name, op, <<MCArg(key, val)>>, FALSE)

MCSkipped ==
  {[MCCard("", "", << >>, FALSE) EXCEPT !.kind = k] : k \in {"comment", "text"}}

MCJob == MCCard("J1", "JOB", << >>, FALSE)

MCSymbolCards ==
  {MCJob, MCOne("", "SET", "A", "P1"), MCOne("", "SET", "B", "&A"),
   MCOne("", "SET", "A", "P2"), MCOne("S1", "EXEC", "PGM", "&B"),
   MCOne("S2", "EXEC", "PROC", "&A"), MCOne("S3", "EXEC", "", "P3"),
   MCOne("S4", "EXEC", "", "&A")}

MCStepCards ==
  {MCJob, MCCard("J2", "JOB", << >>, FALSE), MCCard("P1", "PROC", << >>, FALSE),
   MCCard("", "PEND", << >>, FALSE), MCOne("S1", "EXEC", "PGM", "P1"),
   MCOne("", "EXEC", "PROC", "P2"), MCOne("D1", "DD", "DSN", "X")}

MCDDCards ==
  {MCOne("S2", "EXEC", "PGM", "P1"), MCOne("D1", "DD", "DSN", "X"), MCOne("", "DD", "DSN", "Y"),
   MCCard("D2", "DD", <<MCArg("DSN", "Z")>>, TRUE), MCCard("D3", "DD", << >>, TRUE),
   MCOne("D4", "DD", "", "DUMMY"), MCOne("", "INCLUDE", "MEMBER", "M1"),
   MCOne("", "", "DSN", "W"), MCOne("", "", "DISP", "SHR")} \cup MCSkipped

\* A comma is followed by a continuation, also across comments, and nothing
\* else is; a DD follows an EXEC of its job.
MCCards(d) ==
  LET cards == SelectSeq(d, LAMBDA l : l.kind = "code")
  IN  \A i \in DOMAIN cards :
        /\ cards[i].comma => i < Len(cards) /\ cards[i + 1].op = ""
        /\ cards[i].op = "" => i > 1 /\ cards[i - 1].comma
        /\ cards[i].op = "DD" =>
             \E j \in 1 .. i - 1 : cards[j].op = "EXEC"
                                  /\ \A k \in j .. i : cards[k].op # "JOB"

MCDecks ==
  {d \in UNION {[1 .. n -> MCSymbolCards] : n \in 1 .. 4}
           \cup UNION {[1 .. n -> MCStepCards] : n \in 1 .. 4}
           \cup {<<MCJob, MCOne("S1", "EXEC", "PGM", "P1")>> \o t :
                   t \in UNION {[1 .. n -> MCDDCards] : n \in 1 .. 3}} : MCCards(d)}

\* Steps that run a procedure with parameters.
MCParmDecks ==
  {<<MCJob, MCCard("S1", "EXEC", <<a, MCArg("PARM", "X")>>, FALSE)>> \o t :
     a \in {MCArg("PGM", "P1"), MCArg("", "P3")},
     t \in UNION {[1 .. n -> MCSymbolCards] : n \in 1 .. 2}}

-----------------------------------------------------------------------------

MCDeckVars ==
  <<deck, jpc, at, jobName, procName, lastStep, lastDD, symbols, entries, bindings>>

MCInit ==
  \/ Init /\ J!InitFrom({<< >>})
  \/ InitFrom({<< >>}) /\ J!Init

MCNext ==
  \/ source # << >> /\ Next /\ UNCHANGED MCDeckVars
  \/ deck # << >> /\ J!Next /\ UNCHANGED vars

MCSpec == MCInit /\ [][MCNext]_<<vars, MCDeckVars>>

MCNone == {}

\* The properties of the JCL strategy.
StepsRun == J!StepsRun
DatasetsAgree == J!DatasetsAgree
StepsHaveCallSites == J!StepsHaveCallSites

MCSources == MCDataSources \cup MCProgramSources \cup MCCopySources
=============================================================================
