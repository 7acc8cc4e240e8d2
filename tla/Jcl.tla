-------------------------------- MODULE Jcl --------------------------------
(***************************************************************************)
(* The JCL strategy (strategies/jcl.go): one pass over the statements of a *)
(* deck for jobs, steps, in-stream procedures and datasets, with the       *)
(* symbols SET so far, and a second pass for the dataset imports.          *)
(*                                                                         *)
(* A line of a deck is a comment, in-stream data or code, with a name, an  *)
(* operation ("" for the lines that only continue an operand field), the   *)
(* operands, [key, val] with key "" for a positional one, and whether it   *)
(* ends with a comma.                                                      *)
(***************************************************************************)
EXTENDS Integers, SequencesExt

CONSTANTS Decks,    \* decks, as sequences of lines
          RefOf     \* [values such as "&A" -> the symbol each refers to]

VARIABLES deck,      \* the deck
          jpc,       \* "symbols", "imports" or "done"
          at,        \* the next statement
          jobName, procName, lastStep, lastDD,
          symbols,   \* [symbols that are SET -> their values]
          entries,   \* the symbols of the deck
          bindings   \* its imports

within == <<jobName, procName, lastStep, lastDD>>
vars == <<deck, jpc, at, within, symbols, entries, bindings>>

-----------------------------------------------------------------------------
(* joinJCL *)

\* A line that ends with a comma goes on in the next line of code.
Join(d) ==
  FoldLeft(LAMBDA st, i :
             CASE d[i].kind # "code" -> st
               [] d[i].kind = "code" /\ st.more ->
                    [out |-> [st.out EXCEPT ![Len(st.out)].args = @ \o d[i].args],
                     more |-> d[i].comma]
               [] OTHER ->
                    [out |-> Append(st.out, [name |-> d[i].name, op |-> d[i].op,
                                             args |-> d[i].args, line |-> i]),
                     more |-> d[i].comma],
           [out |-> << >>, more |-> FALSE], [i \in 1 .. Len(d) |-> i]).out

Statements == Join(deck)

Stmt == Statements[at]

InitFrom(decks) ==
  /\ deck \in decks
  /\ jpc = "symbols" /\ at = 1
  /\ jobName = "" /\ procName = "" /\ lastStep = "" /\ lastDD = ""
  /\ symbols = << >> /\ entries = << >> /\ bindings = << >>

Init == InitFrom(Decks)

-----------------------------------------------------------------------------
(* Extract *)

Reads(p, op) == jpc = p /\ at <= Len(Statements) /\ Stmt.op = op

Advance == at' = at + 1 /\ UNCHANGED <<deck, jpc>>

Entry(kind, name, parent) ==
  [kind |-> kind, name |-> name, parent |-> parent, dd |-> "", calls |-> << >>,
   line |-> Stmt.line]

\* The value of the first operand with this key, if any.
Valued(args, key) ==
  LET with == SelectSeq(args, LAMBDA a : a.key = key)
  IN  IF with = << >> THEN "" ELSE with[1].val

\* The value of a symbol that is not SET is empty.
Resolve(val) ==
  IF val \notin DOMAIN RefOf THEN val
  ELSE IF RefOf[val] \in DOMAIN symbols THEN symbols[RefOf[val]] ELSE ""

Job ==
  /\ Reads("symbols", "JOB")
  /\ jobName' = Stmt.name
  /\ entries' = Append(entries, Entry("job", Stmt.name, ""))
  /\ Advance /\ UNCHANGED <<procName, lastStep, lastDD, symbols, bindings>>

Proc ==
  /\ Reads("symbols", "PROC")
  /\ procName' = Stmt.name
  /\ entries' = Append(entries, Entry("jcl-procedure", Stmt.name, ""))
  /\ Advance /\ UNCHANGED <<jobName, lastStep, lastDD, symbols, bindings>>

Pend ==
  /\ Reads("symbols", "PEND")
  /\ procName' = ""
  /\ Advance /\ UNCHANGED <<jobName, lastStep, lastDD, symbols, entries, bindings>>

\* Mutant: a SET does not resolve the symbol it sets from.
SetAsWritten ==
  /\ Reads("symbols", "SET")
  /\ symbols' = IF Stmt.args # << >> /\ Stmt.args[1].key # ""
                THEN Stmt.args[1].key :> Stmt.args[1].val @@ symbols
                ELSE symbols
  /\ Advance /\ UNCHANGED <<within, entries, bindings>>

\* Only the first assignment of a SET is read.
Set ==
  /\ Reads("symbols", "SET")
  /\ symbols' = IF Stmt.args # << >> /\ Stmt.args[1].key # ""
                THEN Stmt.args[1].key :> Resolve(Stmt.args[1].val) @@ symbols
                ELSE symbols
  /\ Advance /\ UNCHANGED <<within, entries, bindings>>

\* A DD without a name has that of the DD before it.
DDName(prev) == IF Stmt.name # "" THEN Stmt.name ELSE prev

DD ==
  /\ Reads("symbols", "DD")
  /\ lastDD' = DDName(lastDD)
  /\ LET dsn == Valued(Stmt.args, "DSN")
     IN  entries' = IF dsn = "" THEN entries
                    ELSE Append(entries, [Entry("dataset", dsn, lastStep)
                                            EXCEPT !.dd = DDName(lastDD)])
  /\ Advance /\ UNCHANGED <<jobName, procName, lastStep, symbols, bindings>>

\* What a step runs: PGM=, else PROC=, else the first of operands that are all
\* positional, unless it is a symbol, which reBareOp does not match.
Runs(args) ==
  LET has(key) == \E i \in DOMAIN args : args[i].key = key
  IN  IF has("PGM") THEN Resolve(Valued(args, "PGM"))
      ELSE IF has("PROC") THEN Resolve(Valued(args, "PROC"))
      ELSE IF /\ args # << >> /\ \A i \in DOMAIN args : args[i].key = ""
              /\ args[1].val \notin DOMAIN RefOf
      THEN args[1].val ELSE ""

Exec ==
  /\ Reads("symbols", "EXEC")
  /\ LET name == IF Stmt.name = "" THEN "STEP" ELSE Stmt.name
         callee == Runs(Stmt.args)
         parent == IF procName # "" THEN procName ELSE jobName
     IN  /\ entries' = Append(entries,
                         [Entry("step", name, parent) EXCEPT
                            !.calls = IF callee = "" THEN << >> ELSE <<callee>>])
         /\ lastStep' = name
  /\ Advance /\ UNCHANGED <<jobName, procName, lastDD, symbols, bindings>>

OtherStatement ==
  /\ jpc = "symbols" /\ at <= Len(Statements)
  /\ Stmt.op \notin {"JOB", "PROC", "PEND", "SET", "DD", "EXEC"}
  /\ Advance /\ UNCHANGED <<within, symbols, entries, bindings>>

Extract ==
  Job \/ Proc \/ Pend \/ Set \/ DD \/ Exec \/ OtherStatement

-----------------------------------------------------------------------------
(* ExtractImports *)

\* ddName is a variable of this pass.
StartImports ==
  /\ jpc = "symbols" /\ at > Len(Statements)
  /\ jpc' = "imports" /\ at' = 1 /\ lastDD' = ""
  /\ UNCHANGED <<deck, jobName, procName, lastStep, symbols, entries, bindings>>

Binding(group, path, dd) ==
  [group |-> group, path |-> path, alias |-> dd, line |-> Stmt.line]

Include ==
  /\ Reads("imports", "INCLUDE")
  /\ LET member == Valued(Stmt.args, "MEMBER")
     IN  bindings' = IF member = "" THEN bindings
                     ELSE Append(bindings, Binding("jcl-member", member, ""))
  /\ Advance /\ UNCHANGED <<within, symbols, entries>>

\* Mutant: a DD without a name binds nothing of its own.
BindNamedDD ==
  /\ Reads("imports", "DD")
  /\ lastDD' = DDName(lastDD)
  /\ LET dsn == Valued(Stmt.args, "DSN")
     IN  bindings' = IF dsn = "" \/ Stmt.name = "" THEN bindings
                     ELSE Append(bindings, Binding("dataset", dsn, lastDD'))
  /\ Advance /\ UNCHANGED <<jobName, procName, lastStep, symbols, entries>>

BindDD ==
  /\ Reads("imports", "DD")
  /\ lastDD' = DDName(lastDD)
  /\ LET dsn == Valued(Stmt.args, "DSN")
     IN  bindings' = IF dsn = "" THEN bindings
                     ELSE Append(bindings, Binding("dataset", dsn, lastDD'))
  /\ Advance /\ UNCHANGED <<jobName, procName, lastStep, symbols, entries>>

OtherImport ==
  /\ jpc = "imports" /\ at <= Len(Statements) /\ Stmt.op \notin {"INCLUDE", "DD"}
  /\ Advance /\ UNCHANGED <<within, symbols, entries, bindings>>

EndImports ==
  /\ jpc = "imports" /\ at > Len(Statements)
  /\ jpc' = "done"
  /\ UNCHANGED <<deck, at, within, symbols, entries, bindings>>

ExtractImports == StartImports \/ Include \/ BindDD \/ OtherImport \/ EndImports

Next == Extract \/ ExtractImports

Spec == Init /\ [][Next]_vars

-----------------------------------------------------------------------------
(* Properties, against the statements that come before a statement *)

Of(kind) == SelectSeq(entries, LAMBDA e : e.kind = kind)

Positions(op) ==
  SelectSeq([i \in 1 .. Len(Statements) |-> i], LAMBDA i : Statements[i].op = op)

\* The latest of the statements before i that satisfy P, or 0.
Latest(i, P(_)) == Max({0} \cup {j \in 1 .. i - 1 : P(Statements[j])})

\* The value of a symbol at statement i, by the SETs before it.
ValueAt[i \in Nat, val \in STRING] ==
  IF val \notin DOMAIN RefOf THEN val
  ELSE LET set == Latest(i, LAMBDA s : s.op = "SET" /\ s.args[1].key = RefOf[val])
       IN  IF set = 0 THEN "" ELSE ValueAt[set, Statements[set].args[1].val]

\* The procedure around statement i, else its job.
Around(i) ==
  LET proc == Latest(i, LAMBDA s : s.op = "PROC")
      job == Latest(i, LAMBDA s : s.op = "JOB")
      pend == Latest(i, LAMBDA s : s.op = "PEND")
  IN  IF proc > pend THEN Statements[proc].name
      ELSE IF job > 0 THEN Statements[job].name ELSE ""

Named(i) ==
  LET args == Statements[i].args
      by(key) == Valued(args, key)
  IN  IF by("PGM") # "" THEN by("PGM")
      ELSE IF by("PROC") # "" THEN by("PROC")
      ELSE IF by("") \notin DOMAIN RefOf THEN by("") ELSE ""

\* Each EXEC is a step of the procedure or job it is in, with one call to
\* what it runs once symbols are replaced by what the SETs before it say, or
\* none when they say nothing, or when the procedure is a symbol that stands
\* alone (jcl.go:130-163).
StepsRun ==
  jpc = "done" =>
    LET execs == Positions("EXEC")
        runs(i) == ValueAt[i, Named(i)]
    IN  [k \in DOMAIN Of("step") |-> <<Of("step")[k].parent, Of("step")[k].calls>>]
          = [k \in DOMAIN execs |->
               <<Around(execs[k]),
                 IF runs(execs[k]) = "" THEN << >> ELSE <<runs(execs[k])>>>>]

\* The datasets found by the two passes are the same, under the same DD name
\* and on the same line; and each is a dataset of the step before it in its
\* job (jcl.go:115-129, 187-201).
DatasetsAgree ==
  jpc = "done" =>
    LET bound == SelectSeq(bindings, LAMBDA b : b.group = "dataset")
        found == Of("dataset")
        stmtAt(line) == CHOOSE i \in 1 .. Len(Statements) : Statements[i].line = line
        step(i) == LET exec == Latest(i, LAMBDA s : s.op = "EXEC")
                       job == Latest(i, LAMBDA s : s.op = "JOB")
                   IN  IF exec <= job THEN "" ELSE
                       IF Statements[exec].name = "" THEN "STEP" ELSE Statements[exec].name
    IN  /\ [k \in DOMAIN found |-> <<found[k].name, found[k].dd, found[k].line>>]
             = [k \in DOMAIN bound |-> <<bound[k].path, bound[k].alias, bound[k].line>>]
        /\ \A e \in Range(found) : e.parent = step(stmtAt(e.line))

\* "steps (with the program or procedure each executes as a call site)"
\* (jcl.go:20): a step that names what it runs has a call site.
StepsHaveCallSites ==
  jpc = "done" =>
    \A e \in Range(Of("step")) : \A i \in Range(Positions("EXEC")) :
      Statements[i].line = e.line /\ Named(i) \notin DOMAIN RefOf \cup {""}
        => e.calls = <<Named(i)>>
=============================================================================
