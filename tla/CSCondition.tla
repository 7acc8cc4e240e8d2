---------------------------- MODULE CSCondition ----------------------------
(***************************************************************************)
(* The conditions of C# #if and #elif lines, as csEvalCondition            *)
(* (strategies/cspreproc.go:105-202) evaluates them: a recursive descent   *)
(* parser over tokens, that computes the value as it goes, with every      *)
(* symbol undefined.  A condition is its sequence of tokens; "?" is a      *)
(* character no token starts with.                                         *)
(***************************************************************************)
EXTENDS Integers, Sequences

\* The state of the parser after it read something: its value, the next
\* token's index, and whether anything was wrong so far.
Reading == [val : BOOLEAN, pos : Nat, bad : BOOLEAN]

\* Binary operators by level; each level's operands are those of the one below.
Operators == <<{"==", "!="}, {"&&"}, {"||"}>>

Combined(op, v, w) ==
  CASE op = "==" -> v = w
    [] op = "!=" -> v # w
    [] op = "&&" -> v /\ w
    [] op = "||" -> v \/ w

\* peek
Peek(toks, pos) == IF pos \in 1 .. Len(toks) THEN toks[pos] ELSE ""

Next1(r) == [r EXCEPT !.pos = @ + 1]

\* read[l, FALSE, r] reads an expression of level l after r (prim at level 0,
\* then eq, and, or); read[l, TRUE, r] goes on with its operators.
Parsed(toks) ==
  LET read[l \in 0 .. 3, more \in BOOLEAN, r \in Reading] ==
        LET t == Peek(toks, r.pos)
            next == Next1(r)
        IN  IF more
            THEN IF t \notin Operators[l] THEN r
                 ELSE LET w == read[l - 1, FALSE, next]
                      IN  read[l, TRUE, [w EXCEPT !.val = Combined(t, r.val, @)]]
            ELSE IF l > 0 THEN read[l, TRUE, read[l - 1, FALSE, r]]
            ELSE CASE t = "!" -> LET w == read[0, FALSE, next]
                                 IN  [w EXCEPT !.val = ~@]
                   [] t = "(" -> LET w == read[3, FALSE, next]
                                 IN  [Next1(w) EXCEPT !.bad = @ \/ Peek(toks, w.pos) # ")"]
                   [] t \in {"", "&&", "||", "==", "!=", ")"} ->
                        [next EXCEPT !.val = FALSE, !.bad = TRUE]
                   [] OTHER -> [next EXCEPT !.val = (t = "true")]
  IN  read[3, FALSE, [val |-> FALSE, pos |-> 1, bad |-> FALSE]]

\* csEvalCondition: "true", "false", or "unreadable" when ok is false.
EvalCondition(toks) ==
  LET r == Parsed(toks)
  IN  IF \/ \E k \in 1 .. Len(toks) : toks[k] = "?"
         \/ r.bad
         \/ r.pos # Len(toks) + 1
      THEN "unreadable"
      ELSE IF r.val THEN "true" ELSE "false"
=============================================================================
