----------------------------- MODULE MCTextMask -----------------------------
(***************************************************************************)
(* Sources for TextMask.  A well-formed source is built from pieces whose  *)
(* symbols say what they are: code, literal text or comment; what must be  *)
(* hidden is read off them.  A piece that holds others is an interpolation *)
(* hole, so that literals nest in holes that nest in literals.             *)
(***************************************************************************)
EXTENDS TextMask, SequencesExt

CONSTANT MCLanguages   \* the language keys to try

MCWord == {"a", "b", "e", "N", "L", "R", "r", "f", "rf", "if", "return",
           "php", "error", "region"}
MCDigit == {"1", "0"}

C(s) == [k \in DOMAIN s |-> <<s[k], "code">>]
T(s) == [k \in DOMAIN s |-> <<s[k], "text">>]
K(s) == [k \in DOMAIN s |-> <<s[k], "comment">>]

DQ == "\""
BS == "\\"

\* Literals and comments without holes, full of each other's marks.
Block == K(<<"/", "*", DQ, "'", "*", "/">>)
Nested == K(<<"/", "*", "/", "*", "*", "/", DQ, "*", "/">>)
Escaped == T(<<DQ, "/", "/", BS, DQ, "{", DQ>>)
Char == T(<<"'", DQ, "'">>)
EscapedChar == T(<<"'", BS, "'", "'">>)

Simple(l) ==
  CASE l \in {"c", "cpp", "objc"} ->
         {Block, Escaped, EscapedChar, T(<<"L", DQ, "'", DQ>>),
          C(<<"1", "'", "0", "e", "+", "1">>)}
         \cup (IF l = "objc" THEN {T(<<"@", DQ, "'", DQ>>)} ELSE {})
         \cup (IF l = "cpp" THEN {T(<<"R", DQ, "a", "(", ")", DQ, ")", "a", DQ>>)}
               ELSE {})
    [] l = "java" -> {Block, Escaped, Char,
                      T(<<DQ, DQ, DQ, "\n", DQ, BS, DQ, DQ, DQ, DQ>>)}
    [] l = "go" -> {Block, Escaped, Char, T(<<Backtick, BS, "\n", "'", Backtick>>)}
    [] l = "rust" -> {Nested, Escaped, Char, EscapedChar, C(<<"'", "a">>),
                      T(<<"r", "#", DQ, BS, DQ, "'", DQ, "#">>),
                      C(<<"r", "#", "a">>), T(<<DQ, "\n", DQ>>)}
    [] l \in {"javascript", "typescript", "jsx", "tsx"} ->
         {Block, Escaped, Char, T(<<"/", DQ, "[", "/", "]", BS, "/", "/", "a">>),
          C(<<"(", "a", ")", "/", "b", "/", "1">>), C(<<"a", "!", "/", "b", "/", "1">>),
          C(<<"if", "(", "a", ")">>) \o T(<<"/", DQ, "/">>),
          C(<<"return", " ">>) \o T(<<"/", "'", "/">>)}
    [] l = "python" -> {T(<<"'", BS, "'", "#", "'">>), T(<<DQ, "#", "{", DQ>>),
                        T(<<DQ, DQ, DQ, DQ, "\n", BS, DQ, DQ, DQ, DQ>>),
                        T(<<"r", "'", "{", "'">>),
                        T(<<"f", DQ, "{", "{", BS, "N", "{", "a", "}", DQ>>)}
    [] l = "php" -> {Block, T(<<"'", "$", BS, "'", "\n", "'">>), Escaped,
                     C(<<"#", "[", "a", "]">>)}
    [] l = "csharp" -> {Block, Escaped, EscapedChar,
                        T(<<"@", DQ, BS, DQ, DQ, "\n", DQ>>),
                        T(<<DQ, DQ, DQ, "a", DQ, BS, DQ, DQ, DQ>>)}
    [] l = "kotlin" -> {Nested, Escaped, Char, C(<<Backtick, "'", Backtick>>),
                        T(<<DQ, DQ, DQ, BS, "\n", DQ, DQ, DQ, DQ>>)}
    [] l = "swift" -> {Nested, Escaped, C(<<Backtick, "'", Backtick>>),
                       C(<<"#", "if">>),
                       T(<<"#", DQ, BS, DQ, BS, "(", DQ, "#">>),
                       T(<<DQ, DQ, DQ, "\n", DQ, BS, DQ, DQ, DQ, DQ>>)}

\* The literals of a language around a hole with the code p in it.
Around(l, p) ==
  CASE l \in {"javascript", "typescript"} ->
         {T(<<Backtick, "/", "/">>) \o C(<<"$", "{">>) \o p \o C(<<"}">>)
            \o T(<<BS, Backtick, "$", Backtick>>)}
    [] l \in {"jsx", "tsx"} ->
         {C(<<"<", "a", " ", "b", "=">>) \o T(<<DQ, "{", DQ>>) \o C(<<"b", "=", "{">>)
            \o p \o C(<<"}", ">">>) \o T(<<"'", "<", " ">>)
            \o C(<<"<", "b", "/", ">">>) \o T(<<"'">>) \o C(<<"<", "a", ">">>)
            \o T(<<"/", "*">>) \o C(<<"{">>) \o p \o C(<<"}", "<", "/", "a", ">">>)
            \o T(<<DQ>>) \o C(<<"<", "/", "a", ">">>),
          C(<<"<", "a", "/", ">">>)}
    [] l = "python" ->
         {T(<<"f", DQ, "#">>) \o C(<<"{">>) \o p \o C(<<"}">>)
            \o T(<<"{", "{", "'", DQ>>),
          T(<<"f", "'", "'", "'", "\n", "'">>) \o C(<<"{">>) \o p \o C(<<"!", "r">>)
            \o T(<<":", "#">>) \o C(<<"{">>) \o p \o C(<<"}">>) \o T(<<DQ>>)
            \o C(<<"}">>) \o T(<<"'", "'", "'">>),
          T(<<"rf", DQ, BS>>) \o C(<<"{", "(", ":", "=", ")", "!", "=">>) \o p
            \o C(<<"}">>) \o T(<<DQ>>)}
    [] l = "php" ->
         {T(<<DQ, "'">>) \o C(<<"{", "$", "a", "[">>) \o p \o C(<<"]", "}">>)
            \o T(<<"/", "/">>) \o C(<<"$", "{">>) \o p \o C(<<"}">>)
            \o T(<<BS, DQ>>) \o C(<<"$", "a", "-", ">", "b">>) \o T(<<"'">>)
            \o C(<<"$", "b", "?", "-", ">", "a">>) \o T(<<" ">>)
            \o C(<<"$", "a", "[", "0", "]">>) \o T(<<"[">>) \o T(<<DQ>>)}
    [] l = "csharp" ->
         {T(<<"$", DQ, "{", "{", "}", "}", "/", "/">>) \o C(<<"{">>) \o p
            \o T(<<":", "0", "'">>) \o C(<<"}">>) \o T(<<BS, DQ, DQ>>),
          T(<<"$", "@", DQ, BS, DQ, DQ, "\n">>) \o C(<<"{">>) \o p
            \o C(<<":", ":", "a", "}">>) \o T(<<DQ>>),
          T(<<"$", "$", DQ, DQ, DQ, "{", "'", DQ, "{">>) \o C(<<"{", "{">>)
            \o p \o T(<<":", "0">>) \o C(<<"}", "}">>) \o T(<<"}", DQ, DQ, DQ>>)}
    [] l = "kotlin" ->
         {T(<<DQ, "/", "/">>) \o C(<<"$", "{">>) \o p \o C(<<"}">>)
            \o T(<<"'", BS, "$", DQ>>),
          T(<<DQ, DQ, DQ, BS, DQ, "\n">>) \o C(<<"$", "a", "$", "{">>) \o p
            \o C(<<"}">>) \o T(<<"$", DQ, DQ, DQ, DQ>>)}
    [] l = "swift" ->
         {T(<<DQ, "'">>) \o C(<<BS, "(", "(">>) \o p \o C(<<")", ")">>)
            \o T(<<BS, DQ, "/", "/", DQ>>),
          T(<<"#", DQ, DQ, DQ, BS, "(", "\n", DQ>>) \o C(<<BS, "#", "(">>) \o p
            \o C(<<")">>) \o T(<<BS, "#", DQ, DQ, DQ, DQ, "#">>)
         }
    [] OTHER -> {}

\* What takes a line of its own.
Lines(l) ==
  CASE l \in {"c", "cpp", "objc"} ->
         {K(<<"/", "/", BS, "\n", "'">>) \o C(<<"\n">>),
          C(<<"\n", "#", " ", "error", "'", BS, "\n", "'">>) \o Block
            \o C(<<"'">>) \o K(<<"/", "/", "'">>) \o C(<<"\n">>),
          C(<<"\n", "#", "if", "\n">>)}
    [] l = "csharp" ->
         {K(<<"/", "/", BS>>) \o C(<<"\n">>),
          C(<<"\n", "#", "region", "'", BS, "\n">>),
          C(<<"\n", "#", "if", "\n">>)}
    [] l = "python" -> {K(<<"#", "'">>) \o C(<<"\n">>)}
    [] l = "php" ->
         {K(<<"#", "'">>) \o C(<<"\n">>),
          T(<<"<", "<", "<", "a", "\n", "'", "a", BS, "$">>) \o C(<<"{", "$", "b", "}">>)
            \o T(<<"a", "\n", " ", "b", "\n", " ", "a">>),
          T(<<"<", "<", "<", "'", "a", "'", "\n", "$", "b", BS, "\n", "a">>),
          C(<<"b", "<", "<", "<", "1">>)}
    [] OTHER -> {K(<<"/", "/", "'">>) \o C(<<"\n">>)}

\* Literals that run to the end of their line, or of the source.
Unterminated(l) ==
  CASE l \in {"rust", "php"} -> {T(<<DQ, "\n", "a", BS>>), K(<<"/", "*", "\n">>)}
    [] l = "python" -> {T(<<"f", DQ, "a">>) \o C(<<"\n", "b">>),
                        T(<<"'", "'", "'", "\n", BS>>)}
    [] l = "csharp" -> {T(<<DQ, "a">>) \o C(<<"\n", "b">>), T(<<"@", DQ, "\n">>),
                        T(<<"$", DQ, "a">>) \o C(<<"\n", "b">>),
                        T(<<"$", DQ>>) \o C(<<"{", "a">>) \o T(<<":", "1">>) \o C(<<"\n">>)}
    [] OTHER -> {T(<<DQ, "a">>) \o C(<<"\n", "b">>), K(<<"/", "*", "\n">>)}

Semi == C(<<";">>)

Holed(l, ps) == UNION {Around(l, p) : p \in ps}

\* Holes in holes, around one literal.
Deep(l) == Holed(l, Holed(l, {CHOOSE p \in Simple(l) : p[1][2] = "text"}))

Whole(l) ==
  LET first == Simple(l) \cup Holed(l, Simple(l)) \cup Deep(l) \cup Lines(l)
      tails == Lines(l) \cup Unterminated(l) \cup Holed(l, {C(<<"a">>)}) \cup {Semi}
  IN  {p \o Semi \o q : p \in first, q \in tails}
        \cup {p \o Semi \o q : p, q \in Simple(l)}
        \cup (IF l = "javascript"
              THEN {K(<<"#", "!", "'">>) \o C(<<"\n">>)} ELSE {})

\* PHP files start outside PHP.
Page(p) ==
  T(<<"a", "'">>) \o C(<<"<", "?", "php", " ">>) \o p \o Semi
    \o K(<<"/", "/", DQ>>) \o C(<<"?", ">">>) \o T(<<"#", "'">>)
    \o C(<<"<", "?", "=">>) \o p \o C(<<"?", ">">>) \o T(<<"a", "\n">>)
    \o C(<<"<", "?", "a", "?", ">">>) \o T(<<"\"">>)

Source(p) == [k \in DOMAIN p |-> p[k][1]]

HiddenOf(p, strings) ==
  {k \in DOMAIN p :
     /\ p[k][1] # "\n"
     /\ p[k][2] = "comment" \/ (strings /\ p[k][2] = "text")}

Input(l, p, strings, isFile, isWhole) ==
  [lang |-> l, src |-> Source(p), maskStrings |-> strings, file |-> isFile,
   hidden |-> HiddenOf(p, strings), whole |-> isWhole]

Truncated(l) ==
  UNION {{SubSeq(p, 1, n) : n \in 1 .. Len(p)}
         : p \in Holed(l, {CHOOSE q \in Simple(l) : q[1][2] = "text"}) \cup Lines(l)}

MCInputs ==
  UNION {{Input(l, p, strings, FALSE, TRUE) : p \in Whole(l), strings \in BOOLEAN}
           \cup {Input(l, p, TRUE, FALSE, FALSE) : p \in Truncated(l)}
         : l \in MCLanguages}
    \cup {Input("php", Page(p), TRUE, TRUE, TRUE) :
             p \in Simple("php") \cup Around("php", C(<<"1">>))}

\* A comment where an expression starts, before a regex.
MCRegexInputs ==
  {Input("javascript", C(<<"a", "=">>) \o Block \o T(<<"/", "'", "/">>) \o Semi,
         TRUE, FALSE, TRUE)}

\* The last line of a heredoc ends with a backslash.
MCHeredocInputs ==
  {Input("php", T(<<"<", "<", "<", "a", "\n", BS, "\n", "a">>) \o C(<<";", "b">>),
         TRUE, FALSE, TRUE)}
=============================================================================
