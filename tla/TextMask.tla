------------------------------ MODULE TextMask ------------------------------
(***************************************************************************)
(* The scanner of textmask (textmask/textmask.go): one forward pass that   *)
(* hides comments and literal text and keeps code, down into the           *)
(* interpolation holes of literals, whose code may hold literals in turn.  *)
(*                                                                         *)
(* The scanner's functions call each other: code calls a literal's         *)
(* function, which calls code for a hole.  `stack` is that call stack, and *)
(* the local variables of each call are the fields of its frame.  A step   *)
(* is one round of the innermost loop, or a return.                        *)
(*                                                                         *)
(* COBOL and JCL, which are masked line by line, are not in this module.   *)
(***************************************************************************)
EXTENDS MaskTokens, FiniteSets

CONSTANT Inputs   \* [lang, src, maskStrings, file, hidden, whole]

\* The languages of this module; Mask returns a source of any other as it is.
Languages == {"go", "typescript", "tsx", "javascript", "jsx", "python", "java", "rust",
              "c", "cpp", "csharp", "php", "swift", "kotlin", "objc"}

ASSUME InputsAssumption ==
  \A in \in Inputs : in.lang \in Languages /\ in.src \in Seq(STRING)

VARIABLES maskStrings,  \* Mask and MaskFile, or MaskComments
          file,         \* MaskFile: PHP starts in inline HTML
          hidden,       \* the offsets that truly are comment or literal text,
          whole,        \* when the source is not cut short
          at,           \* the offset the scan has reached
          stack,        \* the frames of the active calls, innermost last
          masked,       \* the offsets blanked so far
          regexOK       \* s.regexOK: "/" here starts a regex

input == <<lang, src, maskStrings, file, hidden, whole>>
vars == <<input, at, stack, masked, regexOK>>

Top == stack[Len(stack)]
Below == SubSeq(stack, 1, Len(stack) - 1)
WithTop(f) == Append(Below, f)

CodeFrame(closer, fmtStop) ==
  [fn |-> "code", closer |-> closer, fmtStop |-> fmtStop, depth |-> 0,
   conds |-> << >>, word |-> NoSymbol, saved |-> regexOK]

\* blank never touches a line break; lit is blank when strings are masked.
Blanked(i, j) == {k \in i .. j - 1 : k < Eof /\ src[k] # "\n"}
Lit(i, j) == IF maskStrings THEN Blanked(i, j) ELSE {}

\* The offset after the next PHP open tag from i on.
AfterOpenTag(i) ==
  LET k == First(i, LAMBDA x : At(x, <<"<", "?">>))
  IN  IF k = Eof THEN Eof
      ELSE IF CharAt(k + 2) = "php" THEN k + 3
      ELSE IF CharAt(k + 2) = "=" THEN k + 3
      ELSE k + 2

\* run
Init ==
  /\ \E in \in Inputs :
       /\ lang = in.lang /\ src = in.src /\ maskStrings = in.maskStrings
       /\ file = in.file /\ hidden = in.hidden /\ whole = in.whole
  /\ regexOK = (Family = "JS")
  /\ IF file /\ lang = "php"
     THEN LET k == First(1, LAMBDA x : At(x, <<"<", "?">>))
          IN  at = AfterOpenTag(1) /\ masked = Lit(1, k)
     ELSE at = 1 /\ masked = {}
  /\ stack = <<[fn |-> "code", closer |-> NoSymbol, fmtStop |-> FALSE, depth |-> 0,
                conds |-> << >>, word |-> NoSymbol, saved |-> regexOK]>>

-----------------------------------------------------------------------------
(* The literals with a loop of their own: the frames they push *)

Opened(frames, to) == [is |-> "open", frames |-> frames, to |-> to]

Kotlin(i) ==
  LET raw == At(i, DQuotes(3))
  IN  Opened(<<[fn |-> "kotlin", raw |-> raw, seg |-> i]>>,
             IF raw THEN i + 3 ELSE i + 1)

Swift(from, q) ==
  LET multi == At(q, DQuotes(3))
  IN  Opened(<<[fn |-> "swift", multi |-> multi, hashes |-> q - from, seg |-> from]>>,
             IF multi THEN q + 3 ELSE q + 1)

JSTemplate(i) == Opened(<<[fn |-> "template", seg |-> i]>>, i + 1)

JSX(i) == Opened(<<[fn |-> "jsx", depth |-> 0, seg |-> i], [fn |-> "tag", seg |-> i]>>, i + 1)

Python(from, q, raw, fmt) ==
  LET triple == At(q, <<src[q], src[q], src[q]>>)
  IN  Opened(<<[fn |-> "python", quote |-> src[q], triple |-> triple, raw |-> raw,
                fmt |-> fmt, seg |-> from]>>,
             IF triple THEN q + 3 ELSE q + 1)

PHPString(i, q) == Opened(<<[fn |-> "php", quote |-> q, seg |-> i]>>, i + 1)

CSharpInterp(from, q, verbatim) ==
  Opened(<<[fn |-> "interp", verbatim |-> verbatim, seg |-> from]>>, q + 1)

CSharpRaw(from, q, quotes, dollars) ==
  Opened(<<[fn |-> "csraw", quotes |-> quotes, dollars |-> dollars, seg |-> from]>>,
         q + quotes)

\* #error and the like: text that is kept, whose comments are not.
FreeText(i, cont) == Opened(<<[fn |-> "free", cont |-> cont, seg |-> i]>>, i)

-----------------------------------------------------------------------------
(* token: what starts at a symbol that is no word and no bracket *)

CToken(i) ==
  CASE src[i] \in {"\"", "'"} -> Quoted(i, i, TRUE, FALSE)
    [] At(i, <<"@", "\"">>) /\ lang = "objc" -> Quoted(i, i + 1, TRUE, FALSE)
    [] src[i] = "#" /\ AtLineStart(i) ->
         LET d == DirectiveWord(i)
         IN  IF d.name \in {"error", "warning"} THEN FreeText(d.after, TRUE)
             ELSE Code(i, i + 1)
    [] OTHER -> NoToken(i)

JavaToken(i) ==
  CASE At(i, DQuotes(3)) -> JavaTextBlock(i)
    [] ~At(i, DQuotes(3)) /\ src[i] \in {"\"", "'"} -> Quoted(i, i, TRUE, FALSE)
    [] OTHER -> NoToken(i)

GoToken(i) ==
  CASE src[i] \in {"\"", "'"} -> Quoted(i, i, TRUE, FALSE)
    [] src[i] = Backtick -> Quoted(i, i, FALSE, TRUE)
    [] OTHER -> NoToken(i)

RustToken(i) ==
  CASE src[i] = "\"" -> Quoted(i, i, TRUE, TRUE)
    [] src[i] = "'" -> RustQuote(i)
    [] OTHER -> NoToken(i)

\* "<" opens a tag when its name ends like one, unlike <T,>(x) => ...
JSXTagStart(i) ==
  LET k == First(i + 1, LAMBDA x :
             ~IsIdentByte(src[x]) /\ src[x] \notin {".", "-", ":"})
  IN  \/ CharAt(i + 1) = ">"
      \/ IsIdentStart(CharAt(i + 1)) /\ CharAt(k) \in Spaces \cup {">", "/"}

JSToken(i) ==
  CASE src[i] \in {"\"", "'"} -> Quoted(i, i, TRUE, PrevByte(i) = "=")
    [] src[i] = Backtick -> JSTemplate(i)
    [] i = 1 /\ At(i, <<"#", "!">>) -> LineComment(i, FALSE)
    [] src[i] = "/" /\ regexOK /\ ~(CharAt(i + 1) = ">" /\ PrevByte(i) = "}") ->
         JSRegex(i)
    [] src[i] = "<" /\ regexOK /\ lang # "typescript" /\ JSXTagStart(i) -> JSX(i)
    [] OTHER -> NoToken(i)

PythonToken(i) ==
  CASE src[i] = "#" -> LineComment(i, FALSE)
    [] src[i] \in {"\"", "'"} -> Python(i, i, FALSE, FALSE)
    [] OTHER -> NoToken(i)

\* <<<ID, <<<"ID" or <<<'ID' with nothing after it on its line.
PHPHeredoc(i) ==
  LET k == First(i + 3, LAMBDA x : src[x] \notin {" ", "\t"})
      quote == IF CharAt(k) \in {"\"", "'"} THEN CharAt(k) ELSE NoSymbol
      id == IF quote = NoSymbol THEN k ELSE k + 1
      after == IF quote = NoSymbol THEN id + 1 ELSE id + 2
  IN  IF /\ IsIdentStart(CharAt(id))
         /\ quote = NoSymbol \/ CharAt(id + 1) = quote
         /\ CharAt(after) = "\n"
      THEN Opened(<<[fn |-> "heredoc", id |-> src[id], interp |-> quote # "'",
                     lineStart |-> TRUE, seg |-> i]>>, after + 1)
      ELSE Code(i, i + 3)

PHPToken(i) ==
  CASE src[i] = "#" /\ CharAt(i + 1) # "[" -> PHPLineComment(i)
    [] src[i] = "'" -> Quoted(i, i, TRUE, TRUE)
    [] src[i] \in {"\"", Backtick} -> PHPString(i, src[i])
    [] At(i, <<"<", "<", "<">>) -> PHPHeredoc(i)
    [] OTHER -> NoToken(i)

\* Prefixes $ and @ in either order, then the quotes.
CSharpString(i) ==
  LET p == First(i, LAMBDA x :
             src[x] # "$" /\ ~(src[x] = "@" /\ \A y \in i .. x - 1 : src[y] # "@"))
      dollars == Cardinality({x \in i .. p - 1 : src[x] = "$"})
      verbatim == \E x \in i .. p - 1 : src[x] = "@"
      quotes == First(p, LAMBDA x : src[x] # "\"") - p
  IN  IF CharAt(p) # "\"" THEN NoToken(i)
      ELSE IF quotes >= 3 /\ ~verbatim THEN CSharpRaw(i, p, quotes, dollars)
      ELSE IF dollars > 0 THEN CSharpInterp(i, p, verbatim)
      ELSE IF verbatim THEN Doubled(i, p, FALSE)
      ELSE Quoted(i, p, TRUE, FALSE)

CSharpToken(i) ==
  CASE src[i] = "'" -> Quoted(i, i, TRUE, FALSE)
    [] src[i] = "#" /\ AtLineStart(i) ->
         LET d == DirectiveWord(i)
         IN  IF d.name \in {"region", "endregion", "error", "warning", "pragma",
                            "line", "nullable"}
             THEN FreeText(d.after, FALSE)
             ELSE NoToken(i)
    [] src[i] \in {"\"", "@", "$"} -> CSharpString(i)
    [] OTHER -> NoToken(i)

KotlinToken(i) ==
  CASE src[i] = Backtick -> BacktickName(i)
    [] src[i] = "\"" -> Kotlin(i)
    [] src[i] = "'" -> Quoted(i, i, TRUE, FALSE)
    [] OTHER -> NoToken(i)

SwiftToken(i) ==
  CASE src[i] = Backtick -> BacktickName(i)
    [] src[i] = "\"" -> Swift(i, i)
    [] src[i] = "#" ->
         LET h == First(i, LAMBDA x : src[x] # "#")
         IN  IF CharAt(h) = "\"" THEN Swift(i, h) ELSE Code(i, h)
    [] OTHER -> NoToken(i)

Token(i) ==
  IF Family # "python" /\ At(i, <<"/", "/">>)
  THEN IF Family = "php" THEN PHPLineComment(i) ELSE LineComment(i, Family = "C")
  ELSE IF Family # "python" /\ At(i, <<"/", "*">>)
  THEN BlockComment(i, Family \in {"rust", "kotlin", "swift"})
  ELSE CASE Family = "C" -> CToken(i)
         [] Family = "java" -> JavaToken(i)
         [] Family = "go" -> GoToken(i)
         [] Family = "rust" -> RustToken(i)
         [] Family = "JS" -> JSToken(i)
         [] Family = "python" -> PythonToken(i)
         [] Family = "php" -> PHPToken(i)
         [] Family = "csharp" -> CSharpToken(i)
         [] Family = "kotlin" -> KotlinToken(i)
         [] Family = "swift" -> SwiftToken(i)

\* In lower case; the code takes either, and pairs that Python refuses (ub"").
RawPrefixes == {"r", "rb", "br", "rf", "fr", "rt", "tr"}
FmtPrefixes == {"f", "t", "rf", "fr", "rt", "tr"}

\* prefixed: a literal whose prefix is the word at i, which ends at k.
Prefixed(i, k) ==
  LET w == src[i]
      next == CharAt(k)
  IN  IF k # i + 1 THEN NoToken(i)
      ELSE CASE /\ Family = "C" /\ w \in {"L", "u", "U", "u8"}
                /\ next \in {"\"", "'"} -> Quoted(i, k, TRUE, FALSE)
             [] /\ Family = "C" /\ w \in {"R", "LR", "uR", "UR", "u8R"}
                /\ next = "\"" /\ lang # "c" -> CppRaw(i, k)
             [] Family = "rust" /\ w = "b" /\ next = "'" -> Quoted(i, k, TRUE, FALSE)
             [] /\ Family = "rust" /\ w \in {"b", "c"}
                /\ next = "\"" -> Quoted(i, k, TRUE, TRUE)
             [] /\ Family = "rust" /\ w \in {"r", "br", "cr"}
                /\ next \in {"\"", "#"} -> RustRaw(i, k)
             [] /\ Family = "python" /\ w \in RawPrefixes \cup FmtPrefixes \cup {"b", "u"}
                /\ next \in {"\"", "'"} ->
                  Python(i, k, w \in RawPrefixes, w \in FmtPrefixes)
             [] OTHER -> NoToken(i)

-----------------------------------------------------------------------------
(* code: one round of its loop *)

Ch == CharAt(at)

\* A format specifier or a conversion begins.
FormatStops ==
  /\ Top.fmtStop /\ Top.depth = 0
  /\ \/ Ch = ":" /\ CharAt(at + 1) # ":" /\ CharAt(at - 1) # ":"
     \/ Ch = "!" /\ Family = "python" /\ CharAt(at + 1) # "="

\* Mutant: a bracket of the code closes the hole.
CodeReturnsInside ==
  \/ at = Eof
  \/ Ch = Top.closer
  \/ FormatStops
  \/ Family = "php" /\ At(at, <<"?", ">">>)

CodeReturns ==
  \/ at = Eof
  \/ Ch = Top.closer /\ Top.depth = 0
  \/ FormatStops
  \/ Family = "php" /\ At(at, <<"?", ">">>)

InCode == stack # << >> /\ Top.fn = "code" /\ ~CodeReturns

Blank ==
  /\ InCode /\ Ch \in Spaces
  /\ at' = at + 1
  /\ UNCHANGED <<input, stack, masked, regexOK>>

\* After the ")" of if (...) and the like a statement starts.
OpenBracket ==
  /\ InCode /\ Ch \in {"(", "[", "{"}
  /\ at' = at + 1
  /\ stack' = WithTop([Top EXCEPT
                !.depth = @ + 1,
                !.conds = IF Ch = "("
                          THEN Append(@, Top.word \in {"if", "while", "for", "with"})
                          ELSE @,
                !.word = NoSymbol])
  /\ regexOK' = TRUE
  /\ UNCHANGED <<input, masked>>

CloseBracket ==
  LET pops == Ch = ")" /\ Top.conds # << >>
      last == Len(Top.conds)
  IN  /\ InCode /\ Ch \in {")", "]", "}"}
      /\ at' = at + 1
      /\ stack' = WithTop([Top EXCEPT
                    !.depth = IF @ > 0 THEN @ - 1 ELSE 0,
                    !.conds = IF pops THEN SubSeq(@, 1, last - 1) ELSE @,
                    !.word = NoSymbol])
      /\ regexOK' = (Ch = "}" \/ (pops /\ Top.conds[last]))
      /\ UNCHANGED <<input, masked>>

\* The scan goes over t, in the code frame f.
Take(t, f) ==
  /\ at' = t.to
  /\ masked' = masked \cup CASE t.is = "comment" -> Blanked(t.from, t.to)
                             [] t.is = "text" -> Lit(t.from, t.to)
                             [] OTHER -> {}
  /\ stack' = WithTop(f) \o IF t.is = "open" THEN t.frames ELSE << >>
  /\ regexOK' = (t.is = "open" /\ regexOK)
  /\ UNCHANGED input

NameStart(c) == IsIdentStart(c) \/ (c = "$" /\ Family = "JS")

NameEnd(i) == First(i, LAMBDA k :
  ~(IsIdentByte(src[k]) \/ (src[k] = "$" /\ Family = "JS")))

\* jsRegexKeyword
JSRegexKeyword(w) ==
  w \in {"return", "typeof", "instanceof", "in", "of", "new", "delete", "void",
         "throw", "case", "do", "else", "yield", "await"}

\* The word of several symbols is some other name.
Name ==
  LET k == NameEnd(at)
      w == IF k = at + 1 THEN Ch ELSE "name"
      t == Prefixed(at, k)
  IN  /\ InCode /\ NameStart(Ch)
      /\ \/ t.to > at /\ Take(t, Top)
         \/ /\ t.to = at
            /\ at' = k
            /\ stack' = WithTop([Top EXCEPT !.word = w])
            /\ regexOK' = IF Family = "JS" THEN JSRegexKeyword(w) ELSE regexOK
            /\ UNCHANGED <<input, masked>>

NoWord == [Top EXCEPT !.word = NoSymbol]

Numeral == InCode /\ Ch \in Digit /\ Take(Number(at), NoWord)

Lexes(c) == c \notin Spaces \cup Digit \cup {"(", "[", "{", ")", "]", "}"} /\ ~NameStart(c)

Lexeme ==
  /\ InCode /\ Lexes(Ch) /\ Token(at).to > at
  /\ Take(Token(at), NoWord)

\* jsRegexAfter
JSRegexAfter(c) ==
  c \in {",", "=", ":", "!", "&", "|", "?", ";", "+", "-", "*", "%", ">", "~", "^"}

\* x! is a non-null assertion: the value of an expression.
Punctuation ==
  LET before == CharAt(at - 1)
      nonNull == Ch = "!" /\ (IsIdentByte(before) \/ before \in {")", "]"})
  IN  /\ InCode /\ Lexes(Ch) /\ Token(at).to = at
      /\ at' = at + 1
      /\ stack' = WithTop(NoWord)
      /\ regexOK' = IF Family = "JS" THEN JSRegexAfter(Ch) /\ ~nonNull ELSE regexOK
      /\ UNCHANGED <<input, masked>>

-----------------------------------------------------------------------------
(* code: its return to each kind of caller *)

CodeEnds == stack # << >> /\ Top.fn = "code" /\ CodeReturns
Caller == IF Len(stack) > 1 THEN stack[Len(stack) - 1] ELSE [fn |-> "run"]

\* The caller goes on at k, where its next stretch of text starts.
ResumeAt(k) == /\ at' = k
               /\ stack' = [Below EXCEPT ![Len(stack) - 1].seg = k]
               /\ UNCHANGED input

Finish ==
  /\ CodeEnds /\ Caller.fn = "run" /\ at = Eof
  /\ stack' = << >>
  /\ UNCHANGED <<input, at, masked, regexOK>>

\* PHP's close tag: phpHTML masks up to the next open tag.
CloseTag ==
  LET html == at + 2
  IN  /\ CodeEnds /\ Caller.fn = "run" /\ at < Eof
      /\ at' = AfterOpenTag(html)
      /\ masked' = masked \cup Lit(html, First(html, LAMBDA x : At(x, <<"<", "?">>)))
      /\ stack' = <<CodeFrame(NoSymbol, FALSE)>>
      /\ UNCHANGED <<input, regexOK>>

\* hole
HoleEnds ==
  /\ CodeEnds
  /\ Caller.fn \in {"template", "kotlin", "swift", "php", "heredoc", "jsx", "tag"}
  /\ ResumeAt(IF at < Eof THEN at + 1 ELSE at)
  /\ regexOK' = Top.saved
  /\ UNCHANGED masked

\* After a hole's expression: f over its braces, one or as many as it opened.
HoleClosed(f, k) ==
  LET braces == IF f.fn = "csraw" THEN f.dollars ELSE 1
  IN  First(k, LAMBDA x : src[x] # "}" \/ x = k + braces)

\* fmtHole, and its like in csharpRaw
FmtHoleEnds ==
  LET k == IF Ch = "!" THEN IdentEnd(at + 1) ELSE at
  IN  /\ CodeEnds
      /\ Caller.fn \in {"python", "interp", "csraw", "spec"}
      /\ \/ /\ CharAt(k) = ":"
            /\ at' = k
            /\ stack' = Append(Below, [fn |-> "spec", seg |-> k])
            /\ UNCHANGED input
         \/ CharAt(k) # ":" /\ ResumeAt(HoleClosed(Caller, k))
      /\ UNCHANGED <<masked, regexOK>>

-----------------------------------------------------------------------------
(* What a round of a literal's loop does *)

In(fn) == stack # << >> /\ Top.fn = fn
AtEnd == at >= Eof

\* Mutant: a quote that does not end the literal is never passed.
KeepStill(j) == /\ at' = IF Ch = "\"" THEN at ELSE j
                /\ UNCHANGED <<input, stack, masked, regexOK>>

Keep(j) == /\ at' = j
           /\ UNCHANGED <<input, stack, masked, regexOK>>

\* Mutant: without the bound on the offset.
EndUncapped(j) ==
  /\ at' = j
  /\ masked' = masked \cup Lit(Top.seg, j)
  /\ stack' = Below
  /\ regexOK' = FALSE
  /\ UNCHANGED input

\* The literal ends before j, at the end of the source at the latest.
End(j) ==
  LET to == IF j > Eof THEN Eof ELSE j
  IN  /\ at' = to
      /\ masked' = masked \cup Lit(Top.seg, to)
      /\ stack' = Below
      /\ regexOK' = FALSE
      /\ UNCHANGED input

\* The text before `text` is hidden; a hole's code starts at to.
HoleCode(closer, fmtStop, text, to) ==
  /\ at' = to
  /\ masked' = masked \cup Lit(Top.seg, text)
  /\ stack' = Append(stack, CodeFrame(closer, fmtStop))
  /\ regexOK' = (regexOK \/ Family = "JS")
  /\ UNCHANGED input

Hole(to) == HoleCode("}", FALSE, at, to)
FmtHole(to) == HoleCode("}", TRUE, at, to)

\* A stretch of code without a scan of its own: here to j - 1.
Skip(j) ==
  /\ at' = j
  /\ masked' = masked \cup Lit(Top.seg, at)
  /\ stack' = WithTop([Top EXCEPT !.seg = j])
  /\ UNCHANGED <<input, regexOK>>

-----------------------------------------------------------------------------
(* The loops, one per kind of literal *)

\* jsTemplate
Template ==
  /\ In("template")
  /\ \/ AtEnd /\ End(at)
     \/ Ch = "\\" /\ Keep(at + 2)
     \/ Ch = Backtick /\ End(at + 1)
     \/ At(at, <<"$", "{">>) /\ Hole(at + 2)
     \/ /\ Ch \notin {NoSymbol, "\\", Backtick} /\ ~At(at, <<"$", "{">>)
        /\ Keep(at + 1)

\* kotlinString; an escape counts in a string that is not raw.
KotlinText ==
  LET raw == Top.raw
      closes == IF raw THEN At(at, DQuotes(3)) ELSE Ch = "\""
      endsLine == ~raw /\ Ch = "\n"
      escape == ~raw /\ Ch = "\\"
      name == Ch = "$" /\ (IsIdentStart(CharAt(at + 1)) \/ CharAt(at + 1) = Backtick)
      hole == At(at, <<"$", "{">>)
  IN  /\ In("kotlin")
      /\ \/ AtEnd /\ End(at)
         \/ escape /\ Keep(at + 2)
         \/ /\ closes
            /\ End(IF raw THEN First(at + 3, LAMBDA x : src[x] # "\"") ELSE at + 1)
         \/ endsLine /\ End(at)
         \/ hole /\ Hole(at + 2)
         \/ name /\ Skip(IdentEnd(at + 2))
         \/ /\ Ch # NoSymbol /\ ~escape /\ ~closes /\ ~endsLine /\ ~hole /\ ~name
            /\ Keep(at + 1)

\* The offset after at most n "#" from i on, and whether there were n.
HashesEnd(i, n) == First(i, LAMBDA x : src[x] # "#" \/ x = i + n)

\* swiftString: the hashes of its delimiters are those of its escapes.
SwiftText ==
  LET n == Top.hashes
      esc == HashesEnd(at + 1, n)
      quotes == IF Top.multi THEN 3 ELSE 1
      end == HashesEnd(at + quotes, n)
      closes == At(at, DQuotes(quotes)) /\ end = at + quotes + n
      endsLine == ~Top.multi /\ Ch = "\n"
      escape == Ch = "\\" /\ esc = at + 1 + n
  IN  /\ In("swift")
      /\ \/ AtEnd /\ End(at)
         \/ escape /\ CharAt(esc) = "(" /\ HoleCode(")", FALSE, at, esc + 1)
         \/ escape /\ CharAt(esc) # "(" /\ Keep(esc + 1)
         \/ closes /\ End(end)
         \/ endsLine /\ End(at)
         \/ Ch # NoSymbol /\ ~escape /\ ~closes /\ ~endsLine /\ Keep(at + 1)

\* pyString; \N{NAME} is an escape, and in a raw string only the brace counts.
PythonText ==
  LET fmt == Top.fmt
      named == fmt /\ ~Top.raw /\ At(at + 1, <<"N", "{">>)
      name == First(at, LAMBDA x : src[x] = "}")
      braced == fmt /\ Top.raw /\ CharAt(at + 1) = "{"
      quotes == IF Top.triple THEN 3 ELSE 1
      closes == At(at, [k \in 1 .. quotes |-> Top.quote])
      endsLine == ~Top.triple /\ Ch = "\n"
      brace == fmt /\ Ch = "{"
  IN  /\ In("python")
      /\ \/ AtEnd /\ End(at)
         \/ /\ Ch = "\\"
            /\ Keep(IF braced THEN at + 1
                    ELSE IF named /\ name # Eof THEN name + 1 ELSE at + 2)
         \/ closes /\ End(at + quotes)
         \/ endsLine /\ End(at)
         \/ brace /\ CharAt(at + 1) = "{" /\ Keep(at + 2)
         \/ brace /\ CharAt(at + 1) # "{" /\ FmtHole(at + 1)
         \/ /\ Ch \notin {NoSymbol, "\\"} /\ ~closes /\ ~endsLine /\ ~brace
            /\ Keep(at + 1)

\* phpVar without a hole: the offset after $name, $name->prop, $name[key].
PHPVarEnd ==
  LET j == IdentEnd(at + 2)
      e == First(j + 1, LAMBDA x : src[x] \in {"]", "\n", "\""})
  IN  CASE At(j, <<"-", ">">>) /\ IsIdentStart(CharAt(j + 2)) -> IdentEnd(j + 3)
        [] At(j, <<"?", "-", ">">>) /\ IsIdentStart(CharAt(j + 3)) -> IdentEnd(j + 4)
        [] CharAt(j) = "[" /\ CharAt(e) = "]" -> e + 1
        [] OTHER -> j

PHPVar ==
  \/ At(at, <<"{", "$">>) /\ Hole(at + 1)
  \/ At(at, <<"$", "{">>) /\ Hole(at + 2)
  \/ Ch = "$" /\ IsIdentStart(CharAt(at + 1)) /\ Skip(PHPVarEnd)

StartsPHPVar ==
  \/ At(at, <<"{", "$">>) \/ At(at, <<"$", "{">>)
  \/ Ch = "$" /\ IsIdentStart(CharAt(at + 1))

\* phpInterp
PHPText ==
  /\ In("php")
  /\ \/ AtEnd /\ End(at)
     \/ Ch = "\\" /\ Keep(at + 2)
     \/ Ch = Top.quote /\ End(at + 1)
     \/ PHPVar
     \/ Ch \notin {NoSymbol, "\\", Top.quote} /\ ~StartsPHPVar /\ Keep(at + 1)

\* phpHeredoc: its identifier ends it where a line starts.
Heredoc ==
  LET j == First(at, LAMBDA x : src[x] \notin {" ", "\t"})
      closes == /\ Top.lineStart /\ CharAt(j) = Top.id
                /\ ~IsIdentByte(CharAt(j + 1))
      On(j2, starts) == /\ at' = j2
                        /\ stack' = WithTop([Top EXCEPT !.lineStart = starts])
                        /\ UNCHANGED <<input, masked, regexOK>>
      special == Top.interp /\ (Ch = "\\" \/ StartsPHPVar)
      inLine == ~AtEnd /\ ~Top.lineStart
  IN  /\ In("heredoc")
      /\ \/ AtEnd /\ End(at)
         \/ closes /\ End(j + 1)
         \/ ~AtEnd /\ Top.lineStart /\ ~closes /\ On(at, FALSE)
         \/ inLine /\ Top.interp /\ Ch = "\\" /\ On(at + 2, FALSE)
         \/ inLine /\ Top.interp /\ PHPVar
         \/ inLine /\ ~special /\ On(at + 1, Ch = "\n")

\* csharpInterp
InterpText ==
  LET verbatim == Top.verbatim
      doubled == CharAt(at + 1) = Ch
      closes == Ch = "\"" /\ ~(verbatim /\ doubled)
      endsLine == ~verbatim /\ Ch = "\n"
      opens == Ch = "{" /\ ~doubled
      pair == Ch \in {"{", "}"} \cup (IF verbatim THEN {"\""} ELSE {}) /\ doubled
      escape == ~verbatim /\ Ch = "\\"
  IN  /\ In("interp")
      /\ \/ AtEnd /\ End(at)
         \/ (escape \/ pair) /\ Keep(at + 2)
         \/ closes /\ End(at + 1)
         \/ endsLine /\ End(at)
         \/ opens /\ FmtHole(at + 1)
         \/ /\ Ch # NoSymbol /\ ~escape /\ ~pair /\ ~closes /\ ~endsLine /\ ~opens
            /\ Keep(at + 1)

\* csharpRaw: runs of quotes and braces are taken whole; the last braces of a
\* long run open the hole.
RawText ==
  LET run == First(at, LAMBDA x : src[x] # Ch)
      long == run - at >= Top.quotes
      opens == Ch = "{" /\ Top.dollars > 0 /\ run - at >= Top.dollars
  IN  /\ In("csraw")
      /\ \/ AtEnd /\ End(at)
         \/ Ch = "\"" /\ long /\ End(run)
         \/ Ch = "\"" /\ ~long /\ Keep(run)
         \/ opens /\ HoleCode("}", TRUE, run - Top.dollars, run)
         \/ Ch = "{" /\ ~opens /\ Keep(IF Top.dollars > 0 THEN run ELSE at + 1)
         \/ Ch \notin {NoSymbol, "\"", "{"} /\ Keep(at + 1)

\* fmtSpec: text up to the hole's brace, with holes of its own in Python.
Spec ==
  LET ends == Ch = "}" \/ (Ch = "\n" /\ Family = "csharp")
      opens == Ch = "{" /\ Family = "python"
      below == stack[Len(stack) - 1]
      close == HoleClosed(below, at)
  IN  /\ In("spec")
      /\ \/ /\ AtEnd \/ ends
            /\ at' = close
            /\ masked' = masked \cup Lit(Top.seg, at)
            /\ stack' = [Below EXCEPT ![Len(stack) - 1].seg = close]
            /\ UNCHANGED <<input, regexOK>>
         \/ opens /\ FmtHole(at + 1)
         \/ ~AtEnd /\ ~ends /\ ~opens /\ Keep(at + 1)

\* freeTextLine: nothing is hidden but comments.
FreeLine ==
  LET ends == Ch = "\n" /\ ~(Top.cont /\ CharAt(at - 1) = "\\")
      comment == LineComment(at, Top.cont)
      block == BlockComment(at, FALSE)
      isLine == At(at, <<"/", "/">>)
      isBlock == At(at, <<"/", "*">>)
      Leave == stack' = Below /\ regexOK' = FALSE /\ UNCHANGED input
  IN  /\ In("free")
      /\ \/ (AtEnd \/ ends) /\ Leave /\ UNCHANGED <<at, masked>>
         \/ /\ isLine /\ Leave
            /\ at' = comment.to /\ masked' = masked \cup Blanked(at, comment.to)
         \/ /\ isBlock
            /\ at' = block.to /\ masked' = masked \cup Blanked(at, block.to)
            /\ UNCHANGED <<input, stack, regexOK>>
         \/ ~AtEnd /\ ~ends /\ ~isLine /\ ~isBlock /\ Keep(at + 1)

-----------------------------------------------------------------------------
(* JSX *)

\* jsxTag, which tells jsxElement whether the tag closed itself.
TagEnds(to, self) ==
  LET f == stack[Len(stack) - 1]
      done == self /\ f.depth = 0
      nested == [f EXCEPT !.seg = to, !.depth = IF self THEN @ ELSE @ + 1]
  IN  /\ at' = to
      /\ stack' = SubSeq(stack, 1, Len(stack) - 2)
                    \o IF done THEN << >> ELSE <<nested>>
      /\ regexOK' = (~done /\ regexOK)
      /\ UNCHANGED <<input, masked>>

Tag ==
  LET value == Quoted(at, at, FALSE, TRUE)
  IN  /\ In("tag")
      /\ \/ AtEnd /\ TagEnds(Eof, FALSE)
         \/ /\ Ch \in {"\"", "'"}
            /\ at' = value.to /\ masked' = masked \cup Lit(at, value.to)
            /\ UNCHANGED <<input, stack, regexOK>>
         \/ Ch = "{" /\ HoleCode("}", FALSE, Top.seg, at + 1)
         \/ At(at, <<"/", ">">>) /\ TagEnds(at + 2, TRUE)
         \/ Ch = ">" /\ TagEnds(at + 1, FALSE)
         \/ /\ Ch \notin {NoSymbol, "\"", "'", "{", ">"} /\ ~At(at, <<"/", ">">>)
            /\ Keep(at + 1)

\* jsxElement: the children of an element, and its nested elements.
Element ==
  LET closing == At(at, <<"<", "/">>)
      close == First(at, LAMBDA x : src[x] = ">")
      opening == Ch = "<" /\ ~closing /\ JSXTagStart(at)
      hidden1 == masked \cup Lit(Top.seg, at)
  IN  /\ In("jsx")
      /\ \/ AtEnd /\ End(at)
         \/ Ch = "{" /\ Hole(at + 1)
         \/ /\ closing
            /\ at' = IF close = Eof THEN Eof ELSE close + 1
            /\ masked' = hidden1
            /\ IF close = Eof \/ Top.depth = 1
               THEN stack' = Below /\ regexOK' = FALSE
               ELSE /\ stack' = WithTop([Top EXCEPT !.seg = close + 1,
                                                    !.depth = @ - 1])
                    /\ UNCHANGED regexOK
            /\ UNCHANGED input
         \/ /\ opening
            /\ at' = at + 1 /\ masked' = hidden1
            /\ stack' = Append(stack, [fn |-> "tag", seg |-> at])
            /\ UNCHANGED <<input, regexOK>>
         \/ Ch \notin {NoSymbol, "{"} /\ ~closing /\ ~opening /\ Keep(at + 1)

-----------------------------------------------------------------------------
Round == \/ Blank \/ OpenBracket \/ CloseBracket \/ Name \/ Numeral
         \/ Lexeme \/ Punctuation

Return == Finish \/ CloseTag \/ HoleEnds \/ FmtHoleEnds

Literal == \/ Template \/ KotlinText \/ SwiftText \/ PythonText \/ PHPText
           \/ Heredoc \/ InterpText \/ RawText \/ Spec \/ FreeLine \/ Tag
           \/ Element

Next == Round \/ Return \/ Literal

\* The scan is one call of one goroutine: it goes on until it returns.
Masking == Init /\ [][Next]_vars /\ WF_vars(Next)

-----------------------------------------------------------------------------
(* Properties *)

Done == stack = << >>

\* The scanner stays within the source: code resumes at an offset it can read,
\* so that no index or slice of the Go code is out of range, whatever literal or
\* hole the source breaks off in.  Only an escape at the very end takes a
\* literal's own scan one offset further.
TypeOK ==
  /\ at \in 1 .. Len(src) + 2
  /\ Done \/ Top.fn = "code" => at <= Eof
  /\ regexOK \in BOOLEAN
  /\ \A k \in 1 .. Len(stack) : stack[k].fn = "code" => stack[k].depth \in Nat

\* What is masked is comment or literal text: of no source, however literals
\* nest in the holes of literals, is a symbol of the code lost, at any time.
KeepsCode == whole => masked \subseteq hidden

\* When the scan is over, all comment and literal text is masked (the comments
\* only, when strings are kept): no quote, mark or brace in it, and no state a
\* finished hole leaves behind, made the scanner take text for code.
HidesText == Done /\ whole => hidden \subseteq masked

\* Every scan, of a source cut short anywhere too, reaches the end of the source
\* and returns: no literal's loop stays where it is.
Terminates == <>(Done /\ at = Eof)
=============================================================================
