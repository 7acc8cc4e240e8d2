----------------------------- MODULE MaskTokens -----------------------------
(***************************************************************************)
(* The comments and literals of textmask (textmask/textmask.go) that the   *)
(* scanner takes in one go: where each starts, and where it ends.          *)
(*                                                                         *)
(* A source is a sequence of symbols.  A symbol is one character or one    *)
(* whole word (identifier, keyword or string prefix), since the scanner    *)
(* never looks inside a word but to compare it.  Offsets count symbols and *)
(* start at 1.  CR LF line ends are left out: a line ends with "\n".       *)
(*                                                                         *)
(* The scans are folds of small next-offset rules over the offsets; each   *)
(* is a function of the offset, and stands for one `for k < n` loop.       *)
(***************************************************************************)
EXTENDS Integers, Sequences

CONSTANTS Word,    \* identifiers, keywords and prefixes
          Digit    \* digits

VARIABLES lang,    \* the language key
          src      \* the source text

Backtick == "backtick"
Spaces == {" ", "\t", "\n"}

Family ==
  CASE lang \in {"c", "cpp", "objc"} -> "C"
    [] lang \in {"javascript", "jsx", "typescript", "tsx"} -> "JS"
    [] OTHER -> lang

Offset == Nat \ {0}

\* The offset after the source.
Eof == Len(src) + 1

\* byteAt, with no symbol outside the source.
NoSymbol == ""
CharAt(i) == IF i \in 1 .. Len(src) THEN src[i] ELSE NoSymbol

\* at: the source has the symbols s at offset i.
At(i, s) == \A k \in 1 .. Len(s) : CharAt(i + k - 1) = s[k]

\* The first of a set of offsets, the end of the source if it is empty.
FirstOf[offsets \in SUBSET (1 .. Len(src))] ==
  IF offsets = {} THEN Eof ELSE CHOOSE k \in offsets : \A j \in offsets : k <= j

\* The first offset from i on where P holds.
First(i, P(_)) == FirstOf[{k \in i .. Len(src) : P(k)}]

IsIdentByte(c) == c \in Word \cup Digit
IsIdentStart(c) == c \in Word

Eol(i) == First(i, LAMBDA k : src[k] = "\n")

IdentEnd(i) == First(i, LAMBDA k : ~IsIdentByte(src[k]))

\* prevByte: the last symbol before i that is not blank.
PrevByte(i) ==
  IF \E k \in 1 .. i - 1 : src[k] \notin Spaces
  THEN src[CHOOSE k \in 1 .. i - 1 :
             /\ src[k] \notin Spaces
             /\ \A j \in k + 1 .. i - 1 : src[j] \in Spaces]
  ELSE NoSymbol

AtLineStart(i) ==
  \E k \in 1 .. i :
    /\ k = 1 \/ src[k - 1] = "\n"
    /\ \A j \in k .. i - 1 : src[j] \in {" ", "\t"}

\* The end of a scan from i, whose loop goes from k to next[k] and ends when
\* it has done so at one of the offsets `last`.
ScanEnd(i, last, next) ==
  LET end[k \in Offset] ==
        IF k > Len(src) THEN Eof ELSE IF k \in last THEN next[k] ELSE end[next[k]]
  IN  end[i]

-----------------------------------------------------------------------------
(* What the scanner finds at an offset: from .. to - 1 is a comment or the *)
(* text of a literal, or code that hides nothing; to = i is no token.      *)

Comment(i, j) == [is |-> "comment", from |-> i, to |-> j]
Text(i, j) == [is |-> "text", from |-> i, to |-> j]
Code(i, j) == [is |-> "code", from |-> i, to |-> j]
NoToken(i) == Code(i, i)

\* With cont, a backslash at the line's end continues the comment.
LineComment(i, cont) ==
  Comment(i, First(i, LAMBDA k :
    src[k] = "\n" /\ ~(cont /\ k > i /\ src[k - 1] = "\\")))

\* Mutant: an inner comment's end is the end.
BlockCommentFlat(i, nested) ==
  LET closes == {k \in 1 .. Len(src) : At(k, <<"*", "/">>)}
  IN  Comment(i, ScanEnd(i + 2, closes,
                   [k \in 1 .. Len(src) |-> IF k \in closes THEN k + 2 ELSE k + 1]))

BlockComment(i, nested) ==
  LET end[x \in Offset \X (Nat \ {0})] ==
        LET k == x[1]
            depth == x[2]
        IN
        IF k > Len(src) THEN Eof
        ELSE IF At(k, <<"*", "/">>)
             THEN IF depth = 1 THEN k + 2 ELSE end[<<k + 2, depth - 1>>]
        ELSE IF nested /\ At(k, <<"/", "*">>) THEN end[<<k + 2, depth + 1>>]
        ELSE end[<<k + 1, depth>>]
  IN  Comment(i, end[<<i + 2, 1>>])

\* A literal from its opening quote at i; a newline ends it unless multiline.
Quoted(from, i, esc, multiline) ==
  LET escapes == {k \in 1 .. Len(src) : src[k] = "\\" /\ esc}
      closes == {k \in 1 .. Len(src) : src[k] = src[i]} \ escapes
      breaks == {k \in 1 .. Len(src) : src[k] = "\n" /\ ~multiline} \ closes
  IN  Text(from, ScanEnd(i + 1, closes \cup breaks,
        [k \in 1 .. Len(src) |-> IF k \in escapes THEN k + 2
                                 ELSE IF k \in breaks THEN k ELSE k + 1]))

\* A doubled quote is a quote of the text.
Doubled(from, i, oneLine) ==
  LET quotes == {k \in 1 .. Len(src) : src[k] = src[i]}
      closes == {k \in quotes : CharAt(k + 1) # src[i]}
      breaks == {k \in 1 .. Len(src) : src[k] = "\n" /\ oneLine} \ quotes
  IN  Text(from, ScanEnd(i + 1, closes \cup breaks,
        [k \in 1 .. Len(src) |-> IF k \in quotes \ closes THEN k + 2
                                 ELSE IF k \in breaks THEN k ELSE k + 1]))

Number(i) ==
  Code(i, First(i + 1, LAMBDA k :
    ~(\/ IsIdentByte(src[k]) \/ src[k] = "."
      \/ src[k] \in {"+", "-"} /\ src[k - 1] \in {"e", "E", "p", "P"}
      \/ src[k] = "'" /\ Family = "C" /\ IsIdentByte(CharAt(k + 1)))))

\* `a name`: code in Kotlin and Swift, when it closes on its line.
BacktickName(i) ==
  LET k == First(i + 1, LAMBDA x : src[x] \in {Backtick, "\n"})
  IN  Code(i, IF CharAt(k) = Backtick THEN k + 1 ELSE i + 1)

DQuotes(m) == [k \in 1 .. m |-> "\""]

\* """...""" with escapes.
JavaTextBlock(i) ==
  LET closes == {k \in 1 .. Len(src) : At(k, DQuotes(3))}
  IN  Text(i, ScanEnd(i + 3, closes,
        [k \in 1 .. Len(src) |-> IF k \in closes THEN k + 3
                                 ELSE IF src[k] = "\\" THEN k + 2 ELSE k + 1]))

\* The end of text from i on that ends with the symbols `close`.
ClosedBy(i, close) ==
  LET closes == {k \in 1 .. Len(src) : At(k, close)}
  IN  ScanEnd(i, closes,
        [k \in 1 .. Len(src) |-> IF k \in closes THEN k + Len(close) ELSE k + 1])

\* R"delim( ... )delim", from its quote at q; no token when it is not one.
\* The delimiter has at most 16 characters, which no source here exceeds.
CppRaw(from, q) ==
  LET open == First(q + 1, LAMBDA k :
                src[k] \in {"(", " ", ")", "\\", "\t", "\n", "\""})
      close == <<")">> \o SubSeq(src, q + 1, open - 1) \o <<"\"">>
  IN  IF CharAt(open) # "(" THEN NoToken(from)
      ELSE Text(from, ClosedBy(open + 1, close))

\* A char literal, or the tick of a lifetime or label, which is code.
RustQuote(i) ==
  IF CharAt(i + 1) = "\\" THEN Quoted(i, i, TRUE, FALSE)
  ELSE IF i + 2 <= Len(src) /\ src[i + 2] = "'" THEN Text(i, i + 3)
  ELSE Code(i, i + 1)

\* r"...", r#"..."#, from the prefix's end at k; r#name is not a string.
RustRaw(from, k) ==
  LET q == First(k, LAMBDA x : src[x] # "#")
      close == DQuotes(1) \o [h \in 1 .. q - k |-> "#"]
  IN  IF CharAt(q) # "\"" THEN NoToken(from)
      ELSE Text(from, ClosedBy(q + 1, close))

\* A regex literal with its flags, or a division when the line ends first.
JSRegex(i) ==
  LET end[x \in Offset \X {"class", "regex"}] ==
        LET k == x[1]
            within == x[2]
            inClass == src[k] = "[" \/ (within = "class" /\ src[k] # "]")
        IN
        IF k > Len(src) THEN i
        ELSE CASE src[k] = "\\" -> end[<<k + 2, within>>]
               [] src[k] = "\n" -> i
               [] src[k] = "/" /\ within = "regex" -> IdentEnd(k + 1)
               [] OTHER -> end[<<k + 1, IF inClass THEN "class" ELSE "regex">>]
  IN  Text(i, end[<<i + 1, "regex">>])

\* PHP: a line comment ends before a close tag.
PHPLineComment(i) ==
  Comment(i, First(i, LAMBDA k : src[k] = "\n" \/ At(k, <<"?", ">">>)))

\* The word of a directive line at i ("#" is at i), and the offset after it.
DirectiveWord(i) ==
  LET k == First(i + 1, LAMBDA x : src[x] \notin {" ", "\t"})
  IN  [name |-> IF IdentEnd(k) = k + 1 THEN CharAt(k) ELSE NoSymbol,
       after |-> IdentEnd(k)]
=============================================================================
