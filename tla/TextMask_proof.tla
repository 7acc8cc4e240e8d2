--------------------------- MODULE TextMask_proof ---------------------------
(***************************************************************************)
(* The scanner stays within the source, for every source in every language *)
(* (TypeOK).  What needs a proof is that no scan that starts in the source *)
(* ends outside of it, also where a literal is cut off, and that code is   *)
(* resumed by those of its callers only that know where it may be.         *)
(***************************************************************************)
EXTENDS TextMask, SyntaxTree_proof, SequenceTheorems

\* The sources that are scanned.
Scannable == lang \in Languages /\ src \in Seq(STRING)

\* The local variables of a call that the proofs rely on.
IsFrame(f) ==
  /\ "fn" \in DOMAIN f
  /\ f.fn = "code" => /\ {"depth", "saved"} \subseteq DOMAIN f
                      /\ f.depth \in Nat /\ f.saved \in BOOLEAN

\* A tag is read for the element that it belongs to.
IsStack(s) ==
  /\ \E S : s \in Seq(S)
  /\ \A k \in 1 .. Len(s) :
       IsFrame(s[k]) /\ (s[k].fn = "tag" => k > 1 /\ s[k - 1].fn = "jsx")

\* Where the scan may be: the code that goes on reads from it, a literal's own
\* loop may have passed the end by one.
Placed(s, k) ==
  /\ IsStack(s)
  /\ k \in 1 .. Len(src) + 2
  /\ s = << >> \/ s[Len(s)].fn \in {"code", "free"} => k <= Eof

IInv == Scannable /\ Placed(stack, at) /\ regexOK \in BOOLEAN

-----------------------------------------------------------------------------
(* Offsets *)

LEMMA SourceIs == Scannable => Len(src) \in Nat /\ Eof = Len(src) + 1
  BY DEF Scannable, Eof

\* The end of the source is the first offset of no other.
LEMMA FirstOfIs ==
  ASSUME Scannable, NEW S, S \subseteq 1 .. Len(src)
  PROVE  /\ FirstOf[S] \in 1 .. Eof
         /\ FirstOf[S] \in S \/ FirstOf[S] = Eof
<1>1. Len(src) \in Nat /\ Eof = Len(src) + 1 /\ Eof \in 1 .. Eof
  BY SourceIs
<1>2. CASE S = {}
  <2>1. FirstOf[S] = Eof
    BY <1>2 DEF FirstOf
  <2>2. FirstOf[S] \in 1 .. Eof
    BY <2>1, <1>1
  <2>. QED
    BY <2>1, <2>2, Zenon
<1>3. CASE S # {}
  <2>1. S \subseteq Nat
    BY <1>1
  <2>2. \E x \in S : \A y \in S : x <= y
    BY <2>1, <1>3, LeastNat
  <2>3. FirstOf[S] \in S
    BY <2>2, <1>3 DEF FirstOf
  <2>4. FirstOf[S] \in 1 .. Len(src)
    BY <2>3
  <2>5. FirstOf[S] \in 1 .. Eof
    BY <2>4, <1>1
  <2>. QED
    BY <2>3, <2>5
<1>. QED
  BY <1>2, <1>3

\* Every symbol is one.
LEMMA Marks ==
  \A c \in {"\"", "'", "\\", "\n", "{", "}", "(", ")", "/", "*", "<", ">", "?", "$", "@", "#",
            "=", ":", "!", "[", "]", "-", "N", "php", Backtick} : c # NoSymbol
  BY Zenon DEF NoSymbol, Backtick

\* A symbol is found in the source only.
LEMMA CharIn ==
  ASSUME NEW i, CharAt(i) # NoSymbol
  PROVE  i \in 1 .. Len(src) /\ CharAt(i) = src[i]
  BY DEF CharAt

LEMMA AtOne ==
  ASSUME NEW i \in Int, NEW s, NEW k \in 1 .. Len(s), Len(s) \in Nat, At(i, s), s[k] # NoSymbol
  PROVE  i + k - 1 \in 1 .. Len(src)
<1>1. CharAt(i + k - 1) = s[k]
  BY DEF At
<1>. QED
  BY <1>1, CharIn

LEMMA AtTwo ==
  ASSUME Scannable, NEW i \in Nat \ {0}, NEW x, NEW y, At(i, <<x, y>>), y # NoSymbol
  PROVE  i + 2 \in 1 .. Eof
<1>1. i + 2 - 1 \in 1 .. Len(src)
  BY AtOne
<1>. QED
  BY <1>1, SourceIs

LEMMA AtThree ==
  ASSUME Scannable, NEW i \in Nat \ {0}, NEW x, NEW y, NEW z, At(i, <<x, y, z>>), z # NoSymbol
  PROVE  i + 3 \in 1 .. Eof
<1>1. i + 3 - 1 \in 1 .. Len(src)
  BY AtOne
<1>. QED
  BY <1>1, SourceIs

LEMMA QuotesAre == Len(DQuotes(3)) = 3 /\ DQuotes(3)[3] = "\""
  BY DEF DQuotes

LEMMA AtQuotes ==
  ASSUME Scannable, NEW i \in Nat \ {0}, At(i, DQuotes(3))
  PROVE  i + 3 \in 1 .. Eof
<1>1. Len(DQuotes(3)) = 3 /\ DQuotes(3)[3] # NoSymbol
  BY QuotesAre, Marks
<1>2. 3 \in 1 .. Len(DQuotes(3)) /\ Len(DQuotes(3)) \in Nat /\ i \in Int
  BY <1>1
<1>3. i + 3 - 1 \in 1 .. Len(src)
  BY <1>1, <1>2, AtOne, Zenon
<1>. QED
  BY <1>3, SourceIs

\* What follows a symbol is in the source or its end.
LEMMA AfterChar ==
  ASSUME Scannable, NEW i, CharAt(i) # NoSymbol
  PROVE  i \in 1 .. Len(src) /\ i + 1 \in 1 .. Eof
  BY CharIn, SourceIs

LEMMA IdentEndIs ==
  ASSUME Scannable, NEW i \in Nat \ {0}
  PROVE  IdentEnd(i) \in 1 .. Eof
  BY FirstOfIs, SourceIs DEF IdentEnd, First

-----------------------------------------------------------------------------
(* Recursive functions.  A loop over D that moves to a higher rank until   *)
(* it ends, which it does above rank n, is a function, and one only.       *)

LoopBody(last, value, next, f, x) == IF x \in last THEN value[x] ELSE f[next[x]]

IsLoop(D, V, n, rank, last, value, next) ==
  /\ n \in Nat /\ rank \in [D -> Nat] /\ V # {}
  /\ \A x \in D \cap last : value[x] \in V
  /\ \A x \in D \ last : next[x] \in D /\ rank[next[x]] > rank[x] /\ rank[x] <= n

LEMMA LoopExists ==
  ASSUME NEW D, NEW V, NEW n, NEW rank, NEW last, NEW value, NEW next,
         IsLoop(D, V, n, rank, last, value, next)
  PROVE  \E f \in [D -> V] : \A x \in D : f[x] = LoopBody(last, value, next, f, x)
<1> DEFINE Sound(f, m) == \A x \in D : rank[x] + m > n => f[x] = LoopBody(last, value, next, f, x)
           P(m) == \E f \in [D -> V] : Sound(f, m)
           Bad == {m \in Nat : ~P(m)}
<1>. /\ n \in Nat /\ rank \in [D -> Nat] /\ V # {}
     /\ \A x \in D \cap last : value[x] \in V
     /\ \A x \in D \ last : next[x] \in D /\ rank[next[x]] > rank[x] /\ rank[x] <= n
  BY DEF IsLoop
<1>1. P(0)
  <2> PICK v \in V : TRUE
    OBVIOUS
  <2> DEFINE f == [x \in D |-> IF x \in last THEN value[x] ELSE v]
  <2>1. f \in [D -> V]
    OBVIOUS
  <2>2. ASSUME NEW x \in D, rank[x] + 0 > n
        PROVE  f[x] = LoopBody(last, value, next, f, x)
    <3>1. x \in last
      BY <2>2
    <3>. QED
      BY <3>1 DEF LoopBody
  <2>. QED
    BY <2>1, <2>2
<1>2. ASSUME NEW m \in Nat, P(m)
      PROVE  P(m + 1)
  <2>1. PICK f \in [D -> V] : Sound(f, m)
    BY <1>2
  <2> DEFINE g == [x \in D |-> LoopBody(last, value, next, f, x)]
  <2>2. g \in [D -> V]
    BY DEF LoopBody
  <2>3. ASSUME NEW x \in D, rank[x] + (m + 1) > n
        PROVE  g[x] = LoopBody(last, value, next, g, x)
    <3>1. CASE x \in last
      BY <3>1 DEF LoopBody
    <3>2. CASE x \notin last
      <4>1. next[x] \in D /\ rank[next[x]] > rank[x] /\ rank[x] \in Nat /\ rank[next[x]] \in Nat
        BY <3>2
      <4>2. rank[next[x]] + m > n
        BY <4>1, <2>3
      <4>3. f[next[x]] = LoopBody(last, value, next, f, next[x])
        BY <4>1, <4>2, <2>1
      <4>4. g[next[x]] = f[next[x]]
        BY <4>1, <4>3
      <4>5. g[x] = f[next[x]] /\ LoopBody(last, value, next, g, x) = g[next[x]]
        BY <3>2 DEF LoopBody
      <4>. QED
        BY <4>4, <4>5
    <3>. QED
      BY <3>1, <3>2
  <2>. QED
    BY <2>2, <2>3
<1>3. Bad = {}
  <2> SUFFICES ASSUME Bad # {}
               PROVE  FALSE
    OBVIOUS
  <2>1. PICK m \in Bad : \A k \in Bad : m <= k
    BY LeastNat
  <2>2. m # 0
    BY <1>1
  <2>3. m - 1 \in Nat /\ m - 1 \notin Bad /\ (m - 1) + 1 = m
    BY <2>1, <2>2
  <2>4. P(m - 1)
    BY <2>3
  <2>5. P((m - 1) + 1)
    BY <2>3, <2>4, <1>2
  <2>. QED
    BY <2>3, <2>5, <2>1
<1>4. P(n + 1)
  <2> HIDE DEF P
  <2>1. n + 1 \in Nat
    OBVIOUS
  <2>. QED
    BY <2>1, <1>3
<1>5. PICK f \in [D -> V] : Sound(f, n + 1)
  BY <1>4
<1>6. \A x \in D : rank[x] + (n + 1) > n
  OBVIOUS
<1>. QED
  BY <1>5, <1>6

LEMMA LoopRange ==
  ASSUME NEW D, NEW V, NEW n, NEW rank, NEW last, NEW value, NEW next,
         IsLoop(D, V, n, rank, last, value, next),
         NEW f, \A x \in D : f[x] = LoopBody(last, value, next, f, x)
  PROVE  \A x \in D : f[x] \in V
<1> DEFINE Bad == {m \in Nat : \E x \in D : rank[x] + m = n /\ f[x] \notin V}
<1>. /\ n \in Nat /\ rank \in [D -> Nat] /\ V # {}
     /\ \A x \in D \cap last : value[x] \in V
     /\ \A x \in D \ last : next[x] \in D /\ rank[next[x]] > rank[x] /\ rank[x] <= n
  BY DEF IsLoop
<1>1. ASSUME NEW x \in D, f[x] \notin V
      PROVE  x \notin last /\ rank[x] <= n /\ n - rank[x] \in Bad
  <2>1. x \notin last
    BY <1>1 DEF LoopBody
  <2>2. rank[x] <= n /\ rank[x] \in Nat
    BY <2>1
  <2>3. n - rank[x] \in Nat /\ rank[x] + (n - rank[x]) = n
    BY <2>2
  <2>. QED
    BY <2>1, <2>2, <2>3, <1>1
<1> SUFFICES ASSUME NEW y \in D, f[y] \notin V
             PROVE  FALSE
  OBVIOUS
<1>2. Bad # {} /\ Bad \subseteq Nat
  BY <1>1
<1>3. PICK m \in Bad : \A k \in Bad : m <= k
  BY <1>2, LeastNat
<1>4. PICK x \in D : rank[x] + m = n /\ f[x] \notin V
  BY <1>3
<1>5. next[x] \in D /\ rank[next[x]] > rank[x] /\ f[x] = f[next[x]]
  BY <1>1, <1>4 DEF LoopBody
<1>6. n - rank[next[x]] \in Bad
  BY <1>1, <1>4, <1>5
<1>. QED
  BY <1>3, <1>4, <1>5, <1>6

-----------------------------------------------------------------------------
(* The scans *)

LEMMA ScanEndIs ==
  ASSUME Scannable, NEW last, last \subseteq 1 .. Len(src),
         NEW next, \A k \in last : next[k] \in 1 .. Eof,
         \A k \in (1 .. Len(src)) \ last : next[k] \in Nat /\ next[k] > k,
         NEW i \in Offset
  PROVE  ScanEnd(i, last, next) \in 1 .. Eof
<1> DEFINE n == Len(src)
           V == 1 .. Eof
           rank == [k \in Offset |-> k]
           ends == {k \in Offset : k > n} \cup last
           value == [k \in Offset |-> IF k > n THEN Eof ELSE next[k]]
           IsEnd(f) == f = [k \in Offset |-> IF k > n THEN Eof
                                             ELSE IF k \in last THEN next[k] ELSE f[next[k]]]
           end == CHOOSE f : IsEnd(f)
<1>1. n \in Nat /\ Eof = n + 1 /\ Eof \in V
  BY SourceIs
<1>2. \A k \in Offset \cap ends : value[k] \in V
  BY <1>1
<1>3. \A k \in Offset \ ends : next[k] \in Offset /\ rank[next[k]] > rank[k] /\ rank[k] <= n
  BY <1>1 DEF Offset
<1>4. IsLoop(Offset, V, n, rank, ends, value, next)
  <2>1. V # {} /\ rank \in [Offset -> Nat]
    BY <1>1 DEF Offset
  <2>. QED
    BY <1>1, <1>2, <1>3, <2>1 DEF IsLoop
<1>5. \A f : \A k \in Offset :
        LoopBody(ends, value, next, f, k)
          = IF k > n THEN Eof ELSE IF k \in last THEN next[k] ELSE f[next[k]]
  BY <1>1 DEF LoopBody
<1> HIDE DEF ends, value, rank, V, n
<1>6. PICK g \in [Offset -> V] : \A k \in Offset : g[k] = LoopBody(ends, value, next, g, k)
  BY <1>4, LoopExists
<1>7. IsEnd(g)
  BY <1>5, <1>6
<1>8. IsEnd(end)
  BY <1>7, Zenon
<1> HIDE DEF end
<1>9. \A k \in Offset : end[k] = LoopBody(ends, value, next, end, k)
  BY <1>8, <1>5
<1>10. end[i] \in V
  BY <1>4, <1>9, LoopRange
<1>11. ScanEnd(i, last, next) = end[i]
  BY DEF ScanEnd, end, n
<1>. QED
  BY <1>10, <1>11 DEF V

\* The scanner's answers.
LEMMA Pieces ==
  \A i, j : /\ Comment(i, j).is = "comment" /\ Comment(i, j).to = j
            /\ Text(i, j).is = "text" /\ Text(i, j).to = j
            /\ Code(i, j).is = "code" /\ Code(i, j).to = j
            /\ NoToken(i).is = "code" /\ NoToken(i).to = i
  BY DEF Comment, Text, Code, NoToken

LEMMA BlockCommentIs ==
  ASSUME Scannable, NEW i \in Offset, NEW nested \in BOOLEAN
  PROVE  BlockComment(i, nested).is = "comment" /\ BlockComment(i, nested).to \in 1 .. Eof
<1> DEFINE n == Len(src)
           D == Offset \X (Nat \ {0})
           V == 1 .. Eof
           Closes(k) == At(k, <<"*", "/">>)
           Opens(k) == nested /\ At(k, <<"/", "*">>)
           rank == [x \in D |-> x[1]]
           ends == {x \in D : x[1] > n \/ (Closes(x[1]) /\ x[2] = 1)}
           value == [x \in D |-> IF x[1] > n THEN Eof ELSE x[1] + 2]
           next == [x \in D |-> IF Closes(x[1]) THEN <<x[1] + 2, x[2] - 1>>
                                ELSE IF Opens(x[1]) THEN <<x[1] + 2, x[2] + 1>>
                                ELSE <<x[1] + 1, x[2]>>]
           IsEnd(f) == f = [x \in D |->
                              IF x[1] > n THEN Eof
                              ELSE IF Closes(x[1]) THEN IF x[2] = 1 THEN x[1] + 2 ELSE f[x[1] + 2, x[2] - 1]
                              ELSE IF Opens(x[1]) THEN f[x[1] + 2, x[2] + 1] ELSE f[x[1] + 1, x[2]]]
           end == CHOOSE f : IsEnd(f)
<1>1. n \in Nat /\ Eof = n + 1 /\ Eof \in 1 .. Eof
  BY SourceIs
<1>2. ASSUME NEW k \in Offset, Closes(k)
      PROVE  k + 2 \in 1 .. Eof
  BY <1>2, AtTwo, Marks DEF Offset
<1> HIDE DEF Closes, Opens, n
<1>3. ASSUME NEW x \in D \cap ends
      PROVE  value[x] \in 1 .. Eof
  <2>1. x[1] > n \/ Closes(x[1])
    OBVIOUS
  <2>2. x[1] \in Offset
    OBVIOUS
  <2>3. value[x] = IF x[1] > n THEN Eof ELSE x[1] + 2
    OBVIOUS
  <2>. QED
    BY <2>1, <2>2, <2>3, <1>1, <1>2
<1>4. ASSUME NEW x \in D \ ends
      PROVE  next[x] \in D /\ rank[next[x]] > rank[x] /\ rank[x] <= n
  <2>1. PICK k \in Offset, d \in Nat \ {0} : x = <<k, d>>
    OBVIOUS
  <2>2. k \in Nat \ {0} /\ ~(k > n) /\ ~(Closes(k) /\ d = 1)
    BY <2>1 DEF Offset
  <2>3. next[x] = IF Closes(k) THEN <<k + 2, d - 1>>
                  ELSE IF Opens(k) THEN <<k + 2, d + 1>> ELSE <<k + 1, d>>
    BY <2>1
  <2>4. next[x] \in D /\ next[x][1] > k
    BY <2>2, <2>3 DEF Offset
  <2>5. rank[next[x]] = next[x][1] /\ rank[x] = k
    BY <2>1, <2>4
  <2>. QED
    BY <2>2, <2>4, <2>5, <1>1
<1>5. IsLoop(D, V, n, rank, ends, value, next)
  <2>1. rank \in [D -> Nat] /\ V # {}
    BY <1>1 DEF Offset
  <2>. QED
    BY <1>1, <1>3, <1>4, <2>1 DEF IsLoop
<1>6. \A f : \A x \in D :
        LoopBody(ends, value, next, f, x)
          = IF x[1] > n THEN Eof
            ELSE IF Closes(x[1]) THEN IF x[2] = 1 THEN x[1] + 2 ELSE f[x[1] + 2, x[2] - 1]
            ELSE IF Opens(x[1]) THEN f[x[1] + 2, x[2] + 1] ELSE f[x[1] + 1, x[2]]
  BY <1>1 DEF LoopBody, Offset
<1>12. BlockComment(i, nested) = Comment(i, end[<<i + 2, 1>>])
  BY DEF BlockComment, n, Closes, Opens
<1>13. <<i + 2, 1>> \in D
  BY DEF Offset
<1> HIDE DEF D, ends, value, rank, next, V
<1>7. PICK g \in [D -> V] : \A x \in D : g[x] = LoopBody(ends, value, next, g, x)
  BY <1>5, LoopExists
<1>8. IsEnd(g)
  BY <1>6, <1>7
<1>9. IsEnd(end)
  BY <1>8, Zenon
<1> HIDE DEF end
<1>10. \A x \in D : end[x] = LoopBody(ends, value, next, end, x)
  BY <1>9, <1>6
<1>11. \A x \in D : end[x] \in V
  BY <1>5, <1>10, LoopRange
<1>14. end[<<i + 2, 1>>] \in 1 .. Eof
  BY <1>11, <1>13 DEF V
<1>15. PICK j \in 1 .. Eof : BlockComment(i, nested) = Comment(i, j)
  BY <1>14, <1>12
<1>16. Comment(i, j).is = "comment" /\ Comment(i, j).to = j
  BY Pieces
<1>. QED
  BY <1>15, <1>16

LEMMA JSRegexIs ==
  ASSUME Scannable, NEW i \in 1 .. Len(src)
  PROVE  JSRegex(i).is = "text" /\ JSRegex(i).to \in 1 .. Eof
<1> DEFINE n == Len(src)
           D == Offset \X {"class", "regex"}
           V == 1 .. Eof
           Mode(x) == IF src[x[1]] = "[" \/ (x[2] = "class" /\ src[x[1]] # "]") THEN "class" ELSE "regex"
           rank == [x \in D |-> x[1]]
           ends == {x \in D : x[1] > n \/ (src[x[1]] # "\\" /\ (src[x[1]] = "\n" \/ (src[x[1]] = "/" /\ x[2] = "regex")))}
           value == [x \in D |-> IF x[1] > n \/ src[x[1]] = "\n" THEN i ELSE IdentEnd(x[1] + 1)]
           next == [x \in D |-> IF src[x[1]] = "\\" THEN <<x[1] + 2, x[2]>>
                                ELSE <<x[1] + 1, Mode(x)>>]
           Body(f, x) == IF x[1] > n THEN i
                         ELSE CASE src[x[1]] = "\\" -> f[x[1] + 2, x[2]]
                                [] src[x[1]] = "\n" -> i
                                [] src[x[1]] = "/" /\ x[2] = "regex" -> IdentEnd(x[1] + 1)
                                [] OTHER -> f[x[1] + 1, Mode(x)]
           IsEnd(f) == f = [x \in D |-> Body(f, x)]
           end == CHOOSE f : IsEnd(f)
<1>1. n \in Nat /\ Eof = n + 1 /\ i \in 1 .. Eof
  BY SourceIs
<1>2. ASSUME NEW x \in D \cap ends
      PROVE  value[x] \in 1 .. Eof
  <2>1. x[1] \in Nat \ {0} /\ value[x] \in {i, IdentEnd(x[1] + 1)}
    BY DEF Offset
  <2>2. x[1] + 1 \in Nat \ {0}
    BY <2>1
  <2>3. IdentEnd(x[1] + 1) \in 1 .. Eof
    BY <2>2, IdentEndIs
  <2>. QED
    BY <2>1, <2>3, <1>1
<1>3. ASSUME NEW x \in D \ ends
      PROVE  next[x] \in D /\ rank[next[x]] > rank[x] /\ rank[x] <= n
  <2>1. x[1] \in Nat \ {0} /\ x[2] \in {"class", "regex"} /\ x[1] <= n
    BY <1>1 DEF Offset
  <2>2. next[x] \in D /\ next[x][1] > x[1]
    BY <2>1 DEF Offset
  <2>3. rank[next[x]] = next[x][1] /\ rank[x] = x[1]
    BY <2>2
  <2>. QED
    BY <2>1, <2>2, <2>3, <1>1
<1>4. IsLoop(D, V, n, rank, ends, value, next)
  <2>1. rank \in [D -> Nat] /\ V # {}
    BY <1>1 DEF Offset
  <2>. QED
    BY <1>1, <1>2, <1>3, <2>1 DEF IsLoop
<1>5. \A f : \A x \in D :
        LoopBody(ends, value, next, f, x) = Body(f, x)
  BY <1>1 DEF LoopBody, Offset
<1>6. JSRegex(i) = Text(i, end[<<i + 1, "regex">>])
  BY DEF JSRegex, n
<1>7. <<i + 1, "regex">> \in D
  BY <1>1 DEF Offset
<1> HIDE DEF D, ends, value, rank, next, V, n, Body
<1>8. PICK g \in [D -> V] : \A x \in D : g[x] = LoopBody(ends, value, next, g, x)
  BY <1>4, LoopExists
<1>9. IsEnd(g)
  BY <1>5, <1>8
<1>10. IsEnd(end)
  BY <1>9, Zenon
<1> HIDE DEF end
<1>11. \A x \in D : end[x] = LoopBody(ends, value, next, end, x)
  BY <1>10, <1>5
<1>12. \A x \in D : end[x] \in V
  BY <1>4, <1>11, LoopRange
<1>13. end[<<i + 1, "regex">>] \in 1 .. Eof
  BY <1>12, <1>7 DEF V
<1>14. PICK j \in 1 .. Eof : JSRegex(i) = Text(i, j)
  BY <1>6, <1>13
<1>15. Text(i, j).is = "text" /\ Text(i, j).to = j
  BY Pieces
<1>. QED
  BY <1>14, <1>15

LEMMA QuotedIs ==
  ASSUME Scannable, NEW from, NEW i \in 1 .. Len(src), NEW esc, NEW multiline
  PROVE  Quoted(from, i, esc, multiline).is = "text" /\ Quoted(from, i, esc, multiline).to \in 1 .. Eof
<1> DEFINE escapes == {k \in 1 .. Len(src) : src[k] = "\\" /\ esc}
           closes == {k \in 1 .. Len(src) : src[k] = src[i]} \ escapes
           breaks == {k \in 1 .. Len(src) : src[k] = "\n" /\ ~multiline} \ closes
           next == [k \in 1 .. Len(src) |-> IF k \in escapes THEN k + 2
                                           ELSE IF k \in breaks THEN k ELSE k + 1]
           end == ScanEnd(i + 1, closes \cup breaks, next)
<1>1. Len(src) \in Nat /\ Eof = Len(src) + 1 /\ i + 1 \in Offset
  BY SourceIs DEF Offset
<1>2. /\ \A k \in breaks : k \in 1 .. Len(src) /\ k \notin escapes
      /\ \A k \in closes : k \in 1 .. Len(src) /\ k \notin escapes /\ k \notin breaks
  OBVIOUS
<1>3. Quoted(from, i, esc, multiline) = Text(from, end)
  BY Zenon DEF Quoted
<1> HIDE DEF escapes, closes, breaks
<1>4. \A k \in closes \cup breaks : next[k] \in 1 .. Eof
  BY <1>1, <1>2
<1>5. \A k \in (1 .. Len(src)) \ (closes \cup breaks) : next[k] \in Nat /\ next[k] > k
  BY <1>1
<1>6. closes \cup breaks \subseteq 1 .. Len(src)
  BY <1>2
<1> HIDE DEF next
<1>7. end \in 1 .. Eof
  BY <1>1, <1>4, <1>5, <1>6, ScanEndIs
<1> HIDE DEF end
<1>. QED
  BY <1>3, <1>7, Pieces

LEMMA DoubledIs ==
  ASSUME Scannable, NEW from, NEW i \in 1 .. Len(src), NEW oneLine
  PROVE  Doubled(from, i, oneLine).is = "text" /\ Doubled(from, i, oneLine).to \in 1 .. Eof
<1> DEFINE quotes == {k \in 1 .. Len(src) : src[k] = src[i]}
           closes == {k \in quotes : CharAt(k + 1) # src[i]}
           breaks == {k \in 1 .. Len(src) : src[k] = "\n" /\ oneLine} \ quotes
           next == [k \in 1 .. Len(src) |-> IF k \in quotes \ closes THEN k + 2
                                           ELSE IF k \in breaks THEN k ELSE k + 1]
           end == ScanEnd(i + 1, closes \cup breaks, next)
<1>1. Len(src) \in Nat /\ Eof = Len(src) + 1 /\ i + 1 \in Offset
  BY SourceIs DEF Offset
<1>2. /\ \A k \in breaks : k \in 1 .. Len(src) /\ k \notin quotes
      /\ \A k \in closes : k \in 1 .. Len(src) /\ k \in quotes /\ k \notin breaks
  OBVIOUS
<1>3. Doubled(from, i, oneLine) = Text(from, end)
  BY Zenon DEF Doubled
<1> HIDE DEF quotes, closes, breaks
<1>4. \A k \in closes \cup breaks : next[k] \in 1 .. Eof
  BY <1>1, <1>2
<1>5. \A k \in (1 .. Len(src)) \ (closes \cup breaks) : next[k] \in Nat /\ next[k] > k
  BY <1>1
<1>6. closes \cup breaks \subseteq 1 .. Len(src)
  BY <1>2
<1> HIDE DEF next
<1>7. end \in 1 .. Eof
  BY <1>1, <1>4, <1>5, <1>6, ScanEndIs
<1> HIDE DEF end
<1>. QED
  BY <1>3, <1>7, Pieces

LEMMA JavaTextBlockIs ==
  ASSUME Scannable, NEW i \in Offset
  PROVE  JavaTextBlock(i).is = "text" /\ JavaTextBlock(i).to \in 1 .. Eof
<1> DEFINE closes == {k \in 1 .. Len(src) : At(k, DQuotes(3))}
           next == [k \in 1 .. Len(src) |-> IF k \in closes THEN k + 3
                                           ELSE IF src[k] = "\\" THEN k + 2 ELSE k + 1]
           end == ScanEnd(i + 3, closes, next)
<1>1. Len(src) \in Nat /\ Eof = Len(src) + 1 /\ i + 3 \in Offset
  BY SourceIs DEF Offset
<1>2. \A k \in closes : k \in 1 .. Len(src) /\ k + 3 \in 1 .. Eof
  BY AtQuotes
<1>3. JavaTextBlock(i) = Text(i, end)
  BY Zenon DEF JavaTextBlock
<1> HIDE DEF closes
<1>4. \A k \in closes : next[k] \in 1 .. Eof
  BY <1>1, <1>2
<1>5. \A k \in (1 .. Len(src)) \ closes : next[k] \in Nat /\ next[k] > k
  BY <1>1
<1>6. closes \subseteq 1 .. Len(src)
  BY <1>2
<1> HIDE DEF next
<1>7. end \in 1 .. Eof
  BY <1>1, <1>4, <1>5, <1>6, ScanEndIs
<1> HIDE DEF end
<1>. QED
  BY <1>3, <1>7, Pieces

\* A text's end is of symbols, and the last of them is in the source.
LEMMA ClosedByIs ==
  ASSUME Scannable, NEW i \in Offset, NEW close, Len(close) \in Nat \ {0}, close[Len(close)] # NoSymbol
  PROVE  ClosedBy(i, close) \in 1 .. Eof
<1> DEFINE closes == {k \in 1 .. Len(src) : At(k, close)}
           next == [k \in 1 .. Len(src) |-> IF k \in closes THEN k + Len(close) ELSE k + 1]
<1>1. Len(src) \in Nat /\ Eof = Len(src) + 1
  BY SourceIs
<1>2. ASSUME NEW k \in closes
      PROVE  k \in 1 .. Len(src) /\ k + Len(close) \in 1 .. Eof
  <2>1. Len(close) \in 1 .. Len(close) /\ k \in Int /\ At(k, close)
    BY <1>1
  <2>2. k + Len(close) - 1 \in 1 .. Len(src)
    BY <2>1, AtOne
  <2>. QED
    BY <2>1, <2>2, <1>1
<1>3. ClosedBy(i, close) = ScanEnd(i, closes, next)
  BY Zenon DEF ClosedBy
<1> HIDE DEF closes
<1>4. \A k \in closes : next[k] \in 1 .. Eof
  BY <1>1, <1>2
<1>5. \A k \in (1 .. Len(src)) \ closes : next[k] \in Nat /\ next[k] > k
  BY <1>1
<1>6. closes \subseteq 1 .. Len(src)
  BY <1>2
<1> HIDE DEF next
<1>. QED
  BY <1>3, <1>4, <1>5, <1>6, ScanEndIs

-----------------------------------------------------------------------------
(* Tokens *)

\* Calls that are made for a literal: its own, and for an element that of a tag.
IsOpened(frames) ==
  /\ \E S : frames \in Seq(S)
  /\ frames # << >>
  /\ \A k \in 1 .. Len(frames) :
       /\ IsFrame(frames[k]) /\ frames[k].fn # "code"
       /\ frames[k].fn = "tag" => k > 1 /\ frames[k - 1].fn = "jsx"

\* A token ends in the source.
IsToken(t) ==
  /\ t.to \in 1 .. Eof
  /\ t.is = "open" => IsOpened(t.frames)

LEMMA PieceIsToken ==
  ASSUME NEW i, NEW j \in 1 .. Eof
  PROVE  IsToken(Text(i, j)) /\ IsToken(Code(i, j)) /\ IsToken(Comment(i, j))
<1>1. Text(i, j).to = j /\ Code(i, j).to = j /\ Comment(i, j).to = j
  BY Pieces
<1>2. Text(i, j).is # "open" /\ Code(i, j).is # "open" /\ Comment(i, j).is # "open"
  BY Pieces
<1>. QED
  BY <1>1, <1>2 DEF IsToken

LEMMA NoTokenIs ==
  ASSUME NEW i \in 1 .. Eof
  PROVE  IsToken(NoToken(i))
  BY PieceIsToken DEF NoToken

LEMMA OpenedIs ==
  ASSUME NEW f, "fn" \in DOMAIN f, f.fn \notin {"code", "tag"}, NEW j \in 1 .. Eof
  PROVE  IsToken(Opened(<<f>>, j))
<1>1. IsFrame(f)
  BY DEF IsFrame
<1>2. <<f>> \in Seq({f}) /\ Len(<<f>>) = 1 /\ <<f>>[1] = f /\ <<f>> # << >>
  OBVIOUS
<1>3. \A k \in 1 .. Len(<<f>>) : <<f>>[k] = f
  OBVIOUS
<1>4. IsOpened(<<f>>)
  <2> DEFINE fs == <<f>>
  <2>1. fs \in Seq({f}) /\ fs # << >> /\ \A k \in 1 .. Len(fs) : fs[k] = f
    BY <1>2, <1>3
  <2> HIDE DEF fs
  <2>. QED
    BY <2>1, <1>1 DEF IsOpened
<1>. QED
  BY <1>4 DEF IsToken, Opened

LEMMA QuotedToken ==
  ASSUME Scannable, NEW from, NEW i \in 1 .. Len(src), NEW esc, NEW multiline
  PROVE  IsToken(Quoted(from, i, esc, multiline))
<1>1. /\ Quoted(from, i, esc, multiline).is = "text"
      /\ Quoted(from, i, esc, multiline).to \in 1 .. Eof
  BY QuotedIs, Zenon
<1>2. \A t : t.is = "text" /\ t.to \in 1 .. Eof => IsToken(t)
  BY DEF IsToken
<1>. QED
  BY <1>1, <1>2, Zenon

LEMMA LineCommentToken ==
  ASSUME Scannable, NEW i \in 1 .. Len(src), NEW cont
  PROVE  IsToken(LineComment(i, cont)) /\ LineComment(i, cont).is = "comment"
<1> DEFINE S == {k \in i .. Len(src) : src[k] = "\n" /\ ~(cont /\ k > i /\ src[k - 1] = "\\")}
<1>1. LineComment(i, cont) = Comment(i, FirstOf[S])
  BY Zenon DEF LineComment, First
<1>2. S \subseteq 1 .. Len(src)
  BY SourceIs
<1> HIDE DEF S
<1>3. FirstOf[S] \in 1 .. Eof
  BY <1>2, FirstOfIs
<1>4. IsToken(Comment(i, FirstOf[S])) /\ Comment(i, FirstOf[S]).is = "comment"
  BY <1>3, PieceIsToken, Pieces
<1>. QED
  BY <1>1, <1>4

LEMMA BlockCommentToken ==
  ASSUME Scannable, NEW i \in 1 .. Len(src), NEW nested \in BOOLEAN
  PROVE  IsToken(BlockComment(i, nested))
<1>1. i \in Offset
  BY SourceIs DEF Offset
<1>2. BlockComment(i, nested).is = "comment" /\ BlockComment(i, nested).to \in 1 .. Eof
  BY <1>1, BlockCommentIs, Zenon
<1>3. \A t : t.is = "comment" /\ t.to \in 1 .. Eof => IsToken(t)
  BY DEF IsToken
<1>. QED
  BY <1>2, <1>3, Zenon

LEMMA DirectiveWordIs ==
  ASSUME Scannable, NEW i \in 1 .. Len(src)
  PROVE  DirectiveWord(i).after \in 1 .. Eof
<1> DEFINE S == {x \in (i + 1) .. Len(src) : src[x] \notin {" ", "\t"}}
<1>1. DirectiveWord(i).after = IdentEnd(FirstOf[S])
  BY DEF DirectiveWord, First
<1>5. S \subseteq (i + 1) .. Len(src)
  OBVIOUS
<1> HIDE DEF S
<1>2. S \subseteq 1 .. Len(src)
  BY <1>5, SourceIs
<1>3. FirstOf[S] \in 1 .. Eof
  BY <1>2, FirstOfIs
<1>4. FirstOf[S] \in Nat \ {0}
  BY <1>3, SourceIs
<1>. QED
  BY <1>1, <1>4, IdentEndIs

LEMMA FreeTextToken ==
  ASSUME NEW i \in 1 .. Eof, NEW cont
  PROVE  IsToken(FreeText(i, cont))
<1> DEFINE f == [fn |-> "free", cont |-> cont, seg |-> i]
<1>1. "fn" \in DOMAIN f /\ f.fn \notin {"code", "tag"}
  OBVIOUS
<1> HIDE DEF f
<1>2. IsToken(Opened(<<f>>, i))
  BY <1>1, OpenedIs
<1>. QED
  BY <1>2 DEF FreeText, f

LEMMA CTokenIs ==
  ASSUME Scannable, NEW i \in 1 .. Len(src)
  PROVE  IsToken(CToken(i))
<1>1. Len(src) \in Nat /\ Eof = Len(src) + 1 /\ i \in 1 .. Eof /\ i + 1 \in 1 .. Eof
  BY SourceIs
<1>2. IsToken(Quoted(i, i, TRUE, FALSE))
  BY QuotedToken, Zenon
<1>3. At(i, <<"@", "\"">>) => IsToken(Quoted(i, i + 1, TRUE, FALSE))
  <2>1. ASSUME At(i, <<"@", "\"">>) PROVE i + 1 \in 1 .. Len(src)
    <3>1. "\"" # NoSymbol
      BY Marks, Zenon
    <3>3. i \in Nat \ {0}
      BY <1>1
    <3>2. i + 2 \in 1 .. Eof
      BY <2>1, <3>1, <3>3, AtTwo
    <3>. QED
      BY <3>2, <1>1
  <2>. QED
    BY <2>1, QuotedToken, Zenon
<1>4. IsToken(Code(i, i + 1)) /\ IsToken(NoToken(i))
  BY <1>1, PieceIsToken, NoTokenIs
<1>5. IsToken(FreeText(DirectiveWord(i).after, TRUE))
  BY DirectiveWordIs, FreeTextToken, Zenon
<1>. QED
  BY <1>2, <1>3, <1>4, <1>5, Zenon DEF CToken

LEMMA InSource ==
  ASSUME Scannable, NEW i \in 1 .. Len(src)
  PROVE  /\ Len(src) \in Nat /\ Eof = Len(src) + 1
         /\ i \in Nat \ {0} /\ i \in Offset /\ i \in 1 .. Eof /\ i + 1 \in 1 .. Eof
  BY SourceIs DEF Offset

LEMMA JavaTokenIs ==
  ASSUME Scannable, NEW i \in 1 .. Len(src)
  PROVE  IsToken(JavaToken(i))
<1>1. IsToken(JavaTextBlock(i))
  BY InSource, JavaTextBlockIs DEF IsToken
<1>2. IsToken(Quoted(i, i, TRUE, FALSE))
  BY QuotedToken, Zenon
<1>3. IsToken(NoToken(i))
  BY InSource, NoTokenIs
<1>. QED
  BY <1>1, <1>2, <1>3, Zenon DEF JavaToken

LEMMA GoTokenIs ==
  ASSUME Scannable, NEW i \in 1 .. Len(src)
  PROVE  IsToken(GoToken(i))
<1>1. IsToken(Quoted(i, i, TRUE, FALSE)) /\ IsToken(Quoted(i, i, FALSE, TRUE))
  BY QuotedToken, Zenon
<1>2. IsToken(NoToken(i))
  BY InSource, NoTokenIs
<1>. QED
  BY <1>1, <1>2, Zenon DEF GoToken

LEMMA RustQuoteIs ==
  ASSUME Scannable, NEW i \in 1 .. Len(src)
  PROVE  IsToken(RustQuote(i))
<1>1. IsToken(Quoted(i, i, TRUE, FALSE))
  BY QuotedToken, Zenon
<1>2. i + 2 <= Len(src) => IsToken(Text(i, i + 3))
  <2>1. i + 2 <= Len(src) => i + 3 \in 1 .. Eof
    BY InSource
  <2>. QED
    BY <2>1, PieceIsToken
<1>3. IsToken(Code(i, i + 1))
  BY InSource, PieceIsToken
<1>. QED
  BY <1>1, <1>2, <1>3, Zenon DEF RustQuote

LEMMA RustTokenIs ==
  ASSUME Scannable, NEW i \in 1 .. Len(src)
  PROVE  IsToken(RustToken(i))
<1>1. IsToken(Quoted(i, i, TRUE, TRUE))
  BY QuotedToken, Zenon
<1>2. IsToken(NoToken(i))
  BY InSource, NoTokenIs
<1>. QED
  BY <1>1, <1>2, RustQuoteIs, Zenon DEF RustToken

\* The calls that the scanner makes for literals.
LEMMA FrameKinds ==
  /\ \A raw, seg : LET f == [fn |-> "kotlin", raw |-> raw, seg |-> seg] IN
       "fn" \in DOMAIN f /\ f.fn \notin {"code", "tag"}
  /\ \A multi, hashes, seg :
       LET f == [fn |-> "swift", multi |-> multi, hashes |-> hashes, seg |-> seg] IN
         "fn" \in DOMAIN f /\ f.fn \notin {"code", "tag"}
  /\ \A seg : LET f == [fn |-> "template", seg |-> seg] IN
       "fn" \in DOMAIN f /\ f.fn \notin {"code", "tag"}
  /\ \A quote, triple, raw, fmt, seg :
       LET f == [fn |-> "python", quote |-> quote, triple |-> triple, raw |-> raw, fmt |-> fmt,
                 seg |-> seg] IN
         "fn" \in DOMAIN f /\ f.fn \notin {"code", "tag"}
  /\ \A quote, seg : LET f == [fn |-> "php", quote |-> quote, seg |-> seg] IN
       "fn" \in DOMAIN f /\ f.fn \notin {"code", "tag"}
  /\ \A id, interp, start, seg :
       LET f == [fn |-> "heredoc", id |-> id, interp |-> interp, lineStart |-> start, seg |-> seg] IN
         "fn" \in DOMAIN f /\ f.fn \notin {"code", "tag"}
  /\ \A verbatim, seg : LET f == [fn |-> "interp", verbatim |-> verbatim, seg |-> seg] IN
       "fn" \in DOMAIN f /\ f.fn \notin {"code", "tag"}
  /\ \A quotes, dollars, seg :
       LET f == [fn |-> "csraw", quotes |-> quotes, dollars |-> dollars, seg |-> seg] IN
         "fn" \in DOMAIN f /\ f.fn \notin {"code", "tag"}
  OBVIOUS

LEMMA JSTemplateIs ==
  ASSUME Scannable, NEW i \in 1 .. Len(src)
  PROVE  IsToken(JSTemplate(i))
<1> DEFINE f == [fn |-> "template", seg |-> i]
<1>1. "fn" \in DOMAIN f /\ f.fn \notin {"code", "tag"}
  BY FrameKinds
<1>2. JSTemplate(i) = Opened(<<f>>, i + 1)
  BY Zenon DEF JSTemplate
<1> HIDE DEF f
<1>. QED
  BY <1>1, <1>2, InSource, OpenedIs

LEMMA JSXIs ==
  ASSUME Scannable, NEW i \in 1 .. Len(src)
  PROVE  IsToken(JSX(i))
<1> DEFINE e == [fn |-> "jsx", depth |-> 0, seg |-> i]
           t == [fn |-> "tag", seg |-> i]
           fs == <<e, t>>
<1>1. fs \in Seq({e, t}) /\ fs # << >> /\ Len(fs) = 2 /\ fs[1] = e /\ fs[2] = t
  OBVIOUS
<1>2. "fn" \in DOMAIN e /\ "fn" \in DOMAIN t /\ e.fn = "jsx" /\ t.fn = "tag"
  OBVIOUS
<1>3. JSX(i) = Opened(fs, i + 1)
  BY DEF JSX
<1> HIDE DEF e, t, fs
<1>4. IsFrame(e) /\ IsFrame(t)
  BY <1>2 DEF IsFrame
<1>5. IsOpened(fs)
  <2>1. ASSUME NEW k \in 1 .. Len(fs)
        PROVE  k = 1 \/ k = 2
    BY <1>1
  <2>2. ASSUME NEW k \in 1 .. Len(fs)
        PROVE  /\ IsFrame(fs[k]) /\ fs[k].fn # "code"
               /\ fs[k].fn = "tag" => k > 1 /\ fs[k - 1].fn = "jsx"
    <3>1. CASE k = 1
      BY <3>1, <1>1, <1>2, <1>4
    <3>2. CASE k = 2
      BY <3>2, <1>1, <1>2, <1>4
    <3>. QED
      BY <2>1, <3>1, <3>2
  <2>. QED
    BY <2>2, <1>1 DEF IsOpened
<1>6. i + 1 \in 1 .. Eof
  BY InSource
<1>. QED
  BY <1>3, <1>5, <1>6 DEF IsToken, Opened

LEMMA JSTokenIs ==
  ASSUME Scannable, NEW i \in 1 .. Len(src)
  PROVE  IsToken(JSToken(i))
<1>1. \A m : IsToken(Quoted(i, i, TRUE, m))
  BY QuotedToken, Zenon
<1>2. IsToken(LineComment(i, FALSE))
  BY LineCommentToken, Zenon
<1>3. IsToken(JSRegex(i))
  BY JSRegexIs DEF IsToken
<1>4. IsToken(NoToken(i))
  BY InSource, NoTokenIs
<1>. QED
  BY <1>1, <1>2, <1>3, <1>4, JSTemplateIs, JSXIs, Zenon DEF JSToken

\* A triple quote has its three symbols in the source.
LEMMA PythonIs ==
  ASSUME Scannable, NEW from, NEW q \in 1 .. Len(src), src[q] # NoSymbol, NEW raw, NEW fmt
  PROVE  IsToken(Python(from, q, raw, fmt))
<1> DEFINE triple == At(q, <<src[q], src[q], src[q]>>)
           f == [fn |-> "python", quote |-> src[q], triple |-> triple, raw |-> raw, fmt |-> fmt,
                 seg |-> from]
           to == IF triple THEN q + 3 ELSE q + 1
<1>1. "fn" \in DOMAIN f /\ f.fn \notin {"code", "tag"}
  BY FrameKinds, Zenon
<1>2. Python(from, q, raw, fmt) = Opened(<<f>>, to)
  BY Zenon DEF Python
<1>3. q \in Nat \ {0}
  BY InSource
<1>4. triple => q + 3 \in 1 .. Eof
  BY <1>3, AtThree
<1> HIDE DEF f, triple
<1>5. to \in 1 .. Eof
  BY <1>4, InSource
<1> HIDE DEF to
<1>. QED
  BY <1>1, <1>2, <1>5, OpenedIs

LEMMA PythonTokenIs ==
  ASSUME Scannable, NEW i \in 1 .. Len(src)
  PROVE  IsToken(PythonToken(i))
<1>1. src[i] \in {"\"", "'"} => src[i] # NoSymbol
  BY Marks, Zenon
<1>2. src[i] \in {"\"", "'"} => IsToken(Python(i, i, FALSE, FALSE))
  BY <1>1, PythonIs, Zenon
<1>3. IsToken(LineComment(i, FALSE))
  BY LineCommentToken, Zenon
<1>4. IsToken(NoToken(i))
  BY InSource, NoTokenIs
<1>. QED
  BY <1>2, <1>3, <1>4, Zenon DEF PythonToken

LEMMA PHPLineCommentToken ==
  ASSUME Scannable, NEW i \in 1 .. Len(src)
  PROVE  IsToken(PHPLineComment(i))
<1> DEFINE S == {k \in i .. Len(src) : src[k] = "\n" \/ At(k, <<"?", ">">>)}
<1>1. PHPLineComment(i) = Comment(i, FirstOf[S])
  BY Zenon DEF PHPLineComment, First
<1>2. S \subseteq 1 .. Len(src)
  BY SourceIs
<1> HIDE DEF S
<1>3. FirstOf[S] \in 1 .. Eof
  BY <1>2, FirstOfIs
<1>. QED
  BY <1>1, <1>3, PieceIsToken

LEMMA PHPStringIs ==
  ASSUME Scannable, NEW i \in 1 .. Len(src), NEW q
  PROVE  IsToken(PHPString(i, q))
<1> DEFINE f == [fn |-> "php", quote |-> q, seg |-> i]
<1>1. "fn" \in DOMAIN f /\ f.fn \notin {"code", "tag"}
  BY FrameKinds, Zenon
<1>2. PHPString(i, q) = Opened(<<f>>, i + 1)
  BY Zenon DEF PHPString
<1> HIDE DEF f
<1>. QED
  BY <1>1, <1>2, InSource, OpenedIs

LEMMA PHPHeredocIs ==
  ASSUME Scannable, NEW i \in 1 .. Len(src), At(i, <<"<", "<", "<">>)
  PROVE  IsToken(PHPHeredoc(i))
<1> DEFINE k == First(i + 3, LAMBDA x : src[x] \notin {" ", "\t"})
           quote == IF CharAt(k) \in {"\"", "'"} THEN CharAt(k) ELSE NoSymbol
           id == IF quote = NoSymbol THEN k ELSE k + 1
           after == IF quote = NoSymbol THEN id + 1 ELSE id + 2
           interp == quote # "'"
           f == [fn |-> "heredoc", id |-> src[id], interp |-> interp, lineStart |-> TRUE, seg |-> i]
           here == /\ IsIdentStart(CharAt(id)) /\ (quote = NoSymbol \/ CharAt(id + 1) = quote)
                   /\ CharAt(after) = "\n"
<1>1. PHPHeredoc(i) = IF here THEN Opened(<<f>>, after + 1) ELSE Code(i, i + 3)
  BY Zenon DEF PHPHeredoc
<1>2. "fn" \in DOMAIN f /\ f.fn \notin {"code", "tag"}
  BY FrameKinds, Zenon
<1>3. here => CharAt(after) # NoSymbol
  BY Marks, Zenon
<1> HIDE DEF k, quote, id, after, f, here
<1>4. here => after + 1 \in 1 .. Eof
  BY <1>3, AfterChar
<1>5. here => IsToken(Opened(<<f>>, after + 1))
  BY <1>2, <1>4, OpenedIs
<1>6. "<" # NoSymbol
  BY Marks, Zenon
<1>7. i + 3 \in 1 .. Eof
  BY <1>6, InSource, AtThree
<1>8. IsToken(Code(i, i + 3))
  BY <1>7, PieceIsToken
<1>. QED
  BY <1>1, <1>5, <1>8, Zenon

LEMMA PHPTokenIs ==
  ASSUME Scannable, NEW i \in 1 .. Len(src)
  PROVE  IsToken(PHPToken(i))
<1>1. IsToken(Quoted(i, i, TRUE, TRUE))
  BY QuotedToken, Zenon
<1>2. IsToken(NoToken(i))
  BY InSource, NoTokenIs
<1>. QED
  BY <1>1, <1>2, PHPLineCommentToken, PHPStringIs, PHPHeredocIs, Zenon DEF PHPToken

LEMMA CSharpStringIs ==
  ASSUME Scannable, NEW i \in 1 .. Len(src)
  PROVE  IsToken(CSharpString(i))
<1> DEFINE p == First(i, LAMBDA x :
                  src[x] # "$" /\ ~(src[x] = "@" /\ \A y \in i .. x - 1 : src[y] # "@"))
           dollars == Cardinality({x \in i .. p - 1 : src[x] = "$"})
           verbatim == \E x \in i .. p - 1 : src[x] = "@"
           S == {x \in p .. Len(src) : src[x] # "\""}
           quotes == FirstOf[S] - p
           raw == [fn |-> "csraw", quotes |-> quotes, dollars |-> dollars, seg |-> i]
           interp == [fn |-> "interp", verbatim |-> verbatim, seg |-> i]
<1>1. CSharpString(i) =
        IF CharAt(p) # "\"" THEN NoToken(i)
        ELSE IF quotes >= 3 /\ ~verbatim THEN Opened(<<raw>>, p + quotes)
        ELSE IF dollars > 0 THEN Opened(<<interp>>, p + 1)
        ELSE IF verbatim THEN Doubled(i, p, FALSE)
        ELSE Quoted(i, p, TRUE, FALSE)
  BY Zenon DEF CSharpString, CSharpRaw, CSharpInterp, First
<1>2. /\ "fn" \in DOMAIN raw /\ raw.fn \notin {"code", "tag"}
      /\ "fn" \in DOMAIN interp /\ interp.fn \notin {"code", "tag"}
  BY FrameKinds, Zenon
<1>3. "\"" # NoSymbol
  BY Marks, Zenon
<1>4. S \subseteq p .. Len(src)
  OBVIOUS
<1> HIDE DEF p, dollars, verbatim, S, raw, interp
<1>5. CASE CharAt(p) = "\""
  <2>1. CharAt(p) # NoSymbol
    BY <1>3, <1>5, Zenon
  <2>2. p \in 1 .. Len(src)
    BY <2>1, CharIn
  <2>3. p \in Nat /\ Len(src) \in Nat /\ p + 1 \in 1 .. Eof
    BY <2>2, InSource
  <2>4. S \subseteq 1 .. Len(src)
    BY <2>2, <2>3, <1>4
  <2>5. FirstOf[S] \in 1 .. Eof
    BY <2>4, FirstOfIs
  <2>6. p + quotes \in 1 .. Eof
    BY <2>3, <2>5, SourceIs
  <2> HIDE DEF quotes
  <2>7. IsToken(Opened(<<raw>>, p + quotes)) /\ IsToken(Opened(<<interp>>, p + 1))
    BY <1>2, <2>3, <2>6, OpenedIs
  <2>8. IsToken(Doubled(i, p, FALSE))
    <3>1. Doubled(i, p, FALSE).is = "text" /\ Doubled(i, p, FALSE).to \in 1 .. Eof
      BY <2>2, DoubledIs, Zenon
    <3>2. \A t : t.is = "text" /\ t.to \in 1 .. Eof => IsToken(t)
      BY DEF IsToken
    <3>. QED
      BY <3>1, <3>2, Zenon
  <2>9. IsToken(Quoted(i, p, TRUE, FALSE))
    BY <2>2, QuotedToken, Zenon
  <2>. QED
    BY <1>1, <1>5, <2>7, <2>8, <2>9, Zenon
<1>6. CASE CharAt(p) # "\""
  <2>1. IsToken(NoToken(i))
    BY InSource, NoTokenIs
  <2>. QED
    BY <1>1, <1>6, <2>1, Zenon
<1>. QED
  BY <1>5, <1>6

LEMMA CSharpTokenIs ==
  ASSUME Scannable, NEW i \in 1 .. Len(src)
  PROVE  IsToken(CSharpToken(i))
<1>1. IsToken(Quoted(i, i, TRUE, FALSE))
  BY QuotedToken, Zenon
<1>2. IsToken(FreeText(DirectiveWord(i).after, FALSE))
  BY DirectiveWordIs, FreeTextToken, Zenon
<1>3. IsToken(NoToken(i))
  BY InSource, NoTokenIs
<1>. QED
  BY <1>1, <1>2, <1>3, CSharpStringIs, Zenon DEF CSharpToken

LEMMA BacktickNameIs ==
  ASSUME Scannable, NEW i \in 1 .. Len(src)
  PROVE  IsToken(BacktickName(i))
<1> DEFINE k == First(i + 1, LAMBDA x : src[x] \in {Backtick, "\n"})
<1>1. BacktickName(i) = Code(i, IF CharAt(k) = Backtick THEN k + 1 ELSE i + 1)
  BY Zenon DEF BacktickName
<1>2. Backtick # NoSymbol
  BY Marks, Zenon
<1> HIDE DEF k
<1>3. CharAt(k) = Backtick => k + 1 \in 1 .. Eof
  BY <1>2, AfterChar
<1>4. (IF CharAt(k) = Backtick THEN k + 1 ELSE i + 1) \in 1 .. Eof
  BY <1>3, InSource
<1>. QED
  BY <1>1, <1>4, PieceIsToken

LEMMA KotlinIs ==
  ASSUME Scannable, NEW i \in 1 .. Len(src)
  PROVE  IsToken(Kotlin(i))
<1> DEFINE raw == At(i, DQuotes(3))
           f == [fn |-> "kotlin", raw |-> raw, seg |-> i]
           to == IF raw THEN i + 3 ELSE i + 1
<1>1. "fn" \in DOMAIN f /\ f.fn \notin {"code", "tag"}
  BY FrameKinds, Zenon
<1>2. Kotlin(i) = Opened(<<f>>, to)
  BY Zenon DEF Kotlin
<1>3. raw => i + 3 \in 1 .. Eof
  BY InSource, AtQuotes
<1> HIDE DEF f, raw
<1>4. to \in 1 .. Eof
  BY <1>3, InSource
<1> HIDE DEF to
<1>. QED
  BY <1>1, <1>2, <1>4, OpenedIs

LEMMA KotlinTokenIs ==
  ASSUME Scannable, NEW i \in 1 .. Len(src)
  PROVE  IsToken(KotlinToken(i))
<1>1. IsToken(Quoted(i, i, TRUE, FALSE))
  BY QuotedToken, Zenon
<1>2. IsToken(NoToken(i))
  BY InSource, NoTokenIs
<1>. QED
  BY <1>1, <1>2, BacktickNameIs, KotlinIs, Zenon DEF KotlinToken

LEMMA SwiftIs ==
  ASSUME Scannable, NEW from, NEW q \in 1 .. Len(src)
  PROVE  IsToken(Swift(from, q))
<1> DEFINE multi == At(q, DQuotes(3))
           f == [fn |-> "swift", multi |-> multi, hashes |-> q - from, seg |-> from]
           to == IF multi THEN q + 3 ELSE q + 1
<1>1. "fn" \in DOMAIN f /\ f.fn \notin {"code", "tag"}
  BY FrameKinds, Zenon
<1>2. Swift(from, q) = Opened(<<f>>, to)
  BY Zenon DEF Swift
<1>3. multi => q + 3 \in 1 .. Eof
  BY InSource, AtQuotes
<1> HIDE DEF f, multi
<1>4. to \in 1 .. Eof
  BY <1>3, InSource
<1> HIDE DEF to
<1>. QED
  BY <1>1, <1>2, <1>4, OpenedIs

LEMMA SwiftTokenIs ==
  ASSUME Scannable, NEW i \in 1 .. Len(src)
  PROVE  IsToken(SwiftToken(i))
<1> DEFINE S == {x \in i .. Len(src) : src[x] # "#"}
           h == FirstOf[S]
<1>1. SwiftToken(i) =
        CASE src[i] = Backtick -> BacktickName(i)
          [] src[i] = "\"" -> Swift(i, i)
          [] src[i] = "#" -> (IF CharAt(h) = "\"" THEN Swift(i, h) ELSE Code(i, h))
          [] OTHER -> NoToken(i)
  BY Zenon DEF SwiftToken, First
<1>2. S \subseteq 1 .. Len(src)
  BY InSource
<1> HIDE DEF S
<1>3. h \in 1 .. Eof
  BY <1>2, FirstOfIs
<1> HIDE DEF h
<1>4. IsToken(Code(i, h))
  BY <1>3, PieceIsToken
<1>5. "\"" # NoSymbol
  BY Marks, Zenon
<1>6. CharAt(h) = "\"" => h \in 1 .. Len(src)
  BY <1>5, CharIn, Zenon
<1>7. CharAt(h) = "\"" => IsToken(Swift(i, h))
  BY <1>6, SwiftIs, Zenon
<1>8. IsToken(Swift(i, i))
  BY SwiftIs, Zenon
<1>9. IsToken(NoToken(i))
  BY InSource, NoTokenIs
<1>. QED
  BY <1>1, <1>4, <1>7, <1>8, <1>9, BacktickNameIs, Zenon

LEMMA FamilyIs ==
  ASSUME Scannable
  PROVE  Family \in {"C", "java", "go", "rust", "JS", "python", "php", "csharp", "kotlin", "swift"}
  BY DEF Scannable, Languages, Family

LEMMA TokenIs ==
  ASSUME Scannable, NEW i \in 1 .. Len(src)
  PROVE  IsToken(Token(i))
<1>1. IsToken(LineComment(i, Family = "C"))
  BY LineCommentToken, Zenon
<1>2. IsToken(BlockComment(i, Family \in {"rust", "kotlin", "swift"}))
  <2>1. (Family \in {"rust", "kotlin", "swift"}) \in BOOLEAN
    OBVIOUS
  <2>. QED
    BY <2>1, BlockCommentToken, Zenon
<1> DEFINE t == CASE Family = "C" -> CToken(i)
                  [] Family = "java" -> JavaToken(i)
                  [] Family = "go" -> GoToken(i)
                  [] Family = "rust" -> RustToken(i)
                  [] Family = "JS" -> JSToken(i)
                  [] Family = "python" -> PythonToken(i)
                  [] Family = "php" -> PHPToken(i)
                  [] Family = "csharp" -> CSharpToken(i)
                  [] Family = "kotlin" -> KotlinToken(i)
                  [] Family = "swift" -> SwiftToken(i)
<1>3. t \in {CToken(i), JavaToken(i), GoToken(i), RustToken(i), JSToken(i), PythonToken(i),
             PHPToken(i), CSharpToken(i), KotlinToken(i), SwiftToken(i)}
  BY FamilyIs
<1>4. IsToken(t)
  BY <1>3, CTokenIs, JavaTokenIs, GoTokenIs, RustTokenIs, JSTokenIs, PythonTokenIs, PHPTokenIs,
     CSharpTokenIs, KotlinTokenIs, SwiftTokenIs
<1>5. Token(i) = IF Family # "python" /\ At(i, <<"/", "/">>)
                 THEN IF Family = "php" THEN PHPLineComment(i) ELSE LineComment(i, Family = "C")
                 ELSE IF Family # "python" /\ At(i, <<"/", "*">>)
                 THEN BlockComment(i, Family \in {"rust", "kotlin", "swift"})
                 ELSE t
  BY Zenon DEF Token
<1> HIDE DEF t
<1>. QED
  BY <1>1, <1>2, <1>4, <1>5, PHPLineCommentToken, Zenon

\* The last symbol of what closes a raw string is a quote or a hash.
\* The last symbol of a closing mark.
LEMMA JoinedEnd ==
  ASSUME NEW S, NEW s \in Seq(S), NEW t \in Seq(S)
  PROVE  /\ s \o t \in Seq(S) /\ Len(s \o t) = Len(s) + Len(t)
         /\ Len(t) > 0 => (s \o t)[Len(s \o t)] = t[Len(t)]
         /\ Len(t) = 0 => \A k \in 1 .. Len(s) : (s \o t)[k] = s[k]
<1>1. s \o t \in Seq(S) /\ Len(s \o t) = Len(s) + Len(t)
  BY ConcatProperties
<1>2. \A k \in 1 .. Len(s) + Len(t) :
        (s \o t)[k] = IF k <= Len(s) THEN s[k] ELSE t[k - Len(s)]
  BY ConcatProperties
<1>3. Len(s) \in Nat /\ Len(t) \in Nat
  OBVIOUS
<1>. QED
  BY <1>1, <1>2, <1>3

LEMMA EndsWith ==
  ASSUME NEW S, NEW s \in Seq(S), NEW c \in S
  PROVE  /\ Len(s \o <<c>>) \in Nat \ {0}
         /\ (s \o <<c>>)[Len(s \o <<c>>)] = c
<1>1. <<c>> \in Seq(S) /\ Len(<<c>>) = 1 /\ <<c>>[1] = c
  OBVIOUS
<1>. QED
  BY <1>1, JoinedEnd

LEMMA Wrapped ==
  ASSUME NEW S, NEW s \in Seq(S), NEW a, NEW b
  PROVE  LET w == <<a>> \o s \o <<b>>
         IN  Len(w) \in Nat \ {0} /\ w[Len(w)] = b
<1> DEFINE T == S \cup {a, b}
<1>1. s \in Seq(T) /\ <<a>> \in Seq(T) /\ b \in T
  OBVIOUS
<1> HIDE DEF T
<1>2. <<a>> \o s \in Seq(T)
  BY <1>1, JoinedEnd
<1>. QED
  BY <1>1, <1>2, EndsWith

LEMMA Fenced ==
  ASSUME NEW a, NEW b, NEW n \in Nat
  PROVE  LET w == [k \in 1 .. 1 |-> a] \o [h \in 1 .. n |-> b]
         IN  Len(w) \in Nat \ {0} /\ w[Len(w)] \in {a, b}
<1> DEFINE s == [k \in 1 .. 1 |-> a]
           t == [h \in 1 .. n |-> b]
           T == {a, b}
<1>1. /\ s \in Seq(T) /\ Len(s) = 1 /\ s[1] \in T
      /\ t \in Seq(T) /\ Len(t) = n /\ \A k \in 1 .. n : t[k] \in T
  OBVIOUS
<1> HIDE DEF s, t, T
<1>2. /\ Len(s \o t) = Len(s) + Len(t)
      /\ Len(t) > 0 => (s \o t)[Len(s \o t)] = t[Len(t)]
      /\ Len(t) = 0 => \A k \in 1 .. Len(s) : (s \o t)[k] = s[k]
  BY <1>1, JoinedEnd, Zenon
<1>3. Len(s \o t) \in Nat \ {0} /\ (s \o t)[Len(s \o t)] \in T
  BY <1>1, <1>2
<1>. QED
  BY <1>3 DEF s, t, T

LEMMA CppRawIs ==
  ASSUME Scannable, NEW from \in 1 .. Len(src), NEW q \in 1 .. Len(src)
  PROVE  IsToken(CppRaw(from, q))
<1> DEFINE open == First(q + 1, LAMBDA k :
                     src[k] \in {"(", " ", ")", "\\", "\t", "\n", "\""})
           name == SubSeq(src, q + 1, open - 1)
           close == <<")">> \o name \o <<"\"">>
<1>1. CppRaw(from, q) = IF CharAt(open) # "(" THEN NoToken(from)
                        ELSE Text(from, ClosedBy(open + 1, close))
  BY Zenon DEF CppRaw
<1>2. IsToken(NoToken(from))
  BY InSource, NoTokenIs
<1>3. "(" # NoSymbol /\ "\"" # NoSymbol
  BY Marks, Zenon
<1> HIDE DEF open
<1>4. ASSUME CharAt(open) = "("
      PROVE  IsToken(Text(from, ClosedBy(open + 1, close)))
  <2>1. CharAt(open) # NoSymbol
    BY <1>3, <1>4, Zenon
  <2>2. open \in 1 .. Len(src)
    BY <2>1, CharIn
  <2>3. name \in Seq(STRING)
    <3>1. \A k \in (q + 1) .. (open - 1) : k \in 1 .. Len(src)
      BY <2>2, InSource
    <3>. QED
      BY <3>1, <2>2, InSource DEF Scannable
  <2> HIDE DEF name
  <2>4. Len(close) \in Nat \ {0} /\ close[Len(close)] = "\""
    BY <2>3, Wrapped, Zenon
  <2> HIDE DEF close
  <2>5. open + 1 \in Offset
    BY <2>2, InSource DEF Offset
  <2>6. ClosedBy(open + 1, close) \in 1 .. Eof
    BY <2>4, <2>5, <1>3, ClosedByIs
  <2>. QED
    BY <2>6, PieceIsToken
<1> HIDE DEF close
<1>. QED
  BY <1>1, <1>2, <1>4, Zenon

LEMMA RustRawIs ==
  ASSUME Scannable, NEW from \in 1 .. Len(src), NEW k \in 1 .. Eof
  PROVE  IsToken(RustRaw(from, k))
<1> DEFINE S == {x \in k .. Len(src) : src[x] # "#"}
           q == FirstOf[S]
           hashes == [h \in 1 .. q - k |-> "#"]
           close == DQuotes(1) \o hashes
<1>1. RustRaw(from, k) = IF CharAt(q) # "\"" THEN NoToken(from)
                         ELSE Text(from, ClosedBy(q + 1, close))
  BY Zenon DEF RustRaw, First
<1>2. IsToken(NoToken(from))
  BY InSource, NoTokenIs
<1>3. "\"" # NoSymbol /\ "#" # NoSymbol
  BY Marks, Zenon
<1>4. S \subseteq k .. Len(src)
  OBVIOUS
<1>5. S \subseteq 1 .. Len(src)
  BY <1>4, SourceIs
<1> HIDE DEF S
<1>6. q \in 1 .. Eof /\ (q = Eof \/ q \in S)
  BY <1>5, FirstOfIs
<1>7. q - k \in Nat
  BY <1>4, <1>6, SourceIs
<1> HIDE DEF q
<1>8. ASSUME CharAt(q) = "\""
      PROVE  IsToken(Text(from, ClosedBy(q + 1, close)))
  <2>5. Len(close) \in Nat \ {0} /\ close[Len(close)] \in {"\"", "#"}
    BY <1>7, Fenced, Zenon DEF DQuotes
  <2> HIDE DEF close
  <2>6. q + 1 \in Offset
    BY <1>6, SourceIs DEF Offset
  <2>7. close[Len(close)] # NoSymbol
    BY <2>5, <1>3
  <2>8. ClosedBy(q + 1, close) \in 1 .. Eof
    BY <2>5, <2>6, <2>7, ClosedByIs
  <2>. QED
    BY <2>8, PieceIsToken
<1> HIDE DEF close
<1>. QED
  BY <1>1, <1>2, <1>8, Zenon

LEMMA PrefixedIs ==
  ASSUME Scannable, NEW i \in 1 .. Len(src), NEW k \in 1 .. Eof
  PROVE  IsToken(Prefixed(i, k))
<1> DEFINE w == src[i]
           next == CharAt(k)
<1>1. IsToken(NoToken(i))
  BY InSource, NoTokenIs
<1>2. "\"" # NoSymbol /\ "'" # NoSymbol
  BY Marks, Zenon
<1>3. ASSUME next \in {"\"", "'"}
      PROVE  k \in 1 .. Len(src) /\ src[k] # NoSymbol
  <2>1. CharAt(k) # NoSymbol
    BY <1>2, <1>3, Zenon
  <2>. QED
    BY <2>1, CharIn
<1>4. ASSUME next \in {"\"", "'"}
      PROVE  /\ \A esc, multiline : IsToken(Quoted(i, k, esc, multiline))
             /\ \A raw, fmt : IsToken(Python(i, k, raw, fmt))
             /\ IsToken(CppRaw(i, k))
  BY <1>3, <1>4, QuotedToken, PythonIs, CppRawIs, Zenon
<1>5. IsToken(RustRaw(i, k))
  BY RustRawIs, Zenon
<1>6. Prefixed(i, k) =
        IF k # i + 1 THEN NoToken(i)
        ELSE CASE /\ Family = "C" /\ w \in {"L", "u", "U", "u8"}
                  /\ next \in {"\"", "'"} -> Quoted(i, k, TRUE, FALSE)
               [] /\ Family = "C" /\ w \in {"R", "LR", "uR", "UR", "u8R"}
                  /\ next = "\"" /\ lang # "c" -> CppRaw(i, k)
               [] Family = "rust" /\ w = "b" /\ next = "'" -> Quoted(i, k, TRUE, FALSE)
               [] /\ Family = "rust" /\ w \in {"b", "c"}
                  /\ next = "\"" -> Quoted(i, k, TRUE, TRUE)
               [] /\ Family = "rust" /\ w \in {"r", "br", "cr"}
                  /\ next \in {"\"", "#"} -> RustRaw(i, k)
               [] /\ Family = "python" /\ w \in RawPrefixes \cup FmtPrefixes \cup {"b", "u"}
                  /\ next \in {"\"", "'"} ->
                    Python(i, k, w \in RawPrefixes, w \in FmtPrefixes)
               [] OTHER -> NoToken(i)
  BY Zenon DEF Prefixed
<1> HIDE DEF w, next
<1>7. next = "\"" => next \in {"\"", "'"}
  OBVIOUS
<1>8. next = "'" => next \in {"\"", "'"}
  OBVIOUS
<1>. QED
  BY <1>1, <1>4, <1>5, <1>6, <1>7, <1>8, Zenon

LEMMA NumberIs ==
  ASSUME Scannable, NEW i \in 1 .. Len(src)
  PROVE  IsToken(Number(i))
<1> DEFINE S == {k \in (i + 1) .. Len(src) :
                   ~(\/ IsIdentByte(src[k]) \/ src[k] = "."
                     \/ src[k] \in {"+", "-"} /\ src[k - 1] \in {"e", "E", "p", "P"}
                     \/ src[k] = "'" /\ Family = "C" /\ IsIdentByte(CharAt(k + 1)))}
<1>1. Number(i) = Code(i, FirstOf[S])
  BY Zenon DEF Number, First
<1>2. S \subseteq (i + 1) .. Len(src)
  BY Zenon
<1> HIDE DEF S
<1>3. S \subseteq 1 .. Len(src)
  BY <1>2, InSource
<1>4. FirstOf[S] \in 1 .. Eof
  BY <1>3, FirstOfIs
<1>. QED
  BY <1>1, <1>4, PieceIsToken

LEMMA NameEndIs ==
  ASSUME Scannable, NEW i \in 1 .. Len(src)
  PROVE  NameEnd(i) \in 1 .. Eof
<1> DEFINE S == {k \in i .. Len(src) : ~(IsIdentByte(src[k]) \/ (src[k] = "$" /\ Family = "JS"))}
<1>1. NameEnd(i) = FirstOf[S]
  BY Zenon DEF NameEnd, First
<1>2. S \subseteq i .. Len(src)
  BY Zenon
<1> HIDE DEF S
<1>3. S \subseteq 1 .. Len(src)
  BY <1>2, InSource
<1>. QED
  BY <1>1, <1>3, FirstOfIs

-----------------------------------------------------------------------------
(* The stack of calls *)

\* What a stack is, call by call.
LEMMA StackIs ==
  ASSUME NEW s, IsStack(s)
  PROVE  /\ Len(s) \in Nat
         /\ s = << >> <=> Len(s) = 0
         /\ \A k \in 1 .. Len(s) :
              IsFrame(s[k]) /\ (s[k].fn = "tag" => k > 1 /\ s[k - 1].fn = "jsx")
  BY DEF IsStack

\* A call returns.
LEMMA BelowIs ==
  ASSUME NEW s, IsStack(s), s # << >>
  PROVE  /\ IsStack(SubSeq(s, 1, Len(s) - 1))
         /\ Len(SubSeq(s, 1, Len(s) - 1)) = Len(s) - 1
         /\ \A k \in 1 .. Len(s) - 1 : SubSeq(s, 1, Len(s) - 1)[k] = s[k]
<1>1. PICK S : s \in Seq(S)
  BY DEF IsStack
<1>2. Len(s) \in Nat \ {0}
  BY <1>1
<1> DEFINE b == SubSeq(s, 1, Len(s) - 1)
<1>3. b \in Seq(S) /\ Len(b) = Len(s) - 1 /\ \A k \in 1 .. Len(s) - 1 : b[k] = s[k]
  BY <1>1, <1>2
<1> HIDE DEF b
<1>4. ASSUME NEW k \in 1 .. Len(b)
      PROVE  IsFrame(b[k]) /\ (b[k].fn = "tag" => k > 1 /\ b[k - 1].fn = "jsx")
  <2>1. k \in 1 .. Len(s) /\ k \in 1 .. Len(s) - 1 /\ (k > 1 => k - 1 \in 1 .. Len(s) - 1)
    BY <1>2, <1>3
  <2>2. b[k] = s[k] /\ (k > 1 => b[k - 1] = s[k - 1])
    BY <1>3, <2>1
  <2>3. IsFrame(s[k]) /\ (s[k].fn = "tag" => k > 1 /\ s[k - 1].fn = "jsx")
    BY <2>1 DEF IsStack
  <2>. QED
    BY <2>2, <2>3
<1>5. IsStack(b)
  BY <1>3, <1>4 DEF IsStack
<1>. QED
  BY <1>3, <1>5 DEF b

\* A call is made.
LEMMA PushedIs ==
  ASSUME NEW s, IsStack(s), NEW f, IsFrame(f),
         f.fn = "tag" => s # << >> /\ s[Len(s)].fn = "jsx"
  PROVE  /\ IsStack(Append(s, f))
         /\ Append(s, f) # << >>
         /\ Append(s, f)[Len(Append(s, f))] = f
<1>1. PICK S : s \in Seq(S)
  BY DEF IsStack
<1>2. Len(s) \in Nat
  BY <1>1
<1> DEFINE b == Append(s, f)
           T == S \cup {f}
<1>3. s \in Seq(T) /\ f \in T
  BY <1>1
<1>4. b \in Seq(T) /\ Len(b) = Len(s) + 1 /\ (\A k \in 1 .. Len(s) : b[k] = s[k])
      /\ b[Len(s) + 1] = f
  BY <1>3
<1> HIDE DEF b, T
<1>5. ASSUME NEW k \in 1 .. Len(b)
      PROVE  IsFrame(b[k]) /\ (b[k].fn = "tag" => k > 1 /\ b[k - 1].fn = "jsx")
  <2>1. CASE k = Len(s) + 1
    <3>1. b[k] = f
      BY <2>1, <1>4
    <3>2. ASSUME f.fn = "tag" PROVE k > 1 /\ b[k - 1].fn = "jsx"
      <4>1. Len(s) # 0 /\ s[Len(s)].fn = "jsx"
        BY <3>2, <1>1
      <4>2. Len(s) \in 1 .. Len(s) /\ k - 1 = Len(s) /\ k > 1
        BY <4>1, <1>2, <2>1
      <4>. QED
        BY <4>1, <4>2, <1>4
    <3>. QED
      BY <3>1, <3>2
  <2>2. CASE k \in 1 .. Len(s)
    <3>1. b[k] = s[k] /\ (k > 1 => b[k - 1] = s[k - 1])
      BY <2>2, <1>2, <1>4
    <3>2. IsFrame(s[k]) /\ (s[k].fn = "tag" => k > 1 /\ s[k - 1].fn = "jsx")
      BY <2>2 DEF IsStack
    <3>. QED
      BY <3>1, <3>2
  <2>. QED
    BY <2>1, <2>2, <1>2, <1>4
<1>6. IsStack(b)
  BY <1>4, <1>5 DEF IsStack
<1>7. b # << >> /\ b[Len(b)] = f
  BY <1>2, <1>4
<1>. QED
  BY <1>6, <1>7 DEF b

\* The innermost call changes its local variables.
LEMMA ReplacedIs ==
  ASSUME NEW s, IsStack(s), s # << >>, NEW f, IsFrame(f), f.fn = s[Len(s)].fn
  PROVE  LET r == Append(SubSeq(s, 1, Len(s) - 1), f)
         IN  IsStack(r) /\ r # << >> /\ r[Len(r)] = f
<1> DEFINE b == SubSeq(s, 1, Len(s) - 1)
<1>1. IsStack(b) /\ Len(b) = Len(s) - 1 /\ \A k \in 1 .. Len(s) - 1 : b[k] = s[k]
  BY BelowIs
<1>2. Len(s) \in Nat \ {0}
  BY StackIs
<1>3. f.fn = "tag" => Len(s) > 1 /\ s[Len(s) - 1].fn = "jsx"
  <2>1. Len(s) \in 1 .. Len(s)
    BY <1>2
  <2>. QED
    BY <2>1, StackIs
<1> HIDE DEF b
<1>4. f.fn = "tag" => b # << >> /\ b[Len(b)].fn = "jsx"
  <2>1. Len(s) > 1 => Len(b) \in 1 .. Len(s) - 1 /\ Len(b) # 0
    BY <1>1, <1>2
  <2>2. b # << >> <=> Len(b) # 0
    BY <1>1, StackIs
  <2>. QED
    BY <2>1, <2>2, <1>1, <1>3
<1>5. IsStack(Append(b, f)) /\ Append(b, f) # << >> /\ Append(b, f)[Len(Append(b, f))] = f
  BY <1>1, <1>4, PushedIs
<1>. QED
  BY <1>5 DEF b

\* A literal's function goes on with its own variables changed.
LEMMA ResumedIs ==
  ASSUME NEW s, IsStack(s), s # << >>, NEW k
  PROVE  IsStack([SubSeq(s, 1, Len(s) - 1) EXCEPT ![Len(s) - 1].seg = k])
<1> DEFINE b == SubSeq(s, 1, Len(s) - 1)
           n == Len(s) - 1
           g == [b[n] EXCEPT !.seg = k]
           r == [b EXCEPT ![n] = g]
<1>1. IsStack(b) /\ Len(b) = n /\ n \in Nat
  BY BelowIs, StackIs
<1> HIDE DEF b, n
<1>2. /\ DOMAIN g = DOMAIN b[n]
      /\ "fn" \in DOMAIN b[n] => g.fn = b[n].fn
      /\ "depth" \in DOMAIN b[n] => g.depth = b[n].depth
      /\ "saved" \in DOMAIN b[n] => g.saved = b[n].saved
  OBVIOUS
<1> HIDE DEF g
<1>3. n # 0 => IsFrame(g) /\ g.fn = b[n].fn
  <2>1. n # 0 => IsFrame(b[n])
    BY <1>1, StackIs
  <2>. QED
    BY <1>2, <2>1 DEF IsFrame
<1>4. PICK S : b \in Seq(S)
  BY <1>1 DEF IsStack
<1> DEFINE T == S \cup {g}
<1>5. b \in Seq(T) /\ g \in T
  BY <1>4
<1> HIDE DEF T
<1>6. r \in Seq(T) /\ Len(r) = n /\ \A i \in 1 .. n : r[i] = IF i = n THEN g ELSE b[i]
  <2>1. CASE n = 0
    <3>1. DOMAIN b = {} /\ n \notin DOMAIN b
      BY <2>1, <1>1, <1>5
    <3>2. r = b
      BY <3>1, <1>5
    <3> HIDE DEF r
    <3>3. r \in Seq(T) /\ Len(r) = n
      BY <3>2, <1>1, <1>5
    <3>. QED
      BY <3>3, <2>1
  <2>2. CASE n # 0
    <3>1. n \in 1 .. Len(b)
      BY <2>2, <1>1
    <3>2. /\ r \in Seq(T) /\ Len(r) = Len(b)
          /\ \A i \in 1 .. Len(b) : r[i] = IF i = n THEN g ELSE b[i]
      BY <3>1, <1>5, ExceptSeq
    <3>. QED
      BY <3>2, <1>1
  <2>. QED
    BY <2>1, <2>2
<1> HIDE DEF r
<1>7. ASSUME NEW i \in 1 .. Len(r)
      PROVE  IsFrame(r[i]) /\ (r[i].fn = "tag" => i > 1 /\ r[i - 1].fn = "jsx")
  <2>1. i \in 1 .. n /\ i \in 1 .. Len(b) /\ n # 0
    BY <1>1, <1>6
  <2>2. r[i].fn = b[i].fn /\ IsFrame(r[i])
    BY <2>1, <1>1, <1>3, <1>6, StackIs
  <2>3. i > 1 => i - 1 \in 1 .. n /\ i - 1 # n
    BY <1>1, <2>1
  <2>4. i > 1 => r[i - 1] = b[i - 1]
    BY <2>3, <1>6
  <2>. QED
    BY <2>1, <2>2, <2>4, <1>1, StackIs
<1>8. IsStack(r)
  BY <1>6, <1>7 DEF IsStack
<1>. QED
  BY <1>8 DEF r, g, b, n

\* A literal's function is called, and what it calls in turn.
LEMMA OpenedStack ==
  ASSUME NEW s, IsStack(s), NEW fs, IsOpened(fs)
  PROVE  /\ IsStack(s \o fs)
         /\ s \o fs # << >>
         /\ (s \o fs)[Len(s \o fs)].fn # "code"
<1>1. PICK S : s \in Seq(S)
  BY DEF IsStack
<1>2. PICK F : fs \in Seq(F)
  BY DEF IsOpened
<1> DEFINE b == s \o fs
           T == S \cup F
<1>3. s \in Seq(T) /\ fs \in Seq(T)
  BY <1>1, <1>2
<1>4. Len(s) \in Nat /\ Len(fs) \in Nat \ {0}
  BY <1>1, <1>2 DEF IsOpened
<1> HIDE DEF T
<1>5. /\ b \in Seq(T) /\ Len(b) = Len(s) + Len(fs)
      /\ \A k \in 1 .. Len(s) + Len(fs) :
           b[k] = IF k <= Len(s) THEN s[k] ELSE fs[k - Len(s)]
  BY <1>3, ConcatProperties
<1> HIDE DEF b
<1>6. ASSUME NEW k \in 1 .. Len(b)
      PROVE  IsFrame(b[k]) /\ (b[k].fn = "tag" => k > 1 /\ b[k - 1].fn = "jsx")
  <2>1. CASE k \in 1 .. Len(s)
    <3>1. b[k] = s[k] /\ (k > 1 => b[k - 1] = s[k - 1])
      BY <2>1, <1>4, <1>5
    <3>. QED
      BY <3>1, <2>1, StackIs
  <2>2. CASE k - Len(s) \in 1 .. Len(fs)
    <3> DEFINE i == k - Len(s)
    <3>3. /\ k \in 1 .. Len(s) + Len(fs) /\ ~(k <= Len(s))
          /\ i > 1 => /\ k - 1 \in 1 .. Len(s) + Len(fs) /\ ~(k - 1 <= Len(s)) /\ k > 1
                      /\ (k - 1) - Len(s) = i - 1
      BY <2>2, <1>4
    <3>1. b[k] = fs[i] /\ (i > 1 => b[k - 1] = fs[i - 1]) /\ (i > 1 => k > 1)
      BY <3>3, <1>5
    <3>2. IsFrame(fs[i]) /\ (fs[i].fn = "tag" => i > 1 /\ fs[i - 1].fn = "jsx")
      BY <2>2 DEF IsOpened
    <3>. QED
      BY <3>1, <3>2
  <2>. QED
    BY <2>1, <2>2, <1>4, <1>5
<1>7. IsStack(b) /\ b # << >>
  BY <1>4, <1>5, <1>6 DEF IsStack
<1>8. b[Len(b)].fn # "code"
  <2>1. b[Len(b)] = fs[Len(fs)] /\ Len(fs) \in 1 .. Len(fs)
    BY <1>4, <1>5
  <2>. QED
    BY <2>1 DEF IsOpened
<1>. QED
  BY <1>7, <1>8 DEF b

-----------------------------------------------------------------------------
(* What the steps do to it *)

\* Where the scan is.
LEMMA StateIs ==
  ASSUME IInv
  PROVE  /\ Scannable /\ IsStack(stack) /\ regexOK \in BOOLEAN
         /\ Len(src) \in Nat /\ Eof = Len(src) + 1
         /\ at \in 1 .. Len(src) + 2 /\ at \in Nat \ {0}
         /\ stack # << >> => /\ IsFrame(Top) /\ Len(stack) \in Nat \ {0}
                             /\ Top.fn \in {"code", "free"} => at \in 1 .. Eof
         /\ stack # << >> /\ Top.fn = "tag" =>
              Len(stack) > 1 /\ stack[Len(stack) - 1].fn = "jsx"
<1>1. /\ Scannable /\ IsStack(stack) /\ regexOK \in BOOLEAN
      /\ Len(src) \in Nat /\ Eof = Len(src) + 1
      /\ at \in 1 .. Len(src) + 2
      /\ stack = << >> \/ Top.fn \in {"code", "free"} => at <= Eof
  BY SourceIs DEF IInv, Placed, Top
<1>2. stack # << >> => Len(stack) \in Nat \ {0} /\ Len(stack) \in 1 .. Len(stack)
  BY <1>1, StackIs
<1>3. stack # << >> => /\ IsFrame(Top)
                       /\ Top.fn = "tag" => Len(stack) > 1 /\ stack[Len(stack) - 1].fn = "jsx"
  BY <1>1, <1>2, StackIs DEF Top
<1>. QED
  BY <1>1, <1>2, <1>3

LEMMA NextState ==
  ASSUME Scannable, UNCHANGED input, Placed(stack', at'), regexOK' \in BOOLEAN
  PROVE  IInv'
<1>1. lang' = lang /\ src' = src
  BY DEF input
<1>. QED
  BY <1>1 DEF IInv, Placed, Scannable, Eof

\* A new innermost call's variables, and the offset of the scan.
LEMMA PlacedIs ==
  ASSUME Scannable, NEW s, IsStack(s), NEW k \in 1 .. Eof
  PROVE  Placed(s, k)
  BY SourceIs DEF Placed

LEMMA PlacedInText ==
  ASSUME Scannable, NEW s, IsStack(s), s # << >>, s[Len(s)].fn \notin {"code", "free"},
         NEW k \in 1 .. Len(src) + 2
  PROVE  Placed(s, k)
  BY DEF Placed

LEMMA KeepIs ==
  ASSUME IInv, stack # << >>, Top.fn \notin {"code", "free"},
         NEW j \in 1 .. Len(src) + 2, Keep(j)
  PROVE  IInv'
<1>1. at' = j /\ stack' = stack /\ UNCHANGED input /\ regexOK' = regexOK
  BY DEF Keep
<1>2. Placed(stack, j)
  BY StateIs, PlacedInText DEF Top
<1>. QED
  BY <1>1, <1>2, StateIs, NextState

\* The offset of a step on in a literal.
LEMMA KeepOn ==
  ASSUME IInv, stack # << >>, Top.fn \notin {"code", "free"}, Ch # NoSymbol,
         Keep(at + 1) \/ Keep(at + 2)
  PROVE  IInv'
<1>1. at \in 1 .. Len(src)
  BY CharIn DEF Ch
<1>2. at + 1 \in 1 .. Len(src) + 2 /\ at + 2 \in 1 .. Len(src) + 2
  BY <1>1, StateIs
<1>. QED
  BY <1>2, KeepIs

LEMMA EndIs ==
  ASSUME IInv, stack # << >>, NEW j \in Nat \ {0}, End(j)
  PROVE  IInv'
<1> DEFINE to == IF j > Eof THEN Eof ELSE j
<1>1. at' = to /\ stack' = Below /\ regexOK' = FALSE /\ UNCHANGED input
  BY DEF End
<1>2. to \in 1 .. Eof
  BY StateIs
<1>3. IsStack(Below)
  BY StateIs, BelowIs DEF Below
<1> HIDE DEF to
<1>4. Placed(Below, to)
  BY <1>2, <1>3, StateIs, PlacedIs
<1>. QED
  BY <1>1, <1>4, StateIs, NextState

LEMMA CodeFrameIs ==
  ASSUME regexOK \in BOOLEAN, NEW closer, NEW fmtStop
  PROVE  IsFrame(CodeFrame(closer, fmtStop)) /\ CodeFrame(closer, fmtStop).fn = "code"
  BY DEF CodeFrame, IsFrame

LEMMA HoleCodeIs ==
  ASSUME IInv, stack # << >>, NEW closer, NEW fmtStop, NEW text, NEW to \in 1 .. Eof,
         HoleCode(closer, fmtStop, text, to)
  PROVE  IInv'
<1> DEFINE f == CodeFrame(closer, fmtStop)
<1>1. /\ at' = to /\ stack' = Append(stack, f) /\ UNCHANGED input
      /\ regexOK' = (regexOK \/ Family = "JS")
  BY DEF HoleCode
<1>2. IsFrame(f) /\ f.fn = "code"
  BY StateIs, CodeFrameIs
<1> HIDE DEF f
<1>3. IsStack(Append(stack, f))
  BY <1>2, StateIs, PushedIs
<1>4. Placed(Append(stack, f), to)
  BY <1>3, StateIs, PlacedIs
<1>5. regexOK' \in BOOLEAN
  BY <1>1
<1>. QED
  BY <1>1, <1>4, <1>5, StateIs, NextState

LEMMA SkipIs ==
  ASSUME IInv, stack # << >>, Top.fn # "code", NEW j \in 1 .. Eof, Skip(j)
  PROVE  IInv'
<1> DEFINE f == [Top EXCEPT !.seg = j]
<1>1. at' = j /\ stack' = WithTop(f) /\ UNCHANGED input /\ UNCHANGED regexOK
  BY DEF Skip
<1>2. IsFrame(Top)
  BY StateIs
<1>3. IsFrame(f) /\ f.fn = Top.fn
  BY <1>2 DEF IsFrame
<1> HIDE DEF f
<1>4. IsStack(WithTop(f))
  BY <1>3, StateIs, ReplacedIs DEF WithTop, Below, Top
<1>5. Placed(WithTop(f), j)
  BY <1>4, StateIs, PlacedIs
<1>. QED
  BY <1>1, <1>5, StateIs, NextState

-----------------------------------------------------------------------------
(* The rounds of code *)

\* The innermost call is code, which reads a symbol.
LEMMA InCodeIs ==
  ASSUME IInv, InCode
  PROVE  /\ stack # << >> /\ Top.fn = "code" /\ IsFrame(Top)
         /\ {"depth", "saved"} \subseteq DOMAIN Top /\ Top.depth \in Nat
         /\ at \in 1 .. Len(src) /\ at + 1 \in 1 .. Eof
<1>1. stack # << >> /\ Top.fn = "code" /\ at # Eof
  BY DEF InCode, CodeReturns
<1>2. IsFrame(Top) /\ at \in 1 .. Eof /\ Len(src) \in Nat /\ Eof = Len(src) + 1
  BY <1>1, StateIs
<1>. QED
  BY <1>1, <1>2 DEF IsFrame

LEMMA RoundIs ==
  ASSUME IInv, stack # << >>, NEW f, IsFrame(f), f.fn = Top.fn, NEW k \in 1 .. Eof,
         at' = k, stack' = WithTop(f), UNCHANGED input, regexOK' \in BOOLEAN
  PROVE  IInv'
<1>1. IsStack(WithTop(f))
  BY StateIs, ReplacedIs DEF WithTop, Below, Top
<1>2. Placed(WithTop(f), k)
  BY <1>1, StateIs, PlacedIs
<1>. QED
  BY <1>2, StateIs, NextState

LEMMA TakeIs ==
  ASSUME IInv, stack # << >>, NEW f, IsFrame(f), f.fn = Top.fn, NEW t, IsToken(t), Take(t, f)
  PROVE  IInv'
<1> DEFINE s == WithTop(f)
<1>1. /\ at' = t.to /\ UNCHANGED input /\ regexOK' = (t.is = "open" /\ regexOK)
      /\ stack' = s \o IF t.is = "open" THEN t.frames ELSE << >>
  BY DEF Take
<1>2. regexOK' \in BOOLEAN
  BY <1>1
<1>3. IsStack(s)
  BY StateIs, ReplacedIs DEF WithTop, Below, Top
<1>4. t.to \in 1 .. Eof /\ (t.is = "open" => IsOpened(t.frames))
  BY DEF IsToken
<1> HIDE DEF s
<1>5. CASE t.is = "open"
  <2>1. stack' = s \o t.frames /\ IsStack(s \o t.frames)
    BY <1>1, <1>3, <1>4, <1>5, OpenedStack
  <2>2. Placed(s \o t.frames, t.to)
    BY <2>1, <1>4, StateIs, PlacedIs
  <2>. QED
    BY <2>1, <2>2, <1>1, <1>2, StateIs, NextState
<1>6. CASE t.is # "open"
  <2>1. s \o << >> = s
    <3>1. PICK S : s \in Seq(S)
      BY <1>3 DEF IsStack
    <3>. QED
      BY <3>1, ConcatEmptySeq
  <2>2. stack' = s
    BY <2>1, <1>1, <1>6
  <2>3. Placed(s, t.to)
    BY <1>3, <1>4, StateIs, PlacedIs
  <2>. QED
    BY <2>2, <2>3, <1>1, <1>2, StateIs, NextState
<1>. QED
  BY <1>5, <1>6

LEMMA BlankIs ==
  ASSUME IInv, Blank
  PROVE  IInv'
<1>1. InCode /\ at' = at + 1 /\ UNCHANGED input /\ stack' = stack /\ regexOK' = regexOK
  BY DEF Blank
<1>2. Placed(stack, at + 1)
  BY <1>1, InCodeIs, StateIs, PlacedIs
<1>. QED
  BY <1>1, <1>2, StateIs, NextState

LEMMA OpenBracketIs ==
  ASSUME IInv, OpenBracket
  PROVE  IInv'
<1> DEFINE conds == IF Ch = "("
                    THEN Append(Top.conds, Top.word \in {"if", "while", "for", "with"})
                    ELSE Top.conds
           f == [Top EXCEPT !.depth = @ + 1, !.conds = conds, !.word = NoSymbol]
<1>1. InCode /\ at' = at + 1 /\ UNCHANGED input /\ stack' = WithTop(f) /\ regexOK' = TRUE
  BY DEF OpenBracket
<1> HIDE DEF conds
<1>2. IsFrame(f) /\ f.fn = Top.fn
  BY <1>1, InCodeIs DEF IsFrame
<1> HIDE DEF f
<1>. QED
  BY <1>1, <1>2, InCodeIs, RoundIs

LEMMA CloseBracketIs ==
  ASSUME IInv, CloseBracket
  PROVE  IInv'
<1> DEFINE pops == Ch = ")" /\ Top.conds # << >>
           last == Len(Top.conds)
           conds == IF pops THEN SubSeq(Top.conds, 1, last - 1) ELSE Top.conds
           d == IF Top.depth > 0 THEN Top.depth - 1 ELSE 0
           f == [Top EXCEPT !.depth = d, !.conds = conds, !.word = NoSymbol]
<1>1. /\ InCode /\ at' = at + 1 /\ UNCHANGED input /\ stack' = WithTop(f)
      /\ regexOK' = (Ch = "}" \/ (pops /\ Top.conds[last]))
  BY Zenon DEF CloseBracket
<1>2. regexOK' \in BOOLEAN
  BY <1>1
<1> HIDE DEF conds, pops, last, f
<1>5. Top.depth \in Nat
  BY <1>1, InCodeIs
<1>4. d \in Nat
  BY <1>5
<1> HIDE DEF d
<1>3. IsFrame(f) /\ f.fn = Top.fn
  BY <1>1, <1>4, InCodeIs DEF IsFrame, f
<1>. QED
  BY <1>1, <1>2, <1>3, InCodeIs, RoundIs

\* A word that is remembered or forgotten.
LEMMA WordIs ==
  ASSUME IInv, InCode, NEW w
  PROVE  LET f == [Top EXCEPT !.word = w] IN IsFrame(f) /\ f.fn = Top.fn
  BY InCodeIs DEF IsFrame

LEMMA NameIs ==
  ASSUME IInv, Name
  PROVE  IInv'
<1> DEFINE k == NameEnd(at)
           w == IF k = at + 1 THEN Ch ELSE "name"
           t == Prefixed(at, k)
<1>1. /\ InCode
      /\ \/ Take(t, Top)
         \/ /\ at' = k /\ stack' = WithTop([Top EXCEPT !.word = w]) /\ UNCHANGED input
            /\ regexOK' = IF Family = "JS" THEN JSRegexKeyword(w) ELSE regexOK
  BY Zenon DEF Name
<1>2. k \in 1 .. Eof
  BY <1>1, InCodeIs, StateIs, NameEndIs
<1> HIDE DEF k
<1>3. IsToken(t)
  BY <1>1, <1>2, InCodeIs, StateIs, PrefixedIs
<1> HIDE DEF w, t
<1>4. ASSUME Take(t, Top)
      PROVE  IInv'
  BY <1>1, <1>3, <1>4, InCodeIs, TakeIs
<1>5. ASSUME at' = k, stack' = WithTop([Top EXCEPT !.word = w]), UNCHANGED input,
             regexOK' = IF Family = "JS" THEN JSRegexKeyword(w) ELSE regexOK
      PROVE  IInv'
  <2>1. regexOK' \in BOOLEAN
    <3>1. JSRegexKeyword(w) \in BOOLEAN
      BY DEF JSRegexKeyword
    <3>2. regexOK \in BOOLEAN
      BY StateIs
    <3>. QED
      BY <1>5, <3>1, <3>2, Zenon
  <2> DEFINE f == [Top EXCEPT !.word = w]
  <2>2. IsFrame(f) /\ f.fn = Top.fn
    BY <1>1, WordIs, Zenon
  <2>3. stack' = WithTop(f)
    BY <1>5
  <2> HIDE DEF f
  <2>. QED
    BY <2>1, <2>2, <2>3, <1>1, <1>2, <1>5, InCodeIs, RoundIs
<1>. QED
  BY <1>1, <1>4, <1>5

LEMMA NumeralIs ==
  ASSUME IInv, Numeral
  PROVE  IInv'
<1>1. InCode /\ Take(Number(at), NoWord)
  BY DEF Numeral
<1>2. IsFrame(NoWord) /\ NoWord.fn = Top.fn
  BY <1>1, WordIs DEF NoWord
<1>3. IsToken(Number(at))
  BY <1>1, InCodeIs, StateIs, NumberIs
<1>. QED
  BY <1>1, <1>2, <1>3, InCodeIs, TakeIs

LEMMA LexemeIs ==
  ASSUME IInv, Lexeme
  PROVE  IInv'
<1>1. InCode /\ Take(Token(at), NoWord)
  BY DEF Lexeme
<1>2. IsFrame(NoWord) /\ NoWord.fn = Top.fn
  BY <1>1, WordIs DEF NoWord
<1>3. IsToken(Token(at))
  BY <1>1, InCodeIs, StateIs, TokenIs
<1>. QED
  BY <1>1, <1>2, <1>3, InCodeIs, TakeIs

LEMMA PunctuationIs ==
  ASSUME IInv, Punctuation
  PROVE  IInv'
<1> DEFINE before == CharAt(at - 1)
           nonNull == Ch = "!" /\ (IsIdentByte(before) \/ before \in {")", "]"})
<1>1. /\ InCode /\ at' = at + 1 /\ stack' = WithTop(NoWord) /\ UNCHANGED input
      /\ regexOK' = IF Family = "JS" THEN JSRegexAfter(Ch) /\ ~nonNull ELSE regexOK
  BY Zenon DEF Punctuation
<1>2. regexOK' \in BOOLEAN
  <2>1. (JSRegexAfter(Ch) /\ ~nonNull) \in BOOLEAN
    BY DEF JSRegexAfter
  <2>2. CASE Family = "JS"
    BY <1>1, <2>1, <2>2, Zenon
  <2>3. CASE Family # "JS"
    BY <1>1, <2>3, StateIs, Zenon
  <2>. QED
    BY <2>2, <2>3
<1>3. IsFrame(NoWord) /\ NoWord.fn = Top.fn
  BY <1>1, WordIs DEF NoWord
<1>. QED
  BY <1>1, <1>2, <1>3, InCodeIs, RoundIs

-----------------------------------------------------------------------------
(* The returns of code *)

LEMMA AfterOpenTagIs ==
  ASSUME Scannable, NEW i \in Nat \ {0}
  PROVE  AfterOpenTag(i) \in 1 .. Eof
<1> DEFINE S == {x \in i .. Len(src) : At(x, <<"<", "?">>)}
           k == FirstOf[S]
<1>1. AfterOpenTag(i) = IF k = Eof THEN Eof
                        ELSE IF CharAt(k + 2) = "php" THEN k + 3
                        ELSE IF CharAt(k + 2) = "=" THEN k + 3
                        ELSE k + 2
  BY Zenon DEF AfterOpenTag, First
<1>2. Len(src) \in Nat /\ Eof = Len(src) + 1
  BY SourceIs
<1>3. \A x \in S : x \in 1 .. Len(src) /\ At(x, <<"<", "?">>)
  BY <1>2
<1> HIDE DEF S
<1>4. k \in 1 .. Eof /\ (k \in S \/ k = Eof)
  BY <1>3, FirstOfIs
<1>5. ASSUME k # Eof
      PROVE  k + 2 \in 1 .. Eof
  <2>1. k \in 1 .. Len(src) /\ At(k, <<"<", "?">>)
    BY <1>3, <1>4, <1>5
  <2> HIDE DEF k
  <2>2. k \in Nat \ {0}
    BY <2>1, <1>2
  <2>3. "?" # NoSymbol
    BY Marks, Zenon
  <2>. QED
    BY <2>1, <2>2, <2>3, AtTwo, Zenon
<1>6. "php" # NoSymbol /\ "=" # NoSymbol
  BY Marks, Zenon
<1> HIDE DEF k
<1>7. ASSUME CharAt(k + 2) # NoSymbol
      PROVE  k + 3 \in 1 .. Eof
  <2>1. k + 2 \in 1 .. Len(src)
    BY <1>7, CharIn
  <2>. QED
    BY <2>1, <1>2, <1>4
<1>8. CharAt(k + 2) \in {"php", "="} => CharAt(k + 2) # NoSymbol
  BY <1>6, Zenon
<1>9. Eof \in 1 .. Eof
  BY <1>2
<1>. QED
  BY <1>1, <1>5, <1>7, <1>8, <1>9, Zenon

LEMMA HoleClosedIs ==
  ASSUME Scannable, NEW f, NEW k \in 1 .. Len(src) + 2
  PROVE  HoleClosed(f, k) \in 1 .. Eof
<1> DEFINE braces == IF f.fn = "csraw" THEN f.dollars ELSE 1
           S == {x \in k .. Len(src) : src[x] # "}" \/ x = k + braces}
<1>1. HoleClosed(f, k) = FirstOf[S]
  BY Zenon DEF HoleClosed, First
<1>2. S \subseteq k .. Len(src)
  BY Zenon
<1> HIDE DEF S
<1>3. S \subseteq 1 .. Len(src)
  BY <1>2, SourceIs
<1>. QED
  BY <1>1, <1>3, FirstOfIs

\* Code returns to its caller, or the scan is over.
LEMMA CodeEndsIs ==
  ASSUME IInv, CodeEnds
  PROVE  /\ stack # << >> /\ Top.fn = "code" /\ Top.saved \in BOOLEAN
         /\ at \in 1 .. Eof
<1>1. stack # << >> /\ Top.fn = "code"
  BY DEF CodeEnds
<1>2. IsFrame(Top) /\ at \in 1 .. Eof
  BY <1>1, StateIs
<1>. QED
  BY <1>1, <1>2 DEF IsFrame

LEMMA ResumeAtIs ==
  ASSUME IInv, stack # << >>, NEW k \in 1 .. Eof, ResumeAt(k), regexOK' \in BOOLEAN
  PROVE  IInv'
<1>1. at' = k /\ stack' = [Below EXCEPT ![Len(stack) - 1].seg = k] /\ UNCHANGED input
  BY DEF ResumeAt
<1> DEFINE r == [Below EXCEPT ![Len(stack) - 1].seg = k]
<1>2. IsStack(r)
  BY StateIs, ResumedIs DEF Below
<1>3. stack' = r
  BY <1>1
<1> HIDE DEF r
<1>4. Placed(r, k)
  BY <1>2, StateIs, PlacedIs
<1>. QED
  BY <1>1, <1>3, <1>4, StateIs, NextState

LEMMA FinishIs ==
  ASSUME IInv, Finish
  PROVE  IInv'
<1>1. stack' = << >> /\ at' = at /\ regexOK' = regexOK /\ UNCHANGED input /\ CodeEnds
  BY DEF Finish
<1>2. IsStack(<< >>)
  BY DEF IsStack
<1>3. Placed(<< >>, at)
  BY <1>1, <1>2, CodeEndsIs, StateIs, PlacedIs
<1>. QED
  BY <1>1, <1>3, StateIs, NextState

LEMMA OneFrame ==
  ASSUME NEW f, IsFrame(f), f.fn # "tag"
  PROVE  IsStack(<<f>>)
<1> DEFINE s == <<f>>
<1>1. s \in Seq({f}) /\ Len(s) = 1 /\ s[1] = f
  OBVIOUS
<1> HIDE DEF s
<1>2. \A k \in 1 .. Len(s) : s[k] = f
  BY <1>1
<1>. QED
  BY <1>1, <1>2 DEF IsStack, s

LEMMA CloseTagIs ==
  ASSUME IInv, CloseTag
  PROVE  IInv'
<1> DEFINE f == CodeFrame(NoSymbol, FALSE)
<1>1. /\ CodeEnds /\ at' = AfterOpenTag(at + 2) /\ stack' = <<f>>
      /\ UNCHANGED input /\ regexOK' = regexOK
  BY Zenon DEF CloseTag
<1>2. IsFrame(f) /\ f.fn = "code"
  BY StateIs, CodeFrameIs
<1> HIDE DEF f
<1>3. IsStack(<<f>>)
  BY <1>2, OneFrame
<1>4. at + 2 \in Nat \ {0}
  BY StateIs
<1>5. AfterOpenTag(at + 2) \in 1 .. Eof
  BY <1>4, StateIs, AfterOpenTagIs
<1>6. Placed(<<f>>, AfterOpenTag(at + 2))
  BY <1>3, <1>5, StateIs, PlacedIs
<1>. QED
  BY <1>1, <1>6, StateIs, NextState

LEMMA HoleEndsIs ==
  ASSUME IInv, HoleEnds
  PROVE  IInv'
<1> DEFINE k == IF at < Eof THEN at + 1 ELSE at
<1>1. CodeEnds /\ ResumeAt(k) /\ regexOK' = Top.saved
  BY Zenon DEF HoleEnds
<1>3. k \in 1 .. Eof
  BY <1>1, CodeEndsIs, StateIs
<1> HIDE DEF k
<1>. QED
  BY <1>1, <1>3, CodeEndsIs, ResumeAtIs

LEMMA FmtHoleEndsIs ==
  ASSUME IInv, FmtHoleEnds
  PROVE  IInv'
<1> DEFINE k == IF Ch = "!" THEN IdentEnd(at + 1) ELSE at
           f == [fn |-> "spec", seg |-> k]
<1>1. /\ CodeEnds /\ regexOK' = regexOK
      /\ \/ at' = k /\ stack' = Append(Below, f) /\ UNCHANGED input
         \/ ResumeAt(HoleClosed(Caller, k))
  BY Zenon DEF FmtHoleEnds
<1>2. stack # << >>
  BY <1>1, CodeEndsIs
<1>3. k \in 1 .. Eof
  <2>1. at + 1 \in Nat \ {0} /\ at \in 1 .. Eof
    BY <1>1, CodeEndsIs, StateIs
  <2>2. IdentEnd(at + 1) \in 1 .. Eof
    BY <2>1, StateIs, IdentEndIs
  <2>. QED
    BY <2>1, <2>2
<1>4. IsFrame(f) /\ f.fn # "tag"
  BY DEF IsFrame
<1> HIDE DEF k, f
<1>5. ASSUME at' = k, stack' = Append(Below, f), UNCHANGED input
      PROVE  IInv'
  <2>1. IsStack(Below)
    BY <1>2, StateIs, BelowIs DEF Below
  <2>2. IsStack(Append(Below, f))
    BY <2>1, <1>4, PushedIs
  <2>3. Placed(Append(Below, f), k)
    BY <2>2, <1>3, StateIs, PlacedIs
  <2>. QED
    BY <2>3, <1>1, <1>5, StateIs, NextState
<1>6. ASSUME ResumeAt(HoleClosed(Caller, k))
      PROVE  IInv'
  <2>1. k \in 1 .. Len(src) + 2
    BY <1>3, StateIs
  <2>2. HoleClosed(Caller, k) \in 1 .. Eof
    BY <2>1, StateIs, HoleClosedIs
  <2>. QED
    BY <2>2, <1>1, <1>2, <1>6, StateIs, ResumeAtIs
<1>. QED
  BY <1>1, <1>5, <1>6

LEMMA InitIs ==
  ASSUME Init
  PROVE  IInv
<1> DEFINE f == [fn |-> "code", closer |-> NoSymbol, fmtStop |-> FALSE, depth |-> 0,
                 conds |-> << >>, word |-> NoSymbol, saved |-> regexOK]
<1>1. PICK in \in Inputs : lang = in.lang /\ src = in.src
  BY DEF Init
<1>2. Scannable
  BY <1>1, InputsAssumption DEF Scannable
<1>3. /\ regexOK = (Family = "JS") /\ stack = <<f>>
      /\ at = AfterOpenTag(1) \/ at = 1
  BY Zenon DEF Init
<1>4. regexOK \in BOOLEAN
  BY <1>3
<1>5. IsFrame(f) /\ f.fn = "code"
  BY <1>4 DEF IsFrame
<1> HIDE DEF f
<1>6. IsStack(stack)
  BY <1>3, <1>5, OneFrame
<1>7. at \in 1 .. Eof
  BY <1>2, <1>3, AfterOpenTagIs, SourceIs
<1>. QED
  BY <1>2, <1>4, <1>6, <1>7, PlacedIs DEF IInv

-----------------------------------------------------------------------------
(* The rounds of the literals *)

\* A literal ends here or after the next symbol.
LEMMA EndHere ==
  ASSUME IInv, stack # << >>, End(at) \/ End(at + 1)
  PROVE  IInv'
<1>1. at \in Nat \ {0} /\ at + 1 \in Nat \ {0}
  BY StateIs
<1>. QED
  BY <1>1, EndIs

LEMMA HoleIs ==
  ASSUME IInv, stack # << >>, NEW to \in 1 .. Eof, Hole(to) \/ FmtHole(to)
  PROVE  IInv'
<1>1. CASE Hole(to)
  BY <1>1, HoleCodeIs DEF Hole
<1>2. CASE FmtHole(to)
  BY <1>2, HoleCodeIs DEF FmtHole
<1>. QED
  BY <1>1, <1>2

\* What follows the symbol or the pair of symbols that the scan is at.
LEMMA AfterCh ==
  ASSUME IInv, Ch # NoSymbol
  PROVE  at \in 1 .. Len(src) /\ at + 1 \in 1 .. Eof
  BY StateIs, AfterChar DEF Ch

LEMMA AfterPair ==
  ASSUME IInv, NEW x, NEW y, At(at, <<x, y>>), y # NoSymbol
  PROVE  at \in 1 .. Len(src) /\ at + 1 \in 1 .. Eof /\ at + 2 \in 1 .. Eof
<1>1. at + 2 \in 1 .. Eof
  BY StateIs, AtTwo
<1>. QED
  BY <1>1, StateIs

\* The scan is in a literal.
LEMMA InText ==
  ASSUME NEW fn, fn \notin {"code", "free"}, In(fn)
  PROVE  stack # << >> /\ Top.fn = fn /\ Top.fn \notin {"code", "free"}
  BY DEF In

LEMMA TemplateIs ==
  ASSUME IInv, Template
  PROVE  IInv'
<1>1. /\ In("template")
      /\ \/ End(at) \/ End(at + 1)
         \/ Ch # NoSymbol /\ (Keep(at + 1) \/ Keep(at + 2))
         \/ At(at, <<"$", "{">>) /\ Hole(at + 2)
  <2>1. Ch = "\\" => Ch # NoSymbol
    BY Marks, Zenon
  <2>2. Ch \notin {NoSymbol, "\\", Backtick} => Ch # NoSymbol
    OBVIOUS
  <2>. QED
    BY <2>1, <2>2, Zenon DEF Template
<1>2. stack # << >> /\ Top.fn \notin {"code", "free"}
  BY <1>1, InText
<1>3. At(at, <<"$", "{">>) => at + 2 \in 1 .. Eof
  <2>1. "{" # NoSymbol
    BY Marks, Zenon
  <2>. QED
    BY <2>1, AfterPair, Zenon
<1>. QED
  BY <1>1, <1>2, <1>3, EndHere, KeepOn, HoleIs, Zenon

LEMMA KotlinTextIs ==
  ASSUME IInv, KotlinText
  PROVE  IInv'
<1> DEFINE S == {x \in (at + 3) .. Len(src) : src[x] # "\""}
           to == IF Top.raw THEN FirstOf[S] ELSE at + 1
<1>1. /\ In("kotlin")
      /\ \/ End(at) \/ End(to)
         \/ Ch # NoSymbol /\ (Keep(at + 1) \/ Keep(at + 2))
         \/ At(at, <<"$", "{">>) /\ Hole(at + 2)
         \/ Skip(IdentEnd(at + 2))
  <2>1. Ch = "\\" => Ch # NoSymbol
    BY Marks, Zenon
  <2>. QED
    BY <2>1, Zenon DEF KotlinText, First
<1>2. stack # << >> /\ Top.fn \notin {"code", "free"} /\ Top.fn # "code"
  BY <1>1, InText
<1>3. At(at, <<"$", "{">>) => at + 2 \in 1 .. Eof
  <2>1. "{" # NoSymbol
    BY Marks, Zenon
  <2>. QED
    BY <2>1, AfterPair, Zenon
<1>4. S \subseteq (at + 3) .. Len(src)
  OBVIOUS
<1> HIDE DEF S
<1>5. FirstOf[S] \in 1 .. Eof
  <2>1. S \subseteq 1 .. Len(src)
    BY <1>4, StateIs
  <2>. QED
    BY <2>1, StateIs, FirstOfIs
<1>6. to \in Nat \ {0}
  BY <1>5, StateIs
<1> HIDE DEF to
<1>7. IdentEnd(at + 2) \in 1 .. Eof
  <2>1. at + 2 \in Nat \ {0}
    BY StateIs
  <2>. QED
    BY <2>1, StateIs, IdentEndIs
<1>. QED
  BY <1>1, <1>2, <1>3, <1>6, <1>7, EndHere, EndIs, KeepOn, HoleIs, SkipIs, Zenon

LEMMA HashesEndIs ==
  ASSUME Scannable, NEW i \in Nat \ {0}, NEW n
  PROVE  HashesEnd(i, n) \in 1 .. Eof
<1> DEFINE S == {x \in i .. Len(src) : src[x] # "#" \/ x = i + n}
<1>1. HashesEnd(i, n) = FirstOf[S]
  BY Zenon DEF HashesEnd, First
<1>2. S \subseteq i .. Len(src)
  BY Zenon
<1> HIDE DEF S
<1>3. S \subseteq 1 .. Len(src)
  BY <1>2, SourceIs
<1>. QED
  BY <1>1, <1>3, FirstOfIs

LEMMA SwiftTextIs ==
  ASSUME IInv, SwiftText
  PROVE  IInv'
<1> DEFINE esc == HashesEnd(at + 1, Top.hashes)
           quotes == IF Top.multi THEN 3 ELSE 1
           end == HashesEnd(at + quotes, Top.hashes)
<1>1. /\ In("swift")
      /\ \/ End(at) \/ End(end)
         \/ CharAt(esc) = "(" /\ HoleCode(")", FALSE, at, esc + 1)
         \/ Keep(esc + 1)
         \/ Ch # NoSymbol /\ Keep(at + 1)
  BY Zenon DEF SwiftText
<1>2. stack # << >> /\ Top.fn \notin {"code", "free"}
  BY <1>1, InText
<1>3. at + 1 \in Nat \ {0} /\ at + quotes \in Nat \ {0}
  BY StateIs
<1> HIDE DEF quotes
<1>4. esc \in 1 .. Eof /\ end \in 1 .. Eof
  BY <1>3, StateIs, HashesEndIs, Zenon
<1> HIDE DEF esc, end
<1>5. end \in Nat \ {0} /\ esc + 1 \in 1 .. Len(src) + 2
  BY <1>4, StateIs
<1>6. CharAt(esc) = "(" => esc + 1 \in 1 .. Eof
  <2>1. "(" # NoSymbol
    BY Marks, Zenon
  <2>. QED
    BY <2>1, StateIs, AfterChar, Zenon
<1>. QED
  BY <1>1, <1>2, <1>5, <1>6, EndHere, EndIs, KeepIs, KeepOn, HoleCodeIs, Zenon

LEMMA PythonTextIs ==
  ASSUME IInv, PythonText
  PROVE  IInv'
<1> DEFINE S == {x \in at .. Len(src) : src[x] = "}"}
           name == FirstOf[S]
           named == Top.fmt /\ ~Top.raw /\ At(at + 1, <<"N", "{">>)
           braced == Top.fmt /\ Top.raw /\ CharAt(at + 1) = "{"
           to == IF braced THEN at + 1 ELSE IF named /\ name # Eof THEN name + 1 ELSE at + 2
           quotes == IF Top.triple THEN 3 ELSE 1
<1>1. /\ In("python")
      /\ \/ End(at) \/ End(at + quotes)
         \/ Ch # NoSymbol /\ Keep(to)
         \/ Ch # NoSymbol /\ (Keep(at + 1) \/ Keep(at + 2))
         \/ Ch # NoSymbol /\ FmtHole(at + 1)
  <2>1. "\\" # NoSymbol /\ "{" # NoSymbol
    BY Marks, Zenon
  <2>2. Ch = "\\" => Ch # NoSymbol
    BY <2>1, Zenon
  <2>3. Ch = "{" => Ch # NoSymbol
    BY <2>1, Zenon
  <2>4. Ch \notin {NoSymbol, "\\"} => Ch # NoSymbol
    OBVIOUS
  <2>. QED
    BY <2>2, <2>3, <2>4, Zenon DEF PythonText, First
<1>2. stack # << >> /\ Top.fn \notin {"code", "free"}
  BY <1>1, InText
<1>3. at + quotes \in Nat \ {0}
  BY StateIs
<1> HIDE DEF quotes, braced, named
<1>4. S \subseteq at .. Len(src)
  OBVIOUS
<1> HIDE DEF S
<1>5. name \in 1 .. Eof
  <2>1. S \subseteq 1 .. Len(src)
    BY <1>4, StateIs
  <2>. QED
    BY <2>1, StateIs, FirstOfIs
<1> HIDE DEF name
<1>6. Ch # NoSymbol => to \in 1 .. Len(src) + 2 /\ at + 1 \in 1 .. Eof
  <2>1. Ch # NoSymbol => at \in 1 .. Len(src) /\ at + 1 \in 1 .. Eof
    BY AfterCh, Zenon
  <2>2. name + 1 \in 1 .. Len(src) + 2
    BY <1>5, StateIs
  <2>3. at \in 1 .. Len(src) => at + 1 \in 1 .. Len(src) + 2 /\ at + 2 \in 1 .. Len(src) + 2
    BY StateIs
  <2>. QED
    BY <2>1, <2>2, <2>3, Zenon
<1> HIDE DEF to
<1>. QED
  BY <1>1, <1>2, <1>3, <1>6, EndHere, EndIs, KeepIs, KeepOn, HoleIs, Zenon

LEMMA PHPVarEndIs ==
  ASSUME IInv
  PROVE  PHPVarEnd \in 1 .. Eof
<1> DEFINE j == IdentEnd(at + 2)
           S == {x \in (j + 1) .. Len(src) : src[x] \in {"]", "\n", "\""}}
           e == FirstOf[S]
<1>1. \/ PHPVarEnd = IdentEnd(j + 3)
      \/ PHPVarEnd = IdentEnd(j + 4)
      \/ CharAt(e) = "]" /\ PHPVarEnd = e + 1
      \/ PHPVarEnd = j
  <2> DEFINE A == At(j, <<"-", ">">>) /\ IsIdentStart(CharAt(j + 2))
             B == At(j, <<"?", "-", ">">>) /\ IsIdentStart(CharAt(j + 3))
             C == CharAt(j) = "[" /\ CharAt(e) = "]"
             x == IdentEnd(j + 3)
             y == IdentEnd(j + 4)
             z == e + 1
  <2>1. PHPVarEnd = CASE A -> x [] B -> y [] C -> z [] OTHER -> j
    BY Zenon DEF PHPVarEnd, First
  <2>2. C => CharAt(e) = "]"
    OBVIOUS
  <2> HIDE DEF A, B, C, x, y, z, j, e
  <2>3. PHPVarEnd = x \/ PHPVarEnd = y \/ (C /\ PHPVarEnd = z) \/ PHPVarEnd = j
    BY <2>1
  <2>. QED
    BY <2>2, <2>3, Zenon DEF x, y, z
<1>2. at + 2 \in Nat \ {0}
  BY StateIs
<1>3. j \in 1 .. Eof
  BY <1>2, StateIs, IdentEndIs
<1> HIDE DEF e, j
<1>4. j + 3 \in Nat \ {0} /\ j + 4 \in Nat \ {0}
  BY <1>3, StateIs
<1>5. IdentEnd(j + 3) \in 1 .. Eof /\ IdentEnd(j + 4) \in 1 .. Eof
  BY <1>4, StateIs, IdentEndIs
<1>6. CharAt(e) = "]" => e + 1 \in 1 .. Eof
  <2>1. "]" # NoSymbol
    BY Marks, Zenon
  <2>. QED
    BY <2>1, StateIs, AfterChar, Zenon
<1>. QED
  BY <1>1, <1>3, <1>5, <1>6, Zenon

LEMMA PHPVarIs ==
  ASSUME IInv, stack # << >>, Top.fn # "code", PHPVar
  PROVE  IInv'
<1>1. \/ At(at, <<"{", "$">>) /\ Hole(at + 1)
      \/ At(at, <<"$", "{">>) /\ Hole(at + 2)
      \/ Skip(PHPVarEnd)
  BY Zenon DEF PHPVar
<1>2. "{" # NoSymbol /\ "$" # NoSymbol
  BY Marks, Zenon
<1>3. At(at, <<"{", "$">>) => at + 1 \in 1 .. Eof
  BY <1>2, AfterPair, Zenon
<1>4. At(at, <<"$", "{">>) => at + 2 \in 1 .. Eof
  BY <1>2, AfterPair, Zenon
<1>5. PHPVarEnd \in 1 .. Eof
  BY PHPVarEndIs
<1>. QED
  BY <1>1, <1>3, <1>4, <1>5, HoleIs, SkipIs, Zenon

LEMMA PHPTextIs ==
  ASSUME IInv, PHPText
  PROVE  IInv'
<1>1. /\ In("php")
      /\ \/ End(at) \/ End(at + 1)
         \/ Ch # NoSymbol /\ (Keep(at + 1) \/ Keep(at + 2))
         \/ PHPVar
  <2>1. Ch = "\\" => Ch # NoSymbol
    BY Marks, Zenon
  <2>2. Ch \notin {NoSymbol, "\\", Top.quote} => Ch # NoSymbol
    OBVIOUS
  <2>. QED
    BY <2>1, <2>2, Zenon DEF PHPText
<1>2. stack # << >> /\ Top.fn \notin {"code", "free"} /\ Top.fn # "code"
  BY <1>1, InText
<1>. QED
  BY <1>1, <1>2, EndHere, KeepOn, PHPVarIs, Zenon

LEMMA HeredocIs ==
  ASSUME IInv, Heredoc
  PROVE  IInv'
<1> DEFINE S == {x \in at .. Len(src) : src[x] \notin {" ", "\t"}}
           j == FirstOf[S]
           On(k) == /\ at' = k /\ \E starts : stack' = WithTop([Top EXCEPT !.lineStart = starts])
                    /\ UNCHANGED input /\ UNCHANGED regexOK
<1>1. /\ In("heredoc")
      /\ \/ End(at) \/ End(j + 1)
         \/ On(at)
         \/ Ch = "\\" /\ On(at + 2)
         \/ at < Eof /\ On(at + 1)
         \/ PHPVar
  <2>1. /\ In("heredoc")
        /\ \/ End(at) \/ End(j + 1)
           \/ /\ at' = at /\ stack' = WithTop([Top EXCEPT !.lineStart = FALSE])
              /\ UNCHANGED <<input, masked, regexOK>>
           \/ /\ Ch = "\\" /\ at' = at + 2
              /\ stack' = WithTop([Top EXCEPT !.lineStart = FALSE])
              /\ UNCHANGED <<input, masked, regexOK>>
           \/ /\ ~(at >= Eof) /\ at' = at + 1
              /\ stack' = WithTop([Top EXCEPT !.lineStart = (Ch = "\n")])
              /\ UNCHANGED <<input, masked, regexOK>>
           \/ PHPVar
    BY Zenon DEF Heredoc, First, AtEnd
  <2>2. ~(at >= Eof) => at < Eof
    BY StateIs
  <2>. QED
    BY <2>1, <2>2, Zenon
<1>2. stack # << >> /\ Top.fn = "heredoc" /\ Top.fn \notin {"code", "free"} /\ Top.fn # "code"
  BY <1>1, InText
<1>3. S \subseteq at .. Len(src)
  OBVIOUS
<1> HIDE DEF S
<1>4. j + 1 \in Nat \ {0}
  <2>1. S \subseteq 1 .. Len(src)
    BY <1>3, StateIs
  <2>2. j \in 1 .. Eof
    BY <2>1, StateIs, FirstOfIs
  <2>. QED
    BY <2>2, StateIs
<1> HIDE DEF j
<1>5. ASSUME NEW k \in 1 .. Len(src) + 2, On(k)
      PROVE  IInv'
  <2>1. PICK starts : stack' = WithTop([Top EXCEPT !.lineStart = starts])
    BY <1>5
  <2> DEFINE f == [Top EXCEPT !.lineStart = starts]
  <2>2. stack' = WithTop(f) /\ at' = k /\ UNCHANGED input /\ regexOK' = regexOK
    BY <2>1, <1>5
  <2>3. IsFrame(f) /\ f.fn = Top.fn
    BY <1>2, StateIs DEF IsFrame
  <2> HIDE DEF f
  <2>4. IsStack(WithTop(f)) /\ WithTop(f) # << >> /\ WithTop(f)[Len(WithTop(f))] = f
    BY <1>2, <2>3, StateIs, ReplacedIs DEF WithTop, Below, Top
  <2>5. Placed(WithTop(f), k)
    BY <1>2, <2>3, <2>4, StateIs, PlacedInText
  <2>. QED
    BY <2>2, <2>5, StateIs, NextState
<1> HIDE DEF On
<1>6. at \in 1 .. Len(src) + 2 /\ (at < Eof => at + 1 \in 1 .. Len(src) + 2)
  BY StateIs
<1>7. Ch = "\\" => at + 2 \in 1 .. Len(src) + 2
  <2>1. "\\" # NoSymbol
    BY Marks, Zenon
  <2>2. ASSUME Ch # NoSymbol PROVE at + 2 \in 1 .. Len(src) + 2
    BY <2>2, AfterCh, StateIs
  <2>. QED
    BY <2>1, <2>2, Zenon
<1>. QED
  BY <1>1, <1>2, <1>4, <1>5, <1>6, <1>7, EndHere, EndIs, PHPVarIs, Zenon

LEMMA InterpTextIs ==
  ASSUME IInv, InterpText
  PROVE  IInv'
<1>1. /\ In("interp")
      /\ \/ End(at) \/ End(at + 1)
         \/ Ch # NoSymbol /\ (Keep(at + 1) \/ Keep(at + 2))
         \/ Ch # NoSymbol /\ FmtHole(at + 1)
  <2>1. "\\" # NoSymbol /\ "{" # NoSymbol /\ "}" # NoSymbol /\ "\"" # NoSymbol
    BY Marks, Zenon
  <2>2. Ch = "\\" => Ch # NoSymbol
    BY <2>1, Zenon
  <2>3. Ch = "{" => Ch # NoSymbol
    BY <2>1, Zenon
  <2>4. Ch \in {"{", "}"} \cup (IF Top.verbatim THEN {"\""} ELSE {}) => Ch # NoSymbol
    BY <2>1, Zenon
  <2>. QED
    BY <2>2, <2>3, <2>4, Zenon DEF InterpText
<1>2. stack # << >> /\ Top.fn \notin {"code", "free"}
  BY <1>1, InText
<1>3. Ch # NoSymbol => at + 1 \in 1 .. Eof
  BY AfterCh, Zenon
<1>. QED
  BY <1>1, <1>2, <1>3, EndHere, KeepOn, HoleIs, Zenon

LEMMA RawTextIs ==
  ASSUME IInv, RawText
  PROVE  IInv'
<1> DEFINE S == {x \in at .. Len(src) : src[x] # Ch}
           run == FirstOf[S]
           to == IF Top.dollars > 0 THEN run ELSE at + 1
<1>1. /\ In("csraw")
      /\ \/ End(at) \/ End(run)
         \/ Keep(run)
         \/ HoleCode("}", TRUE, run - Top.dollars, run)
         \/ Ch # NoSymbol /\ Keep(to)
         \/ Ch # NoSymbol /\ Keep(at + 1)
  <2>1. Ch = "{" => Ch # NoSymbol
    BY Marks, Zenon
  <2>2. Ch \notin {NoSymbol, "\"", "{"} => Ch # NoSymbol
    BY Zenon
  <2>. QED
    BY <2>1, <2>2, Zenon DEF RawText, First
<1>2. stack # << >> /\ Top.fn \notin {"code", "free"}
  BY <1>1, InText
<1>3. S \subseteq at .. Len(src)
  OBVIOUS
<1> HIDE DEF S
<1>4. run \in 1 .. Eof
  <2>1. S \subseteq 1 .. Len(src)
    BY <1>3, StateIs
  <2>. QED
    BY <2>1, StateIs, FirstOfIs
<1> HIDE DEF run
<1>5. run \in Nat \ {0} /\ run \in 1 .. Len(src) + 2
  BY <1>4, StateIs
<1>6. Ch # NoSymbol => to \in 1 .. Len(src) + 2
  <2>1. Ch # NoSymbol => at + 1 \in 1 .. Eof
    BY AfterCh, Zenon
  <2>2. at + 1 \in 1 .. Eof => at + 1 \in 1 .. Len(src) + 2
    BY StateIs
  <2>. QED
    BY <2>1, <2>2, <1>5, Zenon
<1> HIDE DEF to
<1>. QED
  BY <1>1, <1>2, <1>4, <1>5, <1>6, EndHere, EndIs, KeepIs, KeepOn, HoleCodeIs, Zenon

LEMMA SpecIs ==
  ASSUME IInv, Spec
  PROVE  IInv'
<1> DEFINE close == HoleClosed(stack[Len(stack) - 1], at)
           r == [Below EXCEPT ![Len(stack) - 1].seg = close]
<1>1. /\ In("spec")
      /\ \/ at' = close /\ stack' = r /\ UNCHANGED input /\ UNCHANGED regexOK
         \/ Ch = "{" /\ FmtHole(at + 1)
         \/ ~(at >= Eof) /\ Keep(at + 1)
  BY Zenon DEF Spec, AtEnd
<1>2. stack # << >> /\ Top.fn \notin {"code", "free"}
  BY <1>1, InText
<1>3. IsStack(r)
  BY <1>2, StateIs, ResumedIs DEF Below
<1>4. close \in 1 .. Eof
  BY StateIs, HoleClosedIs
<1> HIDE DEF close, r
<1>5. Placed(r, close)
  BY <1>3, <1>4, StateIs, PlacedIs
<1>6. ASSUME at' = close, stack' = r, UNCHANGED input, UNCHANGED regexOK
      PROVE  IInv'
  BY <1>5, <1>6, StateIs, NextState
<1>7. Ch = "{" => at + 1 \in 1 .. Eof
  <2>1. "{" # NoSymbol
    BY Marks, Zenon
  <2>. QED
    BY <2>1, AfterCh, Zenon
<1>8. ~(at >= Eof) => at + 1 \in 1 .. Len(src) + 2
  BY StateIs
<1>. QED
  BY <1>1, <1>2, <1>6, <1>7, <1>8, HoleIs, KeepIs, Zenon

LEMMA FreeLineIs ==
  ASSUME IInv, FreeLine
  PROVE  IInv'
<1> DEFINE Leave(k) == at' = k /\ stack' = Below
           Stay(k) == at' = k /\ stack' = stack
           isLine == At(at, <<"/", "/">>)
           isBlock == At(at, <<"/", "*">>)
           comment == LineComment(at, Top.cont).to
           block == BlockComment(at, FALSE).to
<1>1. /\ In("free") /\ UNCHANGED input /\ (regexOK' = FALSE \/ regexOK' = regexOK)
      /\ \/ Leave(at)
         \/ isLine /\ Leave(comment)
         \/ isBlock /\ Stay(block)
         \/ ~(at >= Eof) /\ Stay(at + 1)
  BY Zenon DEF FreeLine, Keep, AtEnd
<1>2. stack # << >> /\ Top.fn = "free" /\ regexOK' \in BOOLEAN
  <2>1. regexOK \in BOOLEAN
    BY StateIs
  <2>. QED
    BY <1>1, <2>1 DEF In
<1>3. at \in 1 .. Eof /\ (~(at >= Eof) => at + 1 \in 1 .. Eof)
  BY <1>2, StateIs
<1>4. isLine \/ isBlock => at \in 1 .. Len(src)
  <2>1. "/" # NoSymbol /\ "*" # NoSymbol
    BY Marks, Zenon
  <2>. QED
    BY <2>1, AfterPair, Zenon
<1>5. at \in 1 .. Len(src) => comment \in 1 .. Eof /\ block \in 1 .. Eof
  <2>1. FALSE \in BOOLEAN /\ Scannable
    BY StateIs
  <2>2. \A t : IsToken(t) => t.to \in 1 .. Eof
    BY DEF IsToken
  <2>. QED
    BY <2>1, <2>2, LineCommentToken, BlockCommentToken, Zenon
<1>6. IsStack(Below) /\ IsStack(stack)
  BY <1>2, StateIs, BelowIs DEF Below
<1> HIDE DEF isLine, isBlock, comment, block
<1>7. ASSUME NEW k \in 1 .. Eof, NEW s, IsStack(s), at' = k, stack' = s
      PROVE  IInv'
  <2>1. Placed(s, k)
    BY <1>7, StateIs, PlacedIs
  <2>. QED
    BY <2>1, <1>1, <1>2, <1>7, StateIs, NextState
<1>. QED
  BY <1>1, <1>3, <1>4, <1>5, <1>6, <1>7, Zenon

\* The element goes on after its tag, or is over with it.
LEMMA TagEndsIs ==
  ASSUME IInv, In("tag"), NEW to \in 1 .. Eof, NEW self, TagEnds(to, self)
  PROVE  IInv'
<1> DEFINE n == Len(stack) - 1
           f == stack[n]
           done == self /\ f.depth = 0
           depth == IF self THEN f.depth ELSE f.depth + 1
           nested == [f EXCEPT !.seg = to, !.depth = depth]
           rest == SubSeq(Below, 1, Len(Below) - 1)
<1>1. stack # << >> /\ Top.fn = "tag"
  BY DEF In
<1>2. Len(stack) > 1 /\ f.fn = "jsx" /\ Len(stack) \in Nat
  BY <1>1, StateIs
<1>3. /\ IsStack(Below) /\ Len(Below) = Len(stack) - 1
      /\ \A k \in 1 .. Len(stack) - 1 : Below[k] = stack[k]
  BY <1>1, StateIs, BelowIs DEF Below
<1>4. Below # << >> /\ Below[Len(Below)] = f /\ IsFrame(f)
  BY <1>2, <1>3, StackIs
<1>5. rest = SubSeq(stack, 1, Len(stack) - 2)
  <2>1. PICK S : stack \in Seq(S)
    BY StateIs DEF IsStack
  <2>. QED
    BY <2>1, <1>2, <1>3 DEF Below
<1>6. /\ at' = to /\ UNCHANGED input
      /\ stack' = rest \o IF done THEN << >> ELSE <<nested>>
      /\ regexOK' = (~done /\ regexOK)
  BY <1>5, Zenon DEF TagEnds
<1>7. regexOK' \in BOOLEAN
  BY <1>6
<1>8. IsStack(rest)
  BY <1>3, <1>4, BelowIs
<1> HIDE DEF f, depth
<1>9. IsFrame(nested) /\ nested.fn = f.fn
  BY <1>2, <1>4 DEF IsFrame
<1> HIDE DEF nested
<1>10. IsStack(Append(rest, nested))
  BY <1>3, <1>4, <1>9, ReplacedIs
<1> HIDE DEF rest, done
<1>11. PICK S : rest \in Seq(S)
  BY <1>8 DEF IsStack
<1>12. rest \o << >> = rest /\ rest \o <<nested>> = Append(rest, nested)
  <2>1. rest \o << >> = rest
    BY <1>11, ConcatEmptySeq
  <2>2. rest \o <<nested>> = Append(rest, nested)
    BY <1>11, AppendIsConcat
  <2>. QED
    BY <2>1, <2>2
<1>13. IsStack(stack')
  <2>1. stack' = rest \/ stack' = Append(rest, nested)
    BY <1>6, <1>12
  <2>. QED
    BY <2>1, <1>8, <1>10
<1>14. Placed(stack', to)
  BY <1>13, StateIs, PlacedIs
<1>. QED
  BY <1>6, <1>7, <1>14, StateIs, NextState

LEMMA TagIs ==
  ASSUME IInv, Tag
  PROVE  IInv'
<1> DEFINE value == Quoted(at, at, FALSE, TRUE)
<1>1. /\ In("tag")
      /\ \/ TagEnds(Eof, FALSE)
         \/ /\ Ch # NoSymbol /\ at' = value.to
            /\ UNCHANGED input /\ stack' = stack /\ regexOK' = regexOK
         \/ Ch # NoSymbol /\ HoleCode("}", FALSE, Top.seg, at + 1)
         \/ At(at, <<"/", ">">>) /\ TagEnds(at + 2, TRUE)
         \/ Ch # NoSymbol /\ TagEnds(at + 1, FALSE)
         \/ Ch # NoSymbol /\ Keep(at + 1)
  <2>1. "'" # NoSymbol /\ "{" # NoSymbol /\ ">" # NoSymbol /\ "\"" # NoSymbol
    BY Marks, Zenon
  <2>2. Ch \in {"\"", "'"} => Ch # NoSymbol
    BY <2>1, Zenon
  <2>3. Ch = "{" => Ch # NoSymbol
    BY <2>1, Zenon
  <2>4. Ch = ">" => Ch # NoSymbol
    BY <2>1, Zenon
  <2>5. Ch \notin {NoSymbol, "\"", "'", "{", ">"} => Ch # NoSymbol
    BY Zenon
  <2>. QED
    BY <2>2, <2>3, <2>4, <2>5, Zenon DEF Tag
<1>2. stack # << >> /\ Top.fn \notin {"code", "free"}
  BY <1>1, InText
<1>3. Ch # NoSymbol => at \in 1 .. Len(src) /\ at + 1 \in 1 .. Eof
  BY AfterCh, Zenon
<1>4. At(at, <<"/", ">">>) => at + 2 \in 1 .. Eof
  <2>1. ">" # NoSymbol
    BY Marks, Zenon
  <2>. QED
    BY <2>1, AfterPair, Zenon
<1>5. Eof \in 1 .. Eof
  BY StateIs
<1>6. ASSUME Ch # NoSymbol, at' = value.to, UNCHANGED input, stack' = stack, regexOK' = regexOK
      PROVE  IInv'
  <2>1. at \in 1 .. Len(src)
    BY <1>3, <1>6
  <2>2. IsToken(value)
    BY <2>1, StateIs, QuotedToken
  <2> HIDE DEF value
  <2>3. value.to \in 1 .. Eof
    BY <2>2 DEF IsToken
  <2>4. Placed(stack, value.to)
    BY <2>3, StateIs, PlacedIs
  <2>. QED
    BY <2>4, <1>6, StateIs, NextState
<1> HIDE DEF value
<1>. QED
  BY <1>1, <1>2, <1>3, <1>4, <1>5, <1>6, TagEndsIs, HoleCodeIs, KeepOn, Zenon

LEMMA ElementIs ==
  ASSUME IInv, Element
  PROVE  IInv'
<1> DEFINE S == {x \in at .. Len(src) : src[x] = ">"}
           close == FirstOf[S]
           to == IF close = Eof THEN Eof ELSE close + 1
           f(depth) == [Top EXCEPT !.seg = close + 1, !.depth = depth]
           tag == [fn |-> "tag", seg |-> at]
<1>1. /\ In("jsx")
      /\ \/ End(at)
         \/ Ch # NoSymbol /\ Hole(at + 1)
         \/ /\ at' = to /\ UNCHANGED input
            /\ \/ stack' = Below /\ regexOK' = FALSE
               \/ (\E depth : stack' = WithTop(f(depth))) /\ regexOK' = regexOK
         \/ /\ Ch # NoSymbol /\ at' = at + 1
            /\ stack' = Append(stack, tag) /\ UNCHANGED input /\ regexOK' = regexOK
         \/ Ch # NoSymbol /\ Keep(at + 1)
  <2>1. "{" # NoSymbol /\ "<" # NoSymbol
    BY Marks, Zenon
  <2>2. Ch = "{" => Ch # NoSymbol
    BY <2>1, Zenon
  <2>3. Ch = "<" => Ch # NoSymbol
    BY <2>1, Zenon
  <2>4. Ch \notin {NoSymbol, "{"} => Ch # NoSymbol
    BY Zenon
  <2>5. /\ In("jsx")
        /\ \/ End(at)
           \/ Ch = "{" /\ Hole(at + 1)
           \/ /\ at' = to /\ UNCHANGED input
              /\ IF close = Eof \/ Top.depth = 1
                 THEN stack' = Below /\ regexOK' = FALSE
                 ELSE stack' = WithTop(f(Top.depth - 1)) /\ UNCHANGED regexOK
           \/ /\ Ch = "<" /\ at' = at + 1
              /\ stack' = Append(stack, tag) /\ UNCHANGED <<input, regexOK>>
           \/ Ch \notin {NoSymbol, "{"} /\ Keep(at + 1)
    BY Zenon DEF Element, First
  <2>. QED
    BY <2>2, <2>3, <2>4, <2>5, Zenon
<1>2. stack # << >> /\ Top.fn = "jsx" /\ Top.fn \notin {"code", "free"}
  BY <1>1, InText
<1>3. Ch # NoSymbol => at + 1 \in 1 .. Eof
  BY AfterCh, Zenon
<1>4. \A x \in S : x \in 1 .. Len(src)
  BY StateIs
<1> HIDE DEF S
<1>5. to \in 1 .. Eof
  <2>1. close \in 1 .. Eof
    BY <1>4, StateIs, FirstOfIs
  <2>. QED
    BY <2>1, StateIs
<1>6. IsStack(Below)
  BY <1>2, StateIs, BelowIs DEF Below
<1>7. \A depth : IsStack(WithTop(f(depth)))
  <2> TAKE depth
  <2> DEFINE g == f(depth)
  <2>1. IsFrame(g) /\ g.fn = Top.fn
    BY <1>2, StateIs DEF IsFrame
  <2> HIDE DEF g
  <2>2. IsStack(WithTop(g))
    BY <1>2, <2>1, StateIs, ReplacedIs DEF WithTop, Below, Top
  <2>. QED
    BY <2>2 DEF g
<1>8. IsStack(Append(stack, tag))
  <2>1. IsFrame(tag)
    BY DEF IsFrame
  <2> HIDE DEF tag
  <2>. QED
    BY <2>1, <1>2, StateIs, PushedIs DEF Top
<1> HIDE DEF to, f, tag, close
<1>9. ASSUME NEW k \in 1 .. Eof, NEW s, IsStack(s), at' = k, stack' = s, UNCHANGED input,
             regexOK' = FALSE \/ regexOK' = regexOK
      PROVE  IInv'
  <2>1. Placed(s, k)
    BY <1>9, StateIs, PlacedIs
  <2>2. regexOK' \in BOOLEAN
    BY <1>9, StateIs
  <2>. QED
    BY <2>1, <2>2, <1>9, StateIs, NextState
<1>. QED
  BY <1>1, <1>2, <1>3, <1>5, <1>6, <1>7, <1>8, <1>9, EndHere, HoleIs, KeepOn, Zenon

-----------------------------------------------------------------------------
(* The scanner stays within the source *)

LEMMA StepIs ==
  ASSUME IInv, Next
  PROVE  IInv'
<1>1. CASE Round
  BY <1>1, BlankIs, OpenBracketIs, CloseBracketIs, NameIs, NumeralIs, LexemeIs, PunctuationIs
     DEF Round
<1>2. CASE Return
  BY <1>2, FinishIs, CloseTagIs, HoleEndsIs, FmtHoleEndsIs DEF Return
<1>3. CASE Literal
  BY <1>3, TemplateIs, KotlinTextIs, SwiftTextIs, PythonTextIs, PHPTextIs, HeredocIs,
     InterpTextIs, RawTextIs, SpecIs, FreeLineIs, TagIs, ElementIs
     DEF Literal
<1>. QED
  BY <1>1, <1>2, <1>3 DEF Next

LEMMA StutterIs ==
  ASSUME IInv, UNCHANGED vars
  PROVE  IInv'
<1>1. stack' = stack /\ at' = at /\ regexOK' = regexOK /\ UNCHANGED input
  BY DEF vars
<1>2. Placed(stack, at)
  BY DEF IInv
<1>. QED
  BY <1>1, <1>2, StateIs, NextState

LEMMA InvariantSuffices == IInv => TypeOK
<1> SUFFICES ASSUME IInv PROVE TypeOK
  OBVIOUS
<1>1. \A k \in 1 .. Len(stack) : stack[k].fn = "code" => stack[k].depth \in Nat
  BY StateIs, StackIs DEF IsFrame
<1>2. Done \/ Top.fn = "code" => at <= Eof
  BY DEF IInv, Placed, Done, Top
<1>. QED
  BY <1>1, <1>2, StateIs DEF TypeOK

\* The offsets, the variables of the calls and the order in which the calls are
\* made are those of a scan: preserved by every round and every return.
THEOREM ScanInvariant == Masking => []IInv
<1>1. Init => IInv
  BY InitIs
<1>2. IInv /\ [Next]_vars => IInv'
  BY StepIs, StutterIs
<1>. QED
  BY <1>1, <1>2, PTL DEF Masking

\* The scanner stays within the source (TypeOK): of no source, in whatever
\* literal, hole or tag it breaks off, is a symbol past the end read by code, and
\* a literal's own scan passes the end by one at most.
THEOREM StaysInSource == Masking => []TypeOK
  BY ScanInvariant, InvariantSuffices, PTL

=============================================================================
