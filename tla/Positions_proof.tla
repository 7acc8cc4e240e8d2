---------------------------- MODULE Positions_proof ----------------------------
(***************************************************************************)
(* Columns and positions, for every file, whatever its lines and symbols.  *)
(*                                                                         *)
(* fillCallColumns gives the m-th of the sites with one name and line the  *)
(* m-th occurrence that no declaration took.  From that follow             *)
(* NoSharedToken, NamesTheCallee and ExactWhenPlain.                       *)
(*                                                                         *)
(* Once the comment-only lines cut from a Kotlin file are put back into    *)
(* the tree, each leaf stands at the byte, row and column of its text in   *)
(* the source.                                                             *)
(***************************************************************************)
EXTENDS CallColumns, KotlinCuts, SyntaxTree_proof

-----------------------------------------------------------------------------
(* The n-th member of a finite set of numbers                              *)

\* What Nth returns.
LEMMA NthIs ==
  ASSUME NEW S, S \subseteq Nat, IsFiniteSet(S),
         NEW n \in Nat, n < Cardinality(S)
  PROVE  Nth(S, n) \in S /\ Cardinality(Smaller(S, Nth(S, n))) = n
<1>1. \E c \in S : Cardinality({d \in S : d < c}) = n
  BY RankTaken DEF Smaller
<1>2. Nth(S, n) \in S /\ Cardinality({d \in S : d < Nth(S, n)}) = n
  BY <1>1 DEF Nth
<1>. QED
  BY <1>2 DEF Smaller

\* Only one member has a rank.
LEMMA NthOf ==
  ASSUME NEW S, S \subseteq Nat, IsFiniteSet(S), NEW c \in S
  PROVE  Nth(S, Cardinality(Smaller(S, c))) = c
<1> DEFINE n == Cardinality(Smaller(S, c))
           d == Nth(S, n)
<1>1. n \in Nat /\ n < Cardinality(S)
  BY SmallerFinite, RankGrows
<1>2. d \in S /\ Cardinality(Smaller(S, d)) = n
  BY <1>1, NthIs
<1>3. ~(c < d) /\ ~(d < c)
  <2>1. /\ c < d => Cardinality(Smaller(S, c)) < Cardinality(Smaller(S, d))
        /\ d < c => Cardinality(Smaller(S, d)) < Cardinality(Smaller(S, c))
    <3> HIDE DEF d
    <3>. QED
      BY <1>2, RankGrows
  <2>. QED
    BY <1>1, <1>2, <2>1
<1>4. c \in Nat /\ d \in Nat
  BY <1>2
<1>. QED
  BY <1>3, <1>4

-----------------------------------------------------------------------------
(* Columns and sites *)

InputOK == lines \in Seq(Seq(Token)) /\ syms \in Seq(Symbol)

\* The columns of a name are a finite set of positive numbers, with the name
\* at each of them.
LEMMA ColumnsOK ==
  ASSUME InputOK, NEW l, NEW n
  PROVE  /\ NameColumns(l, n) \subseteq Nat \ {0}
         /\ IsFiniteSet(NameColumns(l, n))
         /\ NameColumns(l, n) # {} => l \in 1 .. Len(lines)
         /\ \A c \in NameColumns(l, n) : lines[l][c].name = n
<1>1. CASE l \in 1 .. Len(lines)
  <2>1. lines[l] \in Seq(Token) /\ Len(lines[l]) \in Nat
    BY <1>1 DEF InputOK
  <2>2. IsFiniteSet(1 .. Len(lines[l]))
    BY <2>1, FS_Interval
  <2>3. NameColumns(l, n) \subseteq 1 .. Len(lines[l])
    BY <1>1 DEF NameColumns
  <2>4. IsFiniteSet(NameColumns(l, n))
    BY <2>2, <2>3, FS_Subset
  <2>5. \A c \in NameColumns(l, n) : lines[l][c].name = n
    BY <1>1 DEF NameColumns
  <2>. QED
    BY <1>1, <2>1, <2>3, <2>4, <2>5
<1>2. CASE l \notin 1 .. Len(lines)
  BY <1>2, FS_EmptySet DEF NameColumns
<1>. QED
  BY <1>1, <1>2

LEMMA FreeOK ==
  ASSUME InputOK, NEW l, NEW n
  PROVE  /\ Free(l, n) \subseteq NameColumns(l, n)
         /\ Free(l, n) \subseteq Nat \ {0} /\ IsFiniteSet(Free(l, n))
         /\ Cardinality(Free(l, n)) \in Nat
         /\ Cardinality(Free(l, n)) <= Cardinality(NameColumns(l, n))
<1>1. Free(l, n) \subseteq NameColumns(l, n)
  BY DEF Free
<1>. QED
  BY <1>1, ColumnsOK, FS_Subset, FS_CardinalityType

\* A name that stands on a line has a first column there.
LEMMA FirstColumn ==
  ASSUME InputOK, NEW l, NEW n, NameColumns(l, n) # {}
  PROVE  Nth(NameColumns(l, n), 0) \in NameColumns(l, n)
<1>1. IsFiniteSet(NameColumns(l, n)) /\ NameColumns(l, n) \subseteq Nat
  BY ColumnsOK
<1>2. Cardinality(NameColumns(l, n)) \in Nat /\ Cardinality(NameColumns(l, n)) # 0
  BY <1>1, FS_CardinalityType, FS_EmptySet
<1>. QED
  BY <1>1, <1>2, NthIs

\* What a site is, and the pairs that name one.
LEMMA SiteOK ==
  ASSUME InputOK
  PROVE  /\ Len(syms) \in Nat
         /\ \A a \in 1 .. Len(syms) : syms[a] \in Symbol /\ Len(syms[a].sites) \in Nat
         /\ \A id : id \in SiteIds <=>
              \E a \in 1 .. Len(syms) : \E b \in 1 .. Len(syms[a].sites) : id = <<a, b>>
         /\ \A id \in SiteIds :
              /\ SiteOf(id) \in Site
              /\ id[1] \in Nat /\ id[2] \in Nat /\ id = <<id[1], id[2]>>
<1>1. Len(syms) \in Nat /\ \A a \in 1 .. Len(syms) : syms[a] \in Symbol
  BY DEF InputOK
<1>2. \A a \in 1 .. Len(syms) : syms[a].sites \in Seq(Site) /\ Len(syms[a].sites) \in Nat
  BY <1>1 DEF Symbol
<1>3. \A id : id \in SiteIds <=>
        \E a \in 1 .. Len(syms) : \E b \in 1 .. Len(syms[a].sites) : id = <<a, b>>
  BY DEF SiteIds
<1>4. ASSUME NEW id \in SiteIds
      PROVE  /\ SiteOf(id) \in Site
             /\ id[1] \in Nat /\ id[2] \in Nat /\ id = <<id[1], id[2]>>
  <2>1. PICK a \in 1 .. Len(syms) : \E b \in 1 .. Len(syms[a].sites) : id = <<a, b>>
    BY <1>3
  <2>0. PICK b \in 1 .. Len(syms[a].sites) : id = <<a, b>>
    BY <2>1
  <2>2. syms[a].sites[b] \in Site
    BY <1>2
  <2>. QED
    BY <2>0, <2>2, <1>1, <1>2 DEF SiteOf
<1>. QED
  BY <1>1, <1>2, <1>3, <1>4

\* A file has finitely many sites.
LEMMA SitesFinite ==
  ASSUME InputOK
  PROVE  IsFiniteSet(SiteIds)
<1> DEFINE Of(a) == {a} \X (1 .. Len(syms[a].sites))
           N == 1 .. Len(syms)
           T == {Of(a) : a \in N}
           f == [a \in N |-> Of(a)]
<1>0. /\ Len(syms) \in Int
      /\ \A a \in N : Len(syms[a].sites) \in Int
  BY SiteOK
<1>1. IsFiniteSet(N)
  BY <1>0, FS_Interval
<1>2. f \in Surjection(N, T)
  BY DEF Surjection
<1>3. IsFiniteSet(T)
  <2> HIDE DEF N, T, f
  <2>. QED
    BY <1>1, <1>2, FS_Surjection
<1>4. \A a \in N : IsFiniteSet(Of(a))
  <2> TAKE a \in N
  <2>1. IsFiniteSet({a})
    BY FS_Singleton
  <2>2. IsFiniteSet(1 .. Len(syms[a].sites))
    <3>1. Len(syms[a].sites) \in Int
      BY <1>0
    <3> DEFINE m == Len(syms[a].sites)
    <3> HIDE DEF m
    <3>2. m \in Int
      BY <3>1 DEF m
    <3>3. IsFiniteSet(1 .. m)
      BY <3>2, FS_Interval
    <3>. QED
      BY <3>3 DEF m
  <2>. QED
    BY <2>1, <2>2, FS_Product
<1>5. IsFiniteSet(UNION T)
  BY <1>3, <1>4, FS_UNION
<1>6. SiteIds = UNION T
  BY DEF SiteIds
<1>. QED
  BY <1>5, <1>6

LEMMA EarlierOK ==
  ASSUME InputOK, NEW l, NEW n, NEW id
  PROVE  /\ IsFiniteSet(Earlier(l, n, id)) /\ IsFiniteSet(SitesOf(l, n))
         /\ Cardinality(Earlier(l, n, id)) \in Nat
<1>1. Earlier(l, n, id) \subseteq SiteIds /\ SitesOf(l, n) \subseteq SiteIds
  BY DEF Earlier, SitesOf
<1>. QED
  BY <1>1, SitesFinite, FS_Subset, FS_CardinalityType

-----------------------------------------------------------------------------
(* The order of the sites *)

LEMMA SitesOrdered ==
  ASSUME InputOK, NEW a \in SiteIds, NEW b \in SiteIds
  PROVE  /\ a # b => Before(a, b) \/ Before(b, a)
         /\ ~Before(a, a)
         /\ Before(a, b) => \A c \in SiteIds : Before(c, a) => Before(c, b)
<1>1. /\ a[1] \in Nat /\ a[2] \in Nat /\ a = <<a[1], a[2]>>
      /\ b[1] \in Nat /\ b[2] \in Nat /\ b = <<b[1], b[2]>>
      /\ \A c \in SiteIds : c[1] \in Nat /\ c[2] \in Nat
  BY SiteOK
<1>. QED
  BY <1>1 DEF Before

\* Of two sites for the same name and line, the later has more before it.
LEMMA EarlierGrows ==
  ASSUME InputOK, NEW l, NEW n, NEW a \in SitesOf(l, n), NEW b \in SiteIds, Before(a, b)
  PROVE  Cardinality(Earlier(l, n, a)) < Cardinality(Earlier(l, n, b))
<1>1. a \in SiteIds
  BY DEF SitesOf
<1>2. a \in Earlier(l, n, b) /\ a \notin Earlier(l, n, a)
  BY <1>1, SitesOrdered DEF Earlier
<1>3. Earlier(l, n, a) \subseteq Earlier(l, n, b)
  BY <1>1, SitesOrdered DEF Earlier, SitesOf
<1>4. /\ Cardinality(Earlier(l, n, a)) <= Cardinality(Earlier(l, n, b))
      /\ Cardinality(Earlier(l, n, b)) = Cardinality(Earlier(l, n, a))
           => Earlier(l, n, b) = Earlier(l, n, a)
  BY <1>3, EarlierOK, FS_Subset
<1>. QED
  BY <1>2, <1>4, EarlierOK

\* When the cursor is at a site, the sites before the next place are those
\* before it and itself.
LEMMA NextPlace ==
  ASSUME InputOK, NEW a \in 1 .. Len(syms), NEW b \in 1 .. Len(syms[a].sites)
  PROVE  /\ <<a, b>> \in SiteIds
         /\ \A id \in SiteIds : Before(id, <<a, b + 1>>) <=> Before(id, <<a, b>>) \/ id = <<a, b>>
<1>1. <<a, b>> \in SiteIds
  BY SiteOK
<1>2. ASSUME NEW id \in SiteIds
      PROVE  Before(id, <<a, b + 1>>) <=> Before(id, <<a, b>>) \/ id = <<a, b>>
  <2>1. id[1] \in Nat /\ id[2] \in Nat /\ id = <<id[1], id[2]>>
    BY SiteOK
  <2>2. a \in Nat /\ b \in Nat
    BY SiteOK
  <2>3. <<a, b>>[1] = a /\ <<a, b>>[2] = b /\ <<a, b + 1>>[1] = a /\ <<a, b + 1>>[2] = b + 1
    OBVIOUS
  <2>4. id = <<a, b>> <=> id[1] = a /\ id[2] = b
    BY <2>1
  <2>. QED
    BY <2>1, <2>2, <2>3, <2>4 DEF Before
<1>. QED
  BY <1>1, <1>2

\* Behind a symbol's last site comes the next symbol's first place.
LEMMA NextSymbolPlace ==
  ASSUME InputOK, NEW a \in 1 .. Len(syms), NEW b \in Nat, b > Len(syms[a].sites)
  PROVE  \A id \in SiteIds : Before(id, <<a + 1, 1>>) <=> Before(id, <<a, b>>)
<1> SUFFICES ASSUME NEW id \in SiteIds
             PROVE  Before(id, <<a + 1, 1>>) <=> Before(id, <<a, b>>)
  OBVIOUS
<1>1. PICK x \in 1 .. Len(syms) : \E y \in 1 .. Len(syms[x].sites) : id = <<x, y>>
  BY SiteOK
<1>2. PICK y \in 1 .. Len(syms[x].sites) : id = <<x, y>>
  BY <1>1
<1>3. /\ a \in Nat /\ x \in Nat /\ y \in Nat /\ y >= 1
      /\ x = a => y < b
  BY SiteOK
<1>4. id[1] = x /\ id[2] = y
  BY <1>2
<1>. QED
  BY <1>3, <1>4 DEF Before

-----------------------------------------------------------------------------
(* The first loop *)

LEMMA InitIInv == Init => IInv
<1> SUFFICES ASSUME Init PROVE IInv
  OBVIOUS
<1>1. InputOK
  BY CallColumnsAssumption DEF Init, InputOK
<1>2. TypeOK
  <2>0. syms # << >> => 1 \in 1 .. Len(syms)
    BY <1>1 DEF InputOK
  <2>1. i \in 1 .. Len(syms) + 1 /\ ln \in Nat
    <3>1. syms # << >> => syms[1].start \in Nat
      BY <1>1, <2>0, SiteOK DEF Symbol
    <3>. QED
      BY <1>1, <2>0, <3>1, SiteOK DEF Init
  <2>2. j \in 1 .. (IF i <= Len(syms) THEN Len(syms[i].sites) ELSE 0) + 1
    BY <1>1, <2>1, SiteOK DEF Init
  <2>3. used \in [(1 .. Len(lines)) \X Name -> Nat]
    BY DEF Init
  <2>4. \A k \in DOMAIN used : used[k] <= Cardinality(NameColumns(k[1], k[2]))
    BY <1>1, <2>3, ColumnsOK, FS_CardinalityType DEF Init
  <2>5. col \in [SiteIds -> Nat]
    BY <1>1, SiteOK DEF Init, Site
  <2>. QED
    BY <1>1, <2>1, <2>2, <2>3, <2>4, <2>5 DEF Init, TypeOK, InputOK
<1>3. DeclareInv
  BY <1>2 DEF Init, DeclareInv, TypeOK
<1>4. FillInv
  <2>1. \A id \in SiteIds : ~Passed(id)
    BY <1>1, SiteOK DEF Init, Passed, Cursor, Before
  <2>. QED
    BY <2>1 DEF Init, FillInv
<1>. QED
  BY <1>2, <1>3, <1>4 DEF IInv

\* While the first loop runs, no column has been given.
LEMMA NothingFilled ==
  ASSUME InputOK, phase' = "declare", phase = "declare",
         UNCHANGED <<lines, syms, used, col>>, FillInv
  PROVE  FillInv'
<1>1. \A id \in SiteIds : ~Before(id, <<1, 1>>)
  BY SiteOK DEF Before
<1>2. Cursor = <<1, 1>> /\ Cursor' = <<1, 1>>
  BY DEF Cursor
<1>3. SiteIds' = SiteIds /\ \A id : SiteOf(id)' = SiteOf(id)
  BY DEF SiteIds, SiteOf
<1>4. /\ \A id \in SiteIds : col[id] = SiteOf(id).preset
      /\ \A l \in 1 .. Len(lines), n \in Name : used[<<l, n>>] = 0
  BY <1>1, <1>2 DEF FillInv, Passed
<1>5. \A id \in SiteIds : ~Passed(id)'
  BY <1>1, <1>2 DEF Passed, Before
<1>. QED
  BY <1>3, <1>4, <1>5 DEF FillInv

\* The cursor's clauses of TypeOK, for a step of the first loop to the next
\* symbol.
LEMMA NextSymbolOK ==
  ASSUME TypeOK, phase = "declare", j = 1, i <= Len(syms), NextSymbol, UNCHANGED <<lines, syms, phase, j>>
  PROVE  /\ i' \in 1 .. Len(syms') + 1 /\ ln' \in Nat
         /\ j' \in 1 .. (IF i' <= Len(syms') THEN Len(syms'[i'].sites) ELSE 0) + 1
         /\ i' <= Len(syms) => ln' = syms[i'].start
<1>1. InputOK /\ i \in 1 .. Len(syms) /\ Len(syms) \in Nat
  BY SiteOK DEF TypeOK, InputOK
<1>2. i < Len(syms) => i + 1 \in 1 .. Len(syms)
  BY <1>1
<1>3. i < Len(syms) => syms[i + 1].start \in Nat /\ Len(syms[i + 1].sites) \in Nat
  BY <1>1, <1>2, SiteOK DEF Symbol
<1>. QED
  BY <1>1, <1>2, <1>3 DEF NextSymbol

\* The name of a symbol that is searched for, and how far.
LEMMA SearchingOK ==
  ASSUME TypeOK, Searching
  PROVE  /\ i \in 1 .. Len(syms) /\ syms[i] \in Symbol
         /\ syms[i].name \in Name /\ syms[i].start \in Nat
         /\ WindowEnd \in Nat /\ WindowEnd >= syms[i].start
<1>1. i \in 1 .. Len(syms) /\ syms[i] \in Symbol /\ phase = "declare"
  BY SiteOK DEF TypeOK, InputOK, Searching
<1>2. syms[i].name \in Name /\ syms[i].start \in Nat /\ syms[i].end \in Nat
  BY <1>1 DEF Searching, Symbol
<1>3. WindowEnd \in Nat /\ WindowEnd >= syms[i].start
  BY <1>2, CallColumnsAssumption DEF WindowEnd
<1>. QED
  BY <1>1, <1>2, <1>3

\* What a step of the first loop that stays in it leaves to show.
LEMMA StaysDeclaring ==
  ASSUME IInv, phase = "declare", UNCHANGED <<lines, syms, phase, j, used, col>>,
         i' \in 1 .. Len(syms) + 1, ln' \in Nat,
         declared' \subseteq Nat \X Nat, DeclareInv'
  PROVE  IInv'
<1>1. InputOK /\ TypeOK /\ j = 1
  BY DEF IInv, TypeOK, DeclareInv, InputOK
<1>2. SiteIds' = SiteIds /\ \A l, n : NameColumns(l, n)' = NameColumns(l, n)
  BY DEF SiteIds, NameColumns
<1>3. j' \in 1 .. (IF i' <= Len(syms') THEN Len(syms'[i'].sites) ELSE 0) + 1
  <2>1. i' <= Len(syms) => Len(syms[i'].sites) \in Nat
    BY <1>1, SiteOK
  <2>. QED
    BY <1>1, <2>1
<1>4. TypeOK'
  BY <1>1, <1>2, <1>3 DEF TypeOK
<1>5. FillInv'
  BY <1>1, NothingFilled DEF IInv
<1>. QED
  BY <1>4, <1>5 DEF IInv

LEMMA DeclareSkipStep == IInv /\ DeclareSkip => IInv'
<1> SUFFICES ASSUME IInv, DeclareSkip PROVE IInv'
  OBVIOUS
<1>1. InputOK /\ TypeOK /\ DeclareInv /\ j = 1 /\ phase = "declare" /\ i \in 1 .. Len(syms)
  <2>1. InputOK /\ TypeOK /\ DeclareInv /\ phase = "declare"
    BY DEF IInv, TypeOK, InputOK, DeclareSkip
  <2>2. j = 1
    BY <2>1 DEF DeclareInv
  <2>3. i \in 1 .. Len(syms)
    BY <2>1, SiteOK DEF TypeOK, DeclareSkip
  <2>. QED
    BY <2>1, <2>2, <2>3
<1>2. \A l, n : NameColumns(l, n)' = NameColumns(l, n)
  BY DEF NameColumns, DeclareSkip
<1>3. i' \in 1 .. Len(syms) + 1 /\ ln' \in Nat /\ (i' <= Len(syms) => ln' = syms[i'].start)
  BY <1>1, NextSymbolOK DEF DeclareSkip
<1>4. syms[i].name = NoName \/ NameColumns(syms[i].start, syms[i].name) = {}
  <2>1. syms[i].start \in Nat
    BY <1>1, SiteOK DEF Symbol
  <2>. QED
    BY <2>1, <1>1 DEF DeclareSkip, NameColumns
<1>5. \A a \in 1 .. Len(syms) : a < i' => a < i \/ a = i
  BY <1>1, SiteOK DEF DeclareSkip, NextSymbol
<1>6. DeclareInv'
  BY <1>1, <1>2, <1>3, <1>4, <1>5 DEF DeclareInv, DeclareSkip
<1>. QED
  BY <1>1, <1>3, <1>6, StaysDeclaring DEF DeclareSkip, TypeOK

LEMMA DeclareHereStep == IInv /\ DeclareHere => IInv'
<1> SUFFICES ASSUME IInv, DeclareHere PROVE IInv'
  OBVIOUS
<1>1. /\ InputOK /\ TypeOK /\ DeclareInv /\ j = 1 /\ phase = "declare"
      /\ i \in 1 .. Len(syms) /\ syms[i].name \in Name
  BY SearchingOK DEF IInv, TypeOK, DeclareInv, InputOK, DeclareHere, Searching
<1>2. \A l, n : NameColumns(l, n)' = NameColumns(l, n)
  BY DEF NameColumns, DeclareHere
<1>3. i' \in 1 .. Len(syms) + 1 /\ ln' \in Nat /\ (i' <= Len(syms) => ln' = syms[i'].start)
  BY <1>1, NextSymbolOK DEF DeclareHere
<1> DEFINE c == Nth(NameColumns(ln, syms[i].name), 0)
<1>4. /\ declared' = declared \cup {<<ln, c>>}
      /\ c \in NameColumns(ln, syms[i].name) /\ c \in Nat
  BY <1>1, FirstColumn, ColumnsOK DEF DeclareHere
<1>5. NameColumns(syms[i].start, syms[i].name) # {} => ln = syms[i].start
  BY <1>1, CallColumnsAssumption DEF DeclareInv
<1>6. \A a \in 1 .. Len(syms) : a < i' => a < i \/ a = i
  BY <1>1, SiteOK DEF DeclareHere, NextSymbol
<1>7. DeclareInv'
  <2> HIDE DEF c
  <2>1. \A d \in declared' : d \in declared \/ (d[1] = ln /\ d[2] = c)
    BY <1>4
  <2>2. UNCHANGED <<syms, phase, j>>
    BY DEF DeclareHere
  <2>3. \A d \in declared' : \E a \in 1 .. Len(syms) :
          /\ syms[a].name \in Name
          /\ d[2] \in NameColumns(d[1], syms[a].name)
          /\ d[2] = Nth(NameColumns(d[1], syms[a].name), 0)
          /\ NameColumns(syms[a].start, syms[a].name) # {} => d[1] = syms[a].start
    <3> TAKE d \in declared'
    <3>1. CASE d \in declared
      BY <3>1, <1>1 DEF DeclareInv
    <3>2. CASE d[1] = ln /\ d[2] = c
      BY <3>2, <1>1, <1>4, <1>5 DEF c
    <3>. QED
      BY <2>1, <3>1, <3>2
  <2>4. \A a \in 1 .. Len(syms) :
          /\ a < i' /\ syms[a].name # NoName
          /\ NameColumns(syms[a].start, syms[a].name) # {}
          => <<syms[a].start, Nth(NameColumns(syms[a].start, syms[a].name), 0)>> \in declared'
    BY <1>1, <1>4, <1>5, <1>6 DEF DeclareInv, c
  <2>. QED
    BY <1>1, <1>2, <1>3, <2>2, <2>3, <2>4 DEF DeclareInv
<1>8. declared' \subseteq Nat \X Nat
  BY <1>1, <1>4 DEF TypeOK
<1>. QED
  BY <1>1, <1>3, <1>7, <1>8, StaysDeclaring DEF DeclareHere

LEMMA DeclareNextLineStep == IInv /\ DeclareNextLine => IInv'
<1> SUFFICES ASSUME IInv, DeclareNextLine PROVE IInv'
  OBVIOUS
<1>1. InputOK /\ TypeOK /\ DeclareInv /\ j = 1 /\ phase = "declare"
  BY DEF IInv, TypeOK, DeclareInv, InputOK, DeclareNextLine, Searching
<1>2. \A l, n : NameColumns(l, n)' = NameColumns(l, n)
  BY DEF NameColumns, DeclareNextLine
<1>3. NameColumns(syms[i].start, syms[i].name) = {}
  BY <1>1 DEF DeclareNextLine, Searching, DeclareInv
<1>4. DeclareInv'
  BY <1>1, <1>2, <1>3 DEF DeclareInv, DeclareNextLine
<1>5. i' \in 1 .. Len(syms) + 1 /\ ln' \in Nat /\ declared' \subseteq Nat \X Nat
  BY <1>1 DEF DeclareNextLine, TypeOK
<1>. QED
  BY <1>1, <1>4, <1>5, StaysDeclaring DEF DeclareNextLine

LEMMA DeclareNowhereStep == IInv /\ DeclareNowhere => IInv'
<1> SUFFICES ASSUME IInv, DeclareNowhere PROVE IInv'
  OBVIOUS
<1>1. /\ InputOK /\ TypeOK /\ DeclareInv /\ j = 1 /\ phase = "declare"
      /\ i \in 1 .. Len(syms) /\ ln \in Nat
  BY SearchingOK DEF IInv, TypeOK, DeclareInv, InputOK, DeclareNowhere, Searching
<1>2. \A l, n : NameColumns(l, n)' = NameColumns(l, n)
  BY DEF NameColumns, DeclareNowhere
<1>3. i' \in 1 .. Len(syms) + 1 /\ ln' \in Nat /\ (i' <= Len(syms) => ln' = syms[i'].start)
  BY <1>1, NextSymbolOK DEF DeclareNowhere
<1>4. syms[i].name = NoName \/ NameColumns(syms[i].start, syms[i].name) = {}
  <2>1. ln # syms[i].start
    BY <1>1, SearchingOK DEF DeclareNowhere
  <2>. QED
    BY <2>1, <1>1 DEF DeclareInv
<1>5. \A a \in 1 .. Len(syms) : a < i' => a < i \/ a = i
  BY <1>1, SiteOK DEF DeclareNowhere, NextSymbol
<1>6. DeclareInv'
  BY <1>1, <1>2, <1>3, <1>4, <1>5 DEF DeclareInv, DeclareNowhere
<1>. QED
  BY <1>1, <1>3, <1>6, StaysDeclaring DEF DeclareNowhere, TypeOK

LEMMA DeclareDoneStep == IInv /\ DeclareDone => IInv'
<1> SUFFICES ASSUME IInv, DeclareDone PROVE IInv'
  OBVIOUS
<1>1. /\ InputOK /\ TypeOK /\ DeclareInv /\ FillInv /\ j = 1 /\ phase = "declare"
      /\ i > Len(syms) /\ i \in Nat /\ phase' = "fill" /\ i' = 1
      /\ UNCHANGED <<lines, syms, ln, j, declared, used, col>>
  <2>1. InputOK /\ TypeOK /\ DeclareInv /\ FillInv /\ phase = "declare"
    BY DEF IInv, TypeOK, InputOK, DeclareDone
  <2>2. j = 1 /\ i \in Nat
    BY <2>1, SiteOK DEF TypeOK, DeclareInv
  <2>. QED
    BY <2>1, <2>2 DEF DeclareDone
<1>2. /\ SiteIds' = SiteIds /\ \A id : SiteOf(id)' = SiteOf(id)
      /\ \A l, n : NameColumns(l, n)' = NameColumns(l, n) /\ Free(l, n)' = Free(l, n)
  BY <1>1 DEF SiteIds, SiteOf, NameColumns, Free
<1>3. TypeOK'
  <2>1. i' \in 1 .. Len(syms) + 1
    BY <1>1, SiteOK
  <2>2. i' <= Len(syms) => Len(syms[i'].sites) \in Nat
    BY <1>1, <2>1, SiteOK
  <2>3. j' \in 1 .. (IF i' <= Len(syms') THEN Len(syms'[i'].sites) ELSE 0) + 1
    BY <1>1, <2>2
  <2>. QED
    BY <1>1, <1>2, <2>1, <2>3 DEF TypeOK
<1>4. DeclareInv'
  <2>1. \A a \in 1 .. Len(syms) : a < i
    BY <1>1, SiteOK
  <2>. QED
    BY <1>1, <1>2, <2>1 DEF DeclareInv
<1>5. FillInv'
  <2>1. Cursor = <<1, 1>> /\ Cursor' = <<1, 1>>
    BY <1>1 DEF Cursor
  <2>2. \A id \in SiteIds : ~Before(id, <<1, 1>>)
    BY <1>1, SiteOK DEF Before
  <2>3. \A id \in SiteIds : ~Passed(id) /\ ~Passed(id)'
    BY <1>2, <2>1, <2>2 DEF Passed, Before
  <2>4. \A l, n : Earlier(l, n, Cursor)' = {}
    BY <1>2, <2>1, <2>2 DEF Earlier, SitesOf, Before
  <2>5. Cardinality({}) = 0
    BY FS_EmptySet
  <2>6. \A id \in SiteIds : col'[id] = SiteOf(id).preset
    BY <1>1, <2>3 DEF FillInv
  <2>7. \A l \in 1 .. Len(lines), n \in Name :
          LET m == Cardinality(Earlier(l, n, Cursor))'
              free == Cardinality(Free(l, n))
          IN  used'[<<l, n>>] = IF m < free THEN m ELSE free
    <3> TAKE l \in 1 .. Len(lines), n \in Name
    <3>1. Cardinality(Free(l, n)) \in Nat
      BY <1>1, FreeOK
    <3>2. used'[<<l, n>>] = 0
      BY <1>1 DEF FillInv
    <3>. QED
      BY <2>4, <2>5, <3>1, <3>2
  <2>. QED
    BY <1>1, <1>2, <2>3, <2>6, <2>7 DEF FillInv
<1>. QED
  BY <1>3, <1>4, <1>5 DEF IInv

-----------------------------------------------------------------------------
(* The second loop *)

\* What a step of the second loop leaves alone.
LEMMA FillKeeps ==
  ASSUME IInv, phase = "fill", phase' \in {"fill", "done"},
         UNCHANGED <<lines, syms, declared>>
  PROVE  /\ InputOK /\ DeclareInv'
         /\ SiteIds' = SiteIds /\ \A id : SiteOf(id)' = SiteOf(id)
         /\ \A l, n : NameColumns(l, n)' = NameColumns(l, n) /\ Free(l, n)' = Free(l, n)
         /\ \A l, n, m : Given(l, n, m)' = Given(l, n, m)
         /\ \A l, n : SitesOf(l, n)' = SitesOf(l, n)
         /\ \A l, n, id : Earlier(l, n, id)' = Earlier(l, n, id)
         /\ Cursor = <<i, j>> /\ Cursor' = <<i', j'>>
<1>1. InputOK /\ DeclareInv
  BY DEF IInv, TypeOK, InputOK
<1>2. \A l, n : NameColumns(l, n)' = NameColumns(l, n) /\ Free(l, n)' = Free(l, n)
  BY DEF NameColumns, Free
<1>3. DeclareInv'
  BY <1>1, <1>2 DEF DeclareInv
<1>4. SiteIds' = SiteIds /\ \A id : SiteOf(id)' = SiteOf(id)
  BY DEF SiteIds, SiteOf
<1>5. \A l, n, m : Given(l, n, m)' = Given(l, n, m)
  BY <1>2 DEF Given
<1>6. \A l, n : SitesOf(l, n)' = SitesOf(l, n)
  BY <1>4 DEF SitesOf
<1>7. \A l, n, id : Earlier(l, n, id)' = Earlier(l, n, id)
  BY <1>6 DEF Earlier, Before
<1>8. Cursor = <<i, j>> /\ Cursor' = <<i', j'>>
  BY DEF Cursor
<1>. QED
  BY <1>1, <1>2, <1>3, <1>4, <1>5, <1>6, <1>7, <1>8

\* A step that gives no column passes no site that needs one.
LEMMA FillInvMoves ==
  ASSUME IInv, phase = "fill", phase' \in {"fill", "done"},
         UNCHANGED <<lines, syms, declared, used, col>>,
         \A id \in SiteIds : ~Skipped(SiteOf(id)) =>
           (Before(id, <<i', j'>>) <=> Before(id, <<i, j>>))
  PROVE  FillInv'
<1>1. /\ SiteIds' = SiteIds /\ \A id : SiteOf(id)' = SiteOf(id)
      /\ \A l, n, m : Given(l, n, m)' = Given(l, n, m)
      /\ \A l, n : Free(l, n)' = Free(l, n)
      /\ \A l, n, id : Earlier(l, n, id)' = Earlier(l, n, id)
      /\ \A l, n : SitesOf(l, n)' = SitesOf(l, n)
      /\ Cursor = <<i, j>> /\ Cursor' = <<i', j'>> /\ InputOK
  BY FillKeeps
<1>2. \A id \in SiteIds : Passed(id)' <=> Passed(id)
  BY <1>1 DEF Passed, Before, Skipped
<1>3. ASSUME NEW l \in 1 .. Len(lines), NEW n \in Name
      PROVE  Earlier(l, n, Cursor)' = Earlier(l, n, Cursor)
  <2>1. \A id \in SitesOf(l, n) : id \in SiteIds /\ ~Skipped(SiteOf(id))
    BY CallColumnsAssumption DEF SitesOf, Skipped
  <2>. QED
    BY <1>1, <2>1 DEF Earlier, Before
<1>. QED
  BY <1>1, <1>2, <1>3 DEF FillInv, IInv

LEMMA FillNextSymbolStep == IInv /\ FillNextSymbol => IInv'
<1> SUFFICES ASSUME IInv, FillNextSymbol PROVE IInv'
  OBVIOUS
<1>1. /\ TypeOK /\ InputOK /\ phase = "fill" /\ phase' = "fill"
      /\ i \in 1 .. Len(syms) /\ j \in Nat /\ j > Len(syms[i].sites)
      /\ i' = i + 1 /\ j' = 1
      /\ UNCHANGED <<lines, syms, ln, declared, used, col>>
  <2>1. TypeOK /\ InputOK
    BY DEF IInv, TypeOK, InputOK
  <2>. QED
    BY <2>1, SiteOK DEF TypeOK, FillNextSymbol
<1>2. /\ SiteIds' = SiteIds /\ DeclareInv'
      /\ \A l, n : NameColumns(l, n)' = NameColumns(l, n)
  BY <1>1, FillKeeps
<1>3. FillInv'
  BY <1>1, FillInvMoves, NextSymbolPlace
<1>4. TypeOK'
  <2>1. i' \in 1 .. Len(syms) + 1 /\ (i' <= Len(syms) => Len(syms[i'].sites) \in Nat)
    BY <1>1, SiteOK
  <2>2. j' \in 1 .. (IF i' <= Len(syms') THEN Len(syms'[i'].sites) ELSE 0) + 1
    BY <1>1, <2>1
  <2>. QED
    BY <1>1, <1>2, <2>1, <2>2 DEF TypeOK
<1>. QED
  BY <1>2, <1>3, <1>4 DEF IInv

\* Where the second loop is when it is at a site.
LEMMA AtSiteOK ==
  ASSUME IInv, AtSite
  PROVE  /\ TypeOK /\ InputOK /\ FillInv /\ phase = "fill"
         /\ i \in 1 .. Len(syms) /\ j \in 1 .. Len(syms[i].sites)
         /\ <<i, j>> \in SiteIds /\ SiteOf(<<i, j>>) = syms[i].sites[j]
<1>1. TypeOK /\ InputOK /\ FillInv
  BY DEF IInv, TypeOK, InputOK
<1>2. i \in 1 .. Len(syms) /\ j \in 1 .. Len(syms[i].sites)
  BY <1>1, SiteOK DEF TypeOK, AtSite
<1>. QED
  BY <1>1, <1>2, SiteOK DEF AtSite, SiteOf

LEMMA FillSkipStep == IInv /\ FillSkip => IInv'
<1> SUFFICES ASSUME IInv, FillSkip PROVE IInv'
  OBVIOUS
<1>1. /\ TypeOK /\ InputOK /\ phase = "fill" /\ phase' = "fill"
      /\ i \in 1 .. Len(syms) /\ j \in 1 .. Len(syms[i].sites)
      /\ <<i, j>> \in SiteIds /\ Skipped(SiteOf(<<i, j>>))
      /\ i' = i /\ j' = j + 1
      /\ UNCHANGED <<lines, syms, ln, declared, used, col>>
  BY AtSiteOK DEF FillSkip, AtSite
<1>2. /\ SiteIds' = SiteIds /\ DeclareInv'
      /\ \A l, n : NameColumns(l, n)' = NameColumns(l, n)
  BY <1>1, FillKeeps
<1>3. FillInv'
  BY <1>1, FillInvMoves, NextPlace
<1>4. TypeOK'
  BY <1>1, <1>2, SiteOK DEF TypeOK
<1>. QED
  BY <1>2, <1>3, <1>4 DEF IInv

LEMMA FillDoneStep == IInv /\ FillDone => IInv'
<1> SUFFICES ASSUME IInv, FillDone PROVE IInv'
  OBVIOUS
<1>1. /\ TypeOK /\ phase = "fill" /\ phase' = "done" /\ i > Len(syms)
      /\ UNCHANGED <<lines, syms, i, ln, j, declared, used, col>>
  BY DEF IInv, FillDone
<1>2. /\ SiteIds' = SiteIds /\ DeclareInv'
      /\ \A l, n : NameColumns(l, n)' = NameColumns(l, n)
  BY <1>1, FillKeeps
<1>3. FillInv'
  BY <1>1, FillInvMoves
<1>4. TypeOK'
  BY <1>1, <1>2 DEF TypeOK
<1>. QED
  BY <1>2, <1>3, <1>4 DEF IInv

\* A site that asks for a column gets the one that its rank gives it, and
\* its key has handed out one more, if there was one.
LEMMA FillSiteStep == IInv /\ FillSite => IInv'
<1> SUFFICES ASSUME IInv, FillSite PROVE IInv'
  OBVIOUS
<1> DEFINE id0 == <<i, j>>
           l0 == SiteOf(id0).line
           n0 == SiteOf(id0).name
           free0 == Cardinality(Free(l0, n0))
           m0 == Cardinality(Earlier(l0, n0, id0))
<1>1. /\ TypeOK /\ InputOK /\ FillInv /\ phase = "fill" /\ phase' = "fill"
      /\ i \in 1 .. Len(syms) /\ j \in 1 .. Len(syms[i].sites)
      /\ id0 \in SiteIds /\ ~Skipped(SiteOf(id0)) /\ SiteOf(id0) = syms[i].sites[j]
      /\ i' = i /\ j' = j + 1
      /\ UNCHANGED <<lines, syms, ln, declared>>
  BY AtSiteOK DEF FillSite, AtSite
<1>2. /\ SiteIds' = SiteIds /\ \A id : SiteOf(id)' = SiteOf(id)
      /\ \A l, n, m : Given(l, n, m)' = Given(l, n, m)
      /\ \A l, n : Free(l, n)' = Free(l, n) /\ NameColumns(l, n)' = NameColumns(l, n)
      /\ \A l, n, id : Earlier(l, n, id)' = Earlier(l, n, id)
      /\ \A l, n : SitesOf(l, n)' = SitesOf(l, n)
      /\ Cursor = id0 /\ Cursor' = <<i, j + 1>> /\ DeclareInv'
  BY <1>1, FillKeeps
<1>3. /\ l0 \in Nat \ {0} /\ n0 \in Name /\ SiteOf(id0).preset = 0
      /\ id0 \in SitesOf(l0, n0)
  <2>1. SiteOf(id0) \in Site
    BY <1>1, SiteOK
  <2>. QED
    BY <1>1, <2>1 DEF Site, Skipped, SitesOf
<1>4. /\ free0 \in Nat /\ m0 \in Nat
      /\ Free(l0, n0) # {} => l0 \in 1 .. Len(lines)
      /\ Free(l0, n0) = {} => free0 = 0
  BY <1>1, FreeOK, EarlierOK, ColumnsOK, FS_EmptySet
<1>5. l0 \in 1 .. Len(lines) => used[<<l0, n0>>] = IF m0 < free0 THEN m0 ELSE free0
  BY <1>1, <1>2, <1>3 DEF FillInv
<1>6. IF Free(l0, n0) # {} /\ used[<<l0, n0>>] < free0
      THEN /\ col' = [col EXCEPT ![id0] = Nth(Free(l0, n0), used[<<l0, n0>>])]
           /\ used' = [used EXCEPT ![<<l0, n0>>] = @ + 1]
      ELSE UNCHANGED <<col, used>>
  BY <1>1 DEF FillSite
<1>7. IF m0 < free0
      THEN /\ col' = [col EXCEPT ![id0] = Nth(Free(l0, n0), m0)]
           /\ used' = [used EXCEPT ![<<l0, n0>>] = m0 + 1]
           /\ l0 \in 1 .. Len(lines) /\ used[<<l0, n0>>] = m0
      ELSE UNCHANGED <<col, used>>
  <2> HIDE DEF l0, n0, m0, free0, id0
  <2>1. CASE m0 < free0
    <3>1. Free(l0, n0) # {} /\ l0 \in 1 .. Len(lines) /\ used[<<l0, n0>>] = m0
      BY <2>1, <1>4, <1>5
    <3>2. used' = [used EXCEPT ![<<l0, n0>>] = used[<<l0, n0>>] + 1]
      BY <2>1, <3>1, <1>6
    <3>. QED
      BY <2>1, <3>1, <3>2, <1>6
  <2>2. CASE ~(m0 < free0)
    <3>1. Free(l0, n0) # {} => used[<<l0, n0>>] = free0
      BY <2>2, <1>4, <1>5
    <3>. QED
      BY <2>2, <3>1, <1>4, <1>6
  <2>. QED
    BY <2>1, <2>2
<1>8. \A id \in SiteIds : Passed(id)' <=> Passed(id) \/ id = id0
  <2>1. \A id \in SiteIds : Before(id, <<i, j + 1>>) <=> Before(id, id0) \/ id = id0
    BY <1>1, NextPlace
  <2>. QED
    BY <1>1, <1>2, <2>1 DEF Passed, Before, Skipped
<1>9. ~Passed(id0) /\ col[id0] = 0
  BY <1>1, <1>2, <1>3, SitesOrdered DEF Passed, FillInv
<1>10. col' = [col EXCEPT ![id0] = Given(l0, n0, m0)] /\ Given(l0, n0, m0) \in Nat
  <2>1. CASE m0 < free0
    <3>1. Given(l0, n0, m0) = Nth(Free(l0, n0), m0)
      BY <2>1 DEF Given
    <3>2. Nth(Free(l0, n0), m0) \in Free(l0, n0)
      BY <2>1, <1>1, <1>4, FreeOK, NthIs
    <3>. QED
      BY <2>1, <3>1, <3>2, <1>1, <1>7, FreeOK
  <2>2. CASE ~(m0 < free0)
    BY <2>2, <1>7, <1>9, <1>1 DEF Given, TypeOK
  <2>. QED
    BY <2>1, <2>2
<1>11. TypeOK'
  <2>1. col' \in [SiteIds -> Nat]
    BY <1>1, <1>10 DEF TypeOK
  <2>2. /\ used' \in [(1 .. Len(lines)) \X Name -> Nat]
        /\ \A k \in DOMAIN used' : used'[k] <= Cardinality(NameColumns(k[1], k[2]))
    <3>1. CASE m0 < free0
      <4>1. free0 <= Cardinality(NameColumns(l0, n0)) /\ Cardinality(NameColumns(l0, n0)) \in Nat
        BY <1>1, FreeOK, ColumnsOK, FS_CardinalityType
      <4>2. m0 + 1 <= Cardinality(NameColumns(l0, n0))
        BY <4>1, <3>1, <1>4
      <4>3. <<l0, n0>> \in DOMAIN used
        BY <3>1, <1>1, <1>3, <1>7 DEF TypeOK
      <4>4. m0 + 1 \in Nat
        BY <1>4
      <4> DEFINE k0 == <<l0, n0>>
      <4> HIDE DEF l0, n0, m0, free0
      <4>5. used' = [used EXCEPT ![k0] = m0 + 1]
        BY <3>1, <1>7
      <4>6. k0[1] = l0 /\ k0[2] = n0
        OBVIOUS
      <4> HIDE DEF k0
      <4>7. used' \in [(1 .. Len(lines)) \X Name -> Nat]
        BY <4>4, <4>5, <1>1 DEF TypeOK
      <4>8. \A k \in DOMAIN used' : used'[k] = IF k = k0 THEN m0 + 1 ELSE used[k]
        BY <4>5
      <4>9. \A k \in DOMAIN used' : used'[k] <= Cardinality(NameColumns(k[1], k[2]))
        BY <4>2, <4>5, <4>6, <4>8, <1>1 DEF TypeOK
      <4>. QED
        BY <4>7, <4>9
    <3>2. CASE ~(m0 < free0)
      BY <3>2, <1>1, <1>7 DEF TypeOK
    <3>. QED
      BY <3>1, <3>2
  <2>3. j' \in 1 .. (IF i' <= Len(syms') THEN Len(syms'[i'].sites) ELSE 0) + 1
    BY <1>1, SiteOK
  <2>. QED
    BY <1>1, <1>2, <2>1, <2>2, <2>3 DEF TypeOK
<1>12. FillInv'
  <2>1. ASSUME NEW id \in SiteIds
        PROVE  col'[id] = IF Passed(id)'
                          THEN Given(SiteOf(id).line, SiteOf(id).name,
                                     Cardinality(Earlier(SiteOf(id).line, SiteOf(id).name, id)))
                          ELSE SiteOf(id).preset
    <3>1. CASE id = id0
      BY <3>1, <1>1, <1>8, <1>10 DEF TypeOK
    <3>2. CASE id # id0
      <4>1. col'[id] = col[id] /\ (Passed(id)' <=> Passed(id))
        BY <3>2, <1>1, <1>8, <1>10 DEF TypeOK
      <4>. QED
        BY <4>1, <1>1 DEF FillInv
    <3>. QED
      BY <3>1, <3>2
  <2>2. ASSUME NEW l \in 1 .. Len(lines), NEW n \in Name
        PROVE  LET m == Cardinality(Earlier(l, n, <<i, j + 1>>))
                   free == Cardinality(Free(l, n))
               IN  used'[<<l, n>>] = IF m < free THEN m ELSE free
    <3>1. \A id \in SitesOf(l, n) : Before(id, <<i, j + 1>>) <=> Before(id, id0) \/ id = id0
      BY <1>1, NextPlace DEF SitesOf
    <3>2. used[<<l, n>>] = LET m == Cardinality(Earlier(l, n, id0))
                               free == Cardinality(Free(l, n))
                           IN  IF m < free THEN m ELSE free
      BY <1>1, <1>2 DEF FillInv
    <3>3. CASE l = l0 /\ n = n0
      <4>1. Earlier(l0, n0, <<i, j + 1>>) = Earlier(l0, n0, id0) \cup {id0}
        BY <3>1, <3>3, <1>3 DEF Earlier
      <4>2. id0 \notin Earlier(l0, n0, id0)
        BY <1>1, SitesOrdered DEF Earlier
      <4>3. Cardinality(Earlier(l0, n0, <<i, j + 1>>)) = m0 + 1
        BY <4>1, <4>2, <1>1, EarlierOK, FS_AddElement
      <4>4. <<l0, n0>> \in DOMAIN used
        BY <3>3, <1>1 DEF TypeOK
      <4> HIDE DEF l0, n0, m0, free0, id0
      <4>5. used'[<<l0, n0>>] = IF m0 + 1 < free0 THEN m0 + 1 ELSE free0
        <5>1. CASE m0 < free0
          BY <5>1, <4>4, <1>4, <1>7
        <5>2. CASE ~(m0 < free0)
          BY <5>2, <3>3, <1>4, <1>5, <1>7
        <5>. QED
          BY <5>1, <5>2
      <4>. QED
        BY <4>3, <4>5, <3>3 DEF free0
    <3>4. CASE ~(l = l0 /\ n = n0)
      <4>1. id0 \notin SitesOf(l, n)
        BY <3>4 DEF SitesOf
      <4>2. Earlier(l, n, <<i, j + 1>>) = Earlier(l, n, id0)
        BY <3>1, <4>1 DEF Earlier
      <4>3. used'[<<l, n>>] = used[<<l, n>>]
        BY <3>4, <1>1, <1>7 DEF TypeOK
      <4>. QED
        BY <4>2, <4>3, <3>2
    <3>. QED
      BY <3>3, <3>4
  <2>. QED
    BY <2>1, <2>2, <1>1, <1>2 DEF FillInv
<1>. QED
  BY <1>2, <1>11, <1>12 DEF IInv

-----------------------------------------------------------------------------
(* Theorems *)

LEMMA StepIInv == IInv /\ [Next]_vars => IInv'
<1> SUFFICES ASSUME IInv, [Next]_vars PROVE IInv'
  OBVIOUS
<1>1. CASE DeclareSkip
  BY <1>1, DeclareSkipStep
<1>2. CASE DeclareHere
  BY <1>2, DeclareHereStep
<1>3. CASE DeclareNextLine
  BY <1>3, DeclareNextLineStep
<1>4. CASE DeclareNowhere
  BY <1>4, DeclareNowhereStep
<1>5. CASE DeclareDone
  BY <1>5, DeclareDoneStep
<1>6. CASE FillNextSymbol
  BY <1>6, FillNextSymbolStep
<1>7. CASE FillSkip
  BY <1>7, FillSkipStep
<1>8. CASE FillSite
  BY <1>8, FillSiteStep
<1>9. CASE FillDone
  BY <1>9, FillDoneStep
<1>10. CASE UNCHANGED vars
  <2>1. UNCHANGED <<lines, syms, phase, i, ln, j, declared, used, col>>
    BY <1>10 DEF vars
  <2>2. /\ SiteIds' = SiteIds /\ \A id : SiteOf(id)' = SiteOf(id)
        /\ \A l, n : NameColumns(l, n)' = NameColumns(l, n) /\ Free(l, n)' = Free(l, n)
    BY <2>1 DEF SiteIds, SiteOf, NameColumns, Free
  <2>3. /\ \A l, n, m : Given(l, n, m)' = Given(l, n, m)
        /\ \A l, n : SitesOf(l, n)' = SitesOf(l, n)
        /\ Cursor' = Cursor
    BY <2>1, <2>2 DEF Given, SitesOf, Cursor
  <2>4. /\ \A l, n, id : Earlier(l, n, id)' = Earlier(l, n, id)
        /\ \A id : Passed(id)' <=> Passed(id)
    BY <2>2, <2>3 DEF Earlier, Passed, Before, Skipped
  <2>5. \A l, n : Earlier(l, n, Cursor)' = Earlier(l, n, Cursor)
    BY <2>3, <2>4 DEF Earlier, Before
  <2>6. TypeOK'
    BY <2>1, <2>2 DEF IInv, TypeOK
  <2>7. DeclareInv'
    BY <2>1, <2>2 DEF IInv, DeclareInv
  <2>8. FillInv'
    BY <2>1, <2>2, <2>3, <2>4, <2>5 DEF IInv, FillInv
  <2>. QED
    BY <2>6, <2>7, <2>8 DEF IInv
<1>. QED
  BY <1>1, <1>2, <1>3, <1>4, <1>5, <1>6, <1>7, <1>8, <1>9, <1>10 DEF Next

\* In every file, at any time: the columns given so far are those that the
\* ranks of their sites give them, and what is set aside is where a symbol's
\* name was found (fillCallColumns, callcolumns.go:20-110).
THEOREM Inductive == Spec => []IInv
<1>. QED
  BY InitIInv, StepIInv, PTL DEF Spec

\* A column that the second loop gave is a free occurrence of the name.
LEMMA FilledOK ==
  ASSUME IInv, NEW id \in SiteIds, Filled(id)
  PROVE  LET l == SiteOf(id).line
             n == SiteOf(id).name
             m == Cardinality(Earlier(l, n, id))
         IN  /\ id \in SitesOf(l, n)
             /\ m \in Nat /\ m < Cardinality(Free(l, n))
             /\ col[id] = Nth(Free(l, n), m) /\ col[id] \in Free(l, n)
             /\ Cardinality(Smaller(Free(l, n), col[id])) = m
<1> DEFINE l == SiteOf(id).line
           n == SiteOf(id).name
           m == Cardinality(Earlier(l, n, id))
<1>1. InputOK /\ FillInv
  BY DEF IInv, TypeOK, InputOK
<1>2. col[id] = Given(l, n, m) /\ id \in SitesOf(l, n)
  BY <1>1 DEF FillInv, Filled, SitesOf
<1>3. m < Cardinality(Free(l, n)) /\ col[id] = Nth(Free(l, n), m)
  BY <1>2 DEF Given, Filled
<1>4. m \in Nat /\ Free(l, n) \subseteq Nat /\ IsFiniteSet(Free(l, n))
  BY <1>1, EarlierOK, FreeOK
<1> HIDE DEF l, n, m
<1>5. col[id] \in Free(l, n) /\ Cardinality(Smaller(Free(l, n), col[id])) = m
  BY <1>3, <1>4, NthIs
<1>. QED
  BY <1>2, <1>3, <1>4, <1>5 DEF l, n, m

\* For every file: a column given to a call site is where the called name
\* stands, looking called, and no declaration was put there.
THEOREM CalleeIsNamed == Spec => []NamesTheCallee
<1>1. IInv => NamesTheCallee
  <2> SUFFICES ASSUME IInv, NEW id \in SiteIds, Filled(id)
               PROVE  col[id] \in Free(SiteOf(id).line, SiteOf(id).name)
    BY DEF NamesTheCallee, Free
  <2>. QED
    BY FilledOK
<1>. QED
  BY <1>1, Inductive, PTL

\* For every file: two call sites on a line never get the same column, of
\* whichever symbols they are and however often they repeat a name.
THEOREM TokensNotShared == Spec => []NoSharedToken
<1>1. IInv => NoSharedToken
  <2> SUFFICES ASSUME IInv, NEW a \in SiteIds, NEW b \in SiteIds,
                      a # b, Filled(a), Filled(b),
                      SiteOf(a).line = SiteOf(b).line, col[a] = col[b]
               PROVE  FALSE
    BY DEF NoSharedToken
  <2> DEFINE l == SiteOf(a).line
             n == SiteOf(a).name
  <2>1. InputOK
    BY DEF IInv, TypeOK, InputOK
  <2>2. /\ a \in SitesOf(l, n) /\ col[a] \in Free(l, n)
        /\ Cardinality(Smaller(Free(l, n), col[a])) = Cardinality(Earlier(l, n, a))
        /\ Cardinality(Earlier(l, n, a)) \in Nat
    BY FilledOK
  <2>3. /\ b \in SitesOf(l, SiteOf(b).name) /\ col[b] \in Free(l, SiteOf(b).name)
        /\ Cardinality(Smaller(Free(l, SiteOf(b).name), col[b]))
              = Cardinality(Earlier(l, SiteOf(b).name, b))
        /\ Cardinality(Earlier(l, SiteOf(b).name, b)) \in Nat
    BY FilledOK
  <2>4. SiteOf(b).name = n
    BY <2>1, <2>2, <2>3, FreeOK, ColumnsOK
  <2>5. Cardinality(Earlier(l, n, a)) = Cardinality(Earlier(l, n, b))
    BY <2>2, <2>3, <2>4
  <2>6. Before(a, b) \/ Before(b, a)
    BY <2>1, SitesOrdered
  <2>. QED
    BY <2>1, <2>2, <2>3, <2>4, <2>5, <2>6, EarlierGrows
<1>. QED
  BY <1>1, Inductive, PTL

\* Where the source is plain, the free occurrences are the sites' tokens.
LEMMA PlainFree ==
  ASSUME IInv, phase = "done", NEW l \in 1 .. Len(lines), NEW n \in Name, Plain(l, n)
  PROVE  Free(l, n) = {SiteOf(id).tok : id \in SitesOf(l, n)}
<1>1. InputOK /\ DeclareInv
  BY DEF IInv, TypeOK, InputOK
<1>2. ASSUME NEW c \in NameColumns(l, n), <<l, c>> \in declared
      PROVE  c \in Declarations(l, n)
  <2>1. PICK a \in 1 .. Len(syms) :
          /\ c \in NameColumns(l, syms[a].name)
          /\ c = Nth(NameColumns(l, syms[a].name), 0)
          /\ NameColumns(syms[a].start, syms[a].name) # {} => l = syms[a].start
    BY <1>1, <1>2 DEF DeclareInv
  <2>2. syms[a].name = n
    BY <1>1, <1>2, <2>1, ColumnsOK
  <2>3. l = syms[a].start
    BY <2>1, <2>2 DEF Plain
  <2>. QED
    BY <2>1, <2>2, <2>3 DEF Declarations
<1>3. ASSUME NEW c \in Declarations(l, n)
      PROVE  <<l, c>> \in declared
  <2>1. PICK a \in 1 .. Len(syms) :
          syms[a].name = n /\ syms[a].start = l /\ c = Nth(NameColumns(l, n), 0)
    BY <1>3 DEF Declarations
  <2>2. NameColumns(syms[a].start, syms[a].name) # {} /\ syms[a].name # NoName
    BY <2>1, CallColumnsAssumption DEF Plain
  <2>. QED
    BY <1>1, <2>1, <2>2 DEF DeclareInv
<1>4. Free(l, n) = NameColumns(l, n) \ Declarations(l, n)
  BY <1>2, <1>3 DEF Free
<1>. QED
  BY <1>4 DEF Plain

\* There, the tokens before a site's are those of the sites before it.
LEMMA PlainRank ==
  ASSUME IInv, phase = "done", NEW l \in 1 .. Len(lines), NEW n \in Name, Plain(l, n),
         NEW id \in SitesOf(l, n)
  PROVE  Cardinality(Smaller(Free(l, n), SiteOf(id).tok)) = Cardinality(Earlier(l, n, id))
<1> DEFINE E == Earlier(l, n, id)
           B == Smaller(Free(l, n), SiteOf(id).tok)
           f == [e \in E |-> SiteOf(e).tok]
<1>1. InputOK /\ id \in SiteIds /\ \A e \in SitesOf(l, n) : e \in SiteIds
  BY DEF IInv, TypeOK, InputOK, SitesOf
<1>2. \A e \in SitesOf(l, n) : SiteOf(e).tok \in Nat
  BY <1>1, SiteOK DEF Site
<1>3. \A a, b \in SitesOf(l, n) : Before(a, b) => SiteOf(a).tok < SiteOf(b).tok
  BY DEF Plain
<1>4. \A a, b \in SitesOf(l, n) : a # b => Before(a, b) \/ Before(b, a)
  BY <1>1, SitesOrdered
<1>5. E \subseteq SitesOf(l, n)
  BY DEF Earlier
<1>6. B = {SiteOf(e).tok : e \in E}
  <2>1. Free(l, n) = {SiteOf(e).tok : e \in SitesOf(l, n)}
    BY PlainFree
  <2>2. \A e \in SitesOf(l, n) : SiteOf(e).tok < SiteOf(id).tok <=> Before(e, id)
    BY <1>2, <1>3, <1>4
  <2>. QED
    BY <2>1, <2>2 DEF Smaller, Earlier
<1>7. f \in [E -> B] /\ \A b \in B : \E e \in E : f[e] = b
  BY <1>6
<1>8. \A a, b \in E : f[a] = f[b] => a = b
  BY <1>2, <1>3, <1>4, <1>5
<1>9. IsFiniteSet(E)
  BY <1>1, EarlierOK
<1> HIDE DEF E, B, f
<1>10. f \in Bijection(E, B)
  BY <1>7, <1>8 DEF Bijection, Injection, Surjection, IsInjective
<1>11. Cardinality(B) = Cardinality(E)
  BY <1>9, <1>10, FS_Bijection DEF ExistsBijection
<1>. QED
  BY <1>11 DEF B, E

\* For every file: where a name is used plainly on a line (its declarations
\* first, the calls recorded in source order), every call site of it has the
\* column of its own token, whatever the rest of the file is.
THEOREM PlainIsExact == Spec => []ExactWhenPlain
<1>1. IInv => ExactWhenPlain
  <2> SUFFICES ASSUME IInv, phase = "done",
                      NEW l \in 1 .. Len(lines), NEW n \in Name, Plain(l, n),
                      NEW id \in SitesOf(l, n)
               PROVE  col[id] = SiteOf(id).tok
    BY DEF ExactWhenPlain
  <2>1. InputOK /\ TypeOK /\ FillInv
    BY DEF IInv, TypeOK, InputOK
  <2>2. id \in SiteIds /\ SiteOf(id).line = l /\ SiteOf(id).name = n /\ SiteOf(id).preset = 0
    BY DEF SitesOf
  <2>3. Passed(id)
    <3>1. PICK x \in 1 .. Len(syms) : \E y \in 1 .. Len(syms[x].sites) : id = <<x, y>>
      BY <2>1, <2>2, SiteOK
    <3>2. id[1] = x /\ x < i
      BY <2>1, <3>1, SiteOK DEF TypeOK
    <3>. QED
      BY <2>2, <3>2, CallColumnsAssumption DEF Passed, Cursor, Before, Skipped
  <2>4. col[id] = Given(l, n, Cardinality(Earlier(l, n, id)))
    BY <2>1, <2>2, <2>3 DEF FillInv
  <2>5. Cardinality(Smaller(Free(l, n), SiteOf(id).tok)) = Cardinality(Earlier(l, n, id))
    BY PlainRank
  <2>6. SiteOf(id).tok \in Free(l, n)
    BY PlainFree
  <2>7. Free(l, n) \subseteq Nat /\ IsFiniteSet(Free(l, n))
    BY <2>1, FreeOK
  <2>8. /\ Cardinality(Earlier(l, n, id)) < Cardinality(Free(l, n))
        /\ Nth(Free(l, n), Cardinality(Earlier(l, n, id))) = SiteOf(id).tok
    BY <2>5, <2>6, <2>7, RankGrows, NthOf
  <2>. QED
    BY <2>4, <2>8 DEF Given
<1>. QED
  BY <1>1, Inductive, PTL

-----------------------------------------------------------------------------
(* Kotlin: the comments put back *)

\* The bytes cut that the tree still lacks when points has reached p.
Missing(p) == {b \in CutBytes : b >= p}

\* The offset points has reached after the first n cuts.
Reached(n) == IF n = 0 THEN 0 ELSE Cuts[n][2]

\* What is put back so far is the first n cuts.
Progress(n) ==
  /\ n \in 0 .. Len(Cuts)
  /\ todo = SubSeq(Cuts, n + 1, Len(Cuts))
  /\ at = Position(Reached(n), {})
  /\ tree = Parsed(Missing(Reached(n)))

KotlinIInv ==
  /\ Len(src) \in Nat
  /\ stage = "parse" => at = Start
  /\ stage = "edit" => \E n \in 0 .. Len(Cuts) - 1 : Progress(n)
  /\ stage = "done" => tree = Parsed({})

-----------------------------------------------------------------------------
(* Lines and cuts *)

\* A line starts where LineStart says, and nowhere else.
IsLineStart(s, b) ==
  /\ s \in 0 .. b /\ (s = 0 \/ At(s - 1) = "\n")
  /\ \A m \in s .. b - 1 : At(m) # "\n"

LEMMA LineStartIs ==
  ASSUME NEW b \in Nat, NEW s, IsLineStart(s, b)
  PROVE  LineStart(b) = s
<1>1. ASSUME NEW r, IsLineStart(r, b), r # s
      PROVE  FALSE
  <2>1. CASE r < s
    <3>1. s - 1 \in r .. b - 1 /\ At(s - 1) = "\n"
      BY <2>1, <1>1 DEF IsLineStart
    <3>. QED
      BY <3>1, <1>1 DEF IsLineStart
  <2>2. CASE s < r
    <3>1. r - 1 \in s .. b - 1 /\ At(r - 1) = "\n"
      BY <2>2, <1>1 DEF IsLineStart
    <3>. QED
      BY <3>1, <1>1 DEF IsLineStart
  <2>. QED
    BY <1>1, <2>1, <2>2 DEF IsLineStart
<1>. QED
  BY <1>1 DEF LineStart, IsLineStart

\* Every line has a start: the largest number a line may start at.
LEMMA LineStartExists ==
  ASSUME NEW b \in Nat
  PROVE  \E s : IsLineStart(s, b)
<1> DEFINE T == {d \in 0 .. b : b - d = 0 \/ At(b - d - 1) = "\n"}
<1>1. T \subseteq Nat /\ T # {}
  <2>1. b \in T
    OBVIOUS
  <2>. QED
    BY <2>1
<1>2. PICK d \in T : \A x \in T : d <= x
  <2> HIDE DEF T
  <2>. QED
    BY <1>1, LeastNat
<1>3. \A m \in b - d .. b - 1 : At(m) # "\n"
  <2> SUFFICES ASSUME NEW m \in b - d .. b - 1, At(m) = "\n" PROVE FALSE
    OBVIOUS
  <2>1. b - m - 1 \in 0 .. b /\ b - (b - m - 1) - 1 = m
    OBVIOUS
  <2>2. b - m - 1 \in T
    BY <2>1
  <2>3. d <= b - m - 1
    BY <2>2, <1>2
  <2>. QED
    BY <2>3, <1>2
<1>4. IsLineStart(b - d, b)
  BY <1>2, <1>3 DEF IsLineStart
<1>. QED
  BY <1>4

\* A byte after one that is no newline is on that one's line.
LEMMA NextOnLine ==
  ASSUME NEW b \in Nat, At(b) # "\n"
  PROVE  LineStart(b + 1) = LineStart(b)
<1>1. PICK s : IsLineStart(s, b)
  BY LineStartExists
<1>2. IsLineStart(s, b + 1)
  <2>1. \A m \in s .. (b + 1) - 1 : m = b \/ m \in s .. b - 1
    BY <1>1 DEF IsLineStart
  <2>. QED
    BY <1>1, <2>1 DEF IsLineStart
<1>. QED
  BY <1>1, <1>2, LineStartIs

\* Lines are cut as a whole.
LEMMA CutOfLine ==
  ASSUME NEW a \in Bytes, NEW b \in Bytes, SameLine(a, b), a \in CutBytes
  PROVE  b \in CutBytes
  BY DEF CutBytes, CommentOnly, SameLine

LEMMA CutAtNewline ==
  ASSUME Len(src) \in Nat, NEW b \in Nat, b + 1 \in Bytes,
         (b \in CutBytes) # (b + 1 \in CutBytes)
  PROVE  At(b) = "\n"
<1> SUFFICES ASSUME At(b) # "\n" PROVE FALSE
  OBVIOUS
<1>1. b \in Bytes
  BY DEF Bytes
<1>2. SameLine(b, b + 1) /\ SameLine(b + 1, b)
  BY NextOnLine DEF SameLine
<1>. QED
  BY <1>1, <1>2, CutOfLine

LEMMA CodeNotCut ==
  ASSUME NEW b \in Code
  PROVE  b \in Bytes /\ b \notin CutBytes
  BY DEF Code, CutBytes, CommentOnly, SameLine

\* What a cut is: a stretch of bytes cut, that begins and ends with lines.
IsCut(s, e) ==
  /\ s \in Bytes /\ e \in s + 1 .. Len(src)
  /\ s .. e - 1 \subseteq CutBytes /\ s - 1 \notin CutBytes /\ e \notin CutBytes
  /\ s = 0 \/ At(s - 1) = "\n"
  /\ e = Len(src) \/ At(e - 1) = "\n"

LEMMA CutIs ==
  ASSUME Len(src) \in Nat, NEW s \in CutStarts
  PROVE  CutFrom(s)[1] = s /\ IsCut(s, CutFrom(s)[2])
<1>1. s \in Bytes /\ s \in CutBytes /\ s - 1 \notin CutBytes /\ CutBytes \subseteq Bytes
  BY DEF CutStarts, CutBytes
<1> DEFINE T == {e \in Nat : e > s /\ e \notin CutBytes}
<1>2. Len(src) \in T
  BY <1>1 DEF Bytes
<1>3. PICK e \in T : \A x \in T : e <= x
  <2>1. T \subseteq Nat /\ T # {}
    BY <1>2
  <2> HIDE DEF T
  <2>. QED
    BY <2>1, LeastNat
<1>4. e \in s + 1 .. Len(src) /\ e \notin CutBytes
  BY <1>1, <1>2, <1>3 DEF Bytes
<1>5. \A m \in s .. e - 1 : m \in CutBytes
  <2> SUFFICES ASSUME NEW m \in s .. e - 1, m \notin CutBytes PROVE FALSE
    OBVIOUS
  <2>1. m \in T
    BY <1>1, <1>4 DEF Bytes
  <2>. QED
    BY <2>1, <1>3, <1>4
<1>6. PICK f : /\ CutFrom(s) = <<s, f>> /\ f \in s + 1 .. Len(src) /\ f \notin CutBytes
               /\ \A m \in s .. f - 1 : m \in CutBytes
  BY <1>4, <1>5 DEF CutFrom
<1>7. s = 0 \/ At(s - 1) = "\n"
  <2>1. SUFFICES ASSUME s # 0 PROVE At(s - 1) = "\n"
    OBVIOUS
  <2>2. s - 1 \in Nat /\ (s - 1) + 1 = s
    BY <2>1, <1>1 DEF Bytes
  <2>. QED
    BY <2>2, <1>1, CutAtNewline
<1>8. f = Len(src) \/ At(f - 1) = "\n"
  <2>1. SUFFICES ASSUME f # Len(src) PROVE At(f - 1) = "\n"
    OBVIOUS
  <2>2. f - 1 \in Nat /\ (f - 1) + 1 = f /\ f \in Bytes /\ f - 1 \in s .. f - 1
    BY <2>1, <1>1, <1>6 DEF Bytes
  <2>. QED
    BY <2>2, <1>6, CutAtNewline
<1>. QED
  BY <1>1, <1>6, <1>7, <1>8 DEF IsCut

\* The cuts are those of the runs' first bytes, in order.
LEMMA CutsAre ==
  ASSUME Len(src) \in Nat
  PROVE  /\ CutStarts \subseteq Nat /\ IsFiniteSet(CutStarts)
         /\ Cuts \in Seq(Nat \X Nat) /\ Len(Cuts) = Cardinality(CutStarts) /\ Len(Cuts) \in Nat
         /\ \A k \in 1 .. Len(Cuts) :
              /\ Cuts[k][1] \in CutStarts /\ IsCut(Cuts[k][1], Cuts[k][2])
              /\ Cardinality(Smaller(CutStarts, Cuts[k][1])) = k - 1
<1>1. CutStarts \subseteq 0 .. Len(src) - 1 /\ CutStarts \subseteq Nat
  BY DEF CutStarts, CutBytes, Bytes
<1>2. CutStarts \subseteq Nat /\ IsFiniteSet(CutStarts) /\ Cardinality(CutStarts) \in Nat
  <2>1. IsFiniteSet(0 .. Len(src) - 1)
    BY FS_Interval
  <2>2. IsFiniteSet(CutStarts)
    BY <1>1, <2>1, FS_Subset
  <2>. QED
    BY <1>1, <2>2, FS_CardinalityType
<1> DEFINE At1(k) == CHOOSE s \in CutStarts : Cardinality({r \in CutStarts : r < s}) = k - 1
<1>3. ASSUME NEW k \in 1 .. Cardinality(CutStarts)
      PROVE  At1(k) \in CutStarts /\ Cardinality(Smaller(CutStarts, At1(k))) = k - 1
  <2>1. k - 1 \in Nat /\ k - 1 < Cardinality(CutStarts)
    BY <1>2
  <2>2. \E s \in CutStarts : Cardinality(Smaller(CutStarts, s)) = k - 1
    BY <2>1, <1>2, RankTaken
  <2>. QED
    BY <2>2 DEF Smaller
<1>4. ASSUME NEW k \in 1 .. Cardinality(CutStarts)
      PROVE  /\ CutFrom(At1(k)) \in Nat \X Nat
             /\ CutFrom(At1(k))[1] = At1(k) /\ IsCut(At1(k), CutFrom(At1(k))[2])
  <2>1. At1(k) \in CutStarts
    BY <1>3
  <2> HIDE DEF At1
  <2>2. CutFrom(At1(k))[1] = At1(k) /\ IsCut(At1(k), CutFrom(At1(k))[2])
    BY <2>1, CutIs
  <2>3. \E e : CutFrom(At1(k)) = <<At1(k), e>>
    BY DEF CutFrom
  <2>4. At1(k) \in Nat /\ CutFrom(At1(k))[2] \in Nat
    <3>1. At1(k) \in Nat
      BY <2>1, <1>2
    <3>2. CutFrom(At1(k))[2] \in At1(k) + 1 .. Len(src)
      BY <2>2 DEF IsCut
    <3>. QED
      BY <3>1, <3>2
  <2>. QED
    BY <2>2, <2>3, <2>4
<1>5. Cuts = [k \in 1 .. Cardinality(CutStarts) |-> CutFrom(At1(k))]
  BY DEF Cuts
<1> HIDE DEF At1
<1>6. Cuts \in Seq(Nat \X Nat) /\ Len(Cuts) = Cardinality(CutStarts)
  BY <1>2, <1>4, <1>5
<1>7. \A k \in 1 .. Len(Cuts) : Cuts[k] = CutFrom(At1(k))
  BY <1>5, <1>6
<1>. QED
  BY <1>2, <1>3, <1>4, <1>6, <1>7

\* A byte cut is of a run that starts at it or before it.
LEMMA RunStart ==
  ASSUME Len(src) \in Nat, NEW c \in CutBytes
  PROVE  \E r \in CutStarts : r <= c /\ r .. c \subseteq CutBytes
<1> DEFINE T == {x \in 0 .. c : x .. c \subseteq CutBytes}
<1>1. c \in Nat /\ CutBytes \subseteq Nat
  BY DEF CutBytes, Bytes
<1>2. c \in T /\ T \subseteq Nat
  BY <1>1
<1>3. PICK r \in T : \A x \in T : r <= x
  <2> HIDE DEF T
  <2>. QED
    BY <1>2, LeastNat
<1>4. r - 1 \notin CutBytes
  <2> SUFFICES ASSUME r - 1 \in CutBytes PROVE FALSE
    OBVIOUS
  <2>1. r - 1 \in 0 .. c
    BY <1>1, <1>3
  <2>2. \A m \in r - 1 .. c : m = r - 1 \/ m \in r .. c
    BY <2>1, <1>3
  <2>3. r - 1 \in T
    BY <2>1, <2>2, <1>3
  <2>. QED
    BY <2>3, <1>3, <1>1
<1>5. r \in CutBytes /\ r <= c
  BY <1>1, <1>3
<1>. QED
  BY <1>3, <1>4, <1>5 DEF CutStarts

LEMMA CutsOrdered ==
  ASSUME Len(src) \in Nat, NEW n \in 0 .. Len(Cuts) - 1
  PROVE  Reached(n) \in Nat /\ Reached(n) <= Cuts[n + 1][1]
<1>1. n + 1 \in 1 .. Len(Cuts) /\ Len(Cuts) \in Nat
  BY CutsAre
<1> DEFINE s == Cuts[n + 1][1]
<1>2. s \in CutStarts /\ s \in Nat /\ Cardinality(Smaller(CutStarts, s)) = n
  BY <1>1, CutsAre
<1>3. CASE n = 0
  BY <1>2, <1>3 DEF Reached
<1>4. CASE n # 0
  <2> DEFINE r == Cuts[n][1]
             e == Cuts[n][2]
  <2>1. n \in 1 .. Len(Cuts)
    BY <1>1, <1>4
  <2>2. r \in CutStarts /\ r \in Nat /\ Cardinality(Smaller(CutStarts, r)) = n - 1 /\ IsCut(r, e)
    BY <2>1, CutsAre
  <2> HIDE DEF r, e, s
  <2>3. r < s
    <3>1. s < r => Cardinality(Smaller(CutStarts, s)) < Cardinality(Smaller(CutStarts, r))
      BY <1>2, <2>2, CutsAre, RankGrows
    <3>2. s # r
      BY <1>2, <2>2
    <3>. QED
      BY <3>1, <3>2, <1>1, <1>2, <2>2
  <2>4. s - 1 \notin CutBytes
    BY <1>2 DEF CutStarts
  <2>5. e \in Nat /\ e <= s
    BY <2>2, <2>3, <2>4, <1>2 DEF IsCut
  <2>. QED
    BY <2>5, <1>4 DEF Reached, e, s
<1>. QED
  BY <1>3, <1>4

\* What is missing after n cuts starts with the next cut.
LEMMA NextCut ==
  ASSUME Len(src) \in Nat, NEW n \in 0 .. Len(Cuts), NEW c \in Missing(Reached(n))
  PROVE  n < Len(Cuts) /\ Cuts[n + 1][1] <= c
<1>1. c \in CutBytes /\ c \in Nat /\ c >= Reached(n)
  BY DEF Missing, CutBytes, Bytes
<1>2. PICK r \in CutStarts : r <= c /\ r .. c \subseteq CutBytes
  BY <1>1, RunStart
<1>3. r \in Nat /\ Len(Cuts) \in Nat /\ Len(Cuts) = Cardinality(CutStarts)
  BY CutsAre
<1>4. Cardinality(Smaller(CutStarts, r)) \in Nat
  BY <1>3, CutsAre, SmallerFinite
<1>5. Cardinality(Smaller(CutStarts, r)) >= n
  <2>1. CASE n = 0
    BY <2>1, <1>4
  <2>2. CASE n # 0
    <3> DEFINE s == Cuts[n][1]
               e == Cuts[n][2]
    <3>1. s \in CutStarts /\ s \in Nat /\ Cardinality(Smaller(CutStarts, s)) = n - 1 /\ IsCut(s, e)
      BY <2>2, <1>3, CutsAre
    <3>2. e <= c
      BY <1>1, <2>2 DEF Reached
    <3> HIDE DEF s, e
    <3>3. s < r
      <4>1. e \notin r .. c /\ e \in Nat /\ s < e
        BY <3>1, <1>2 DEF IsCut
      <4>. QED
        BY <4>1, <3>1, <3>2, <1>1, <1>2, <1>3
    <3>4. Cardinality(Smaller(CutStarts, s)) < Cardinality(Smaller(CutStarts, r))
      BY <3>1, <3>3, CutsAre, RankGrows
    <3>. QED
      BY <3>1, <3>4, <1>4, <1>3
  <2>. QED
    BY <2>1, <2>2
<1>6. n < Len(Cuts)
  <2>1. Cardinality(Smaller(CutStarts, r)) < Cardinality(CutStarts)
    BY CutsAre, RankGrows
  <2>. QED
    BY <2>1, <1>3, <1>4, <1>5
<1>7. Cuts[n + 1][1] <= r
  <2> DEFINE s == Cuts[n + 1][1]
  <2>1. s \in CutStarts /\ s \in Nat /\ Cardinality(Smaller(CutStarts, s)) = n
    BY <1>3, <1>6, CutsAre
  <2> HIDE DEF s
  <2>2. r < s => Cardinality(Smaller(CutStarts, r)) < Cardinality(Smaller(CutStarts, s))
    BY <2>1, CutsAre, RankGrows
  <2>3. s <= r
    BY <2>1, <2>2, <1>3, <1>4, <1>5
  <2>. QED
    BY <2>3 DEF s
<1>8. Cuts[n + 1][1] \in Nat
  BY <1>3, <1>6, CutsAre
<1>. QED
  BY <1>1, <1>2, <1>3, <1>6, <1>7, <1>8

LEMMA MissingStep ==
  ASSUME Len(src) \in Nat, NEW n \in 0 .. Len(Cuts) - 1
  PROVE  LET s == Cuts[n + 1][1]
             e == Cuts[n + 1][2]
         IN  /\ IsCut(s, e) /\ Reached(n + 1) = e
             /\ s .. e - 1 \subseteq Missing(Reached(n))
             /\ Missing(Reached(n + 1)) = Missing(Reached(n)) \ (s .. e - 1)
             /\ \A c \in Missing(Reached(n)) : c >= s
<1> DEFINE s == Cuts[n + 1][1]
           e == Cuts[n + 1][2]
<1>1. n + 1 \in 1 .. Len(Cuts) /\ n + 1 # 0 /\ n \in 0 .. Len(Cuts)
  BY CutsAre
<1>2. IsCut(s, e) /\ Reached(n + 1) = e
  BY <1>1, CutsAre DEF Reached
<1>3. Reached(n) \in Nat /\ Reached(n) <= s
  BY CutsOrdered
<1>4. \A c \in Missing(Reached(n)) : c >= s
  <2> TAKE c \in Missing(Reached(n))
  <2>1. s <= c
    BY <1>1, NextCut
  <2>. QED
    BY <2>1, <1>2 DEF IsCut, Missing, CutBytes, Bytes
<1> HIDE DEF s, e
<1>5. s \in Nat /\ e \in Nat /\ s < e /\ s .. e - 1 \subseteq CutBytes /\ CutBytes \subseteq Nat
  BY <1>2 DEF IsCut, CutBytes, Bytes
<1>6. s .. e - 1 \subseteq Missing(Reached(n))
  BY <1>3, <1>5 DEF Missing
<1>7. Missing(e) = Missing(Reached(n)) \ (s .. e - 1)
  <2>1. ASSUME NEW c \in Missing(e)
        PROVE  c \in Missing(Reached(n)) \ (s .. e - 1)
    BY <1>3, <1>5 DEF Missing
  <2>2. ASSUME NEW c \in Missing(Reached(n)) \ (s .. e - 1)
        PROVE  c \in Missing(e)
    <3>1. c \in CutBytes /\ c \in Nat /\ c >= s
      BY <1>4, <1>5 DEF Missing
    <3>. QED
      BY <3>1, <1>5 DEF Missing
  <2>. QED
    BY <2>1, <2>2
<1>. QED
  BY <1>2, <1>4, <1>6, <1>7 DEF s, e

-----------------------------------------------------------------------------
(* Positions *)

\* What is counted in a position.
RowBytes(b, gone) == {m \in 0 .. b - 1 : m \notin gone /\ At(m) = "\n"}
ColBytes(b, gone) ==
  {m \in 0 .. b - 1 : m \notin gone /\ \A r \in m .. b - 1 : r \in gone \/ At(r) # "\n"}

LEMMA PositionIs ==
  ASSUME NEW b, NEW gone
  PROVE  Position(b, gone) = [byte |-> Cardinality((0 .. b - 1) \ gone),
                              row |-> Cardinality(RowBytes(b, gone)),
                              col |-> Cardinality(ColBytes(b, gone))]
  BY DEF Position, RowOf, ColOf, RowBytes, ColBytes

LEMMA FinitePart ==
  ASSUME NEW a \in Nat, NEW b \in Nat, NEW S, S \subseteq a .. b - 1
  PROVE  IsFiniteSet(S) /\ Cardinality(S) \in Nat
<1>1. IsFiniteSet(a .. b - 1)
  BY FS_Interval
<1>2. IsFiniteSet(S)
  BY <1>1, FS_Subset
<1>. QED
  BY <1>2, FS_CardinalityType

LEMMA DisjointSum ==
  ASSUME NEW A, NEW B, IsFiniteSet(A), IsFiniteSet(B), A \cap B = {}
  PROVE  Cardinality(A \cup B) = Cardinality(A) + Cardinality(B)
<1>1. Cardinality(A) \in Nat /\ Cardinality(B) \in Nat
  BY FS_CardinalityType
<1>2. Cardinality(A \cup B) = Cardinality(A) + Cardinality(B) - Cardinality({})
  BY FS_Union
<1>. QED
  BY <1>1, <1>2, FS_EmptySet

\* A position is of natural numbers, and in the source itself a byte's offset
\* is its own.
LEMMA PositionType ==
  ASSUME NEW b \in Nat, NEW gone
  PROVE  /\ Position(b, gone).byte \in Nat /\ Position(b, gone).row \in Nat
         /\ Position(b, gone).col \in Nat
         /\ Position(b, {}).byte = b
         /\ Position(b, gone) = [byte |-> Position(b, gone).byte,
                                 row |-> Position(b, gone).row,
                                 col |-> Position(b, gone).col]
<1>1. /\ (0 .. b - 1) \ gone \subseteq 0 .. b - 1
      /\ RowBytes(b, gone) \subseteq 0 .. b - 1 /\ ColBytes(b, gone) \subseteq 0 .. b - 1
  BY DEF RowBytes, ColBytes
<1>2. /\ Cardinality((0 .. b - 1) \ gone) \in Nat
      /\ Cardinality(RowBytes(b, gone)) \in Nat /\ Cardinality(ColBytes(b, gone)) \in Nat
  BY <1>1, FinitePart
<1>3. Cardinality((0 .. b - 1) \ {}) = b
  <2>1. Cardinality(0 .. b - 1) = b
    BY FS_Interval
  <2>2. (0 .. b - 1) \ {} = 0 .. b - 1
    OBVIOUS
  <2>. QED
    BY <2>1, <2>2
<1>4. Position(b, {}).byte = Cardinality((0 .. b - 1) \ {})
  BY PositionIs
<1>. QED
  BY <1>2, <1>3, <1>4, PositionIs

\* A line starts in column 0.
LEMMA ColumnZero ==
  ASSUME NEW b \in Nat, b = 0 \/ At(b - 1) = "\n"
  PROVE  Position(b, {}).col = 0
<1>1. ColBytes(b, {}) = {}
  <2> SUFFICES ASSUME NEW m \in ColBytes(b, {}) PROVE FALSE
    OBVIOUS
  <2>1. m \in 0 .. b - 1 /\ b - 1 \in m .. b - 1
    BY DEF ColBytes
  <2>2. At(b - 1) = "\n"
    BY <2>1
  <2>. QED
    BY <2>1, <2>2 DEF ColBytes
<1>. QED
  BY <1>1, FS_EmptySet, PositionIs

LEMMA StartPosition == Start = Position(0, {})
<1>1. RowBytes(0, {}) = {} /\ ColBytes(0, {}) = {} /\ (0 .. 0 - 1) \ {} = {}
  BY DEF RowBytes, ColBytes
<1>. QED
  BY <1>1, FS_EmptySet, PositionIs DEF Start

\* The rows of a stretch are those up to it and those in it.
LEMMA RowsAdd ==
  ASSUME NEW a \in Nat, NEW b \in Nat, a <= b
  PROVE  /\ Cardinality({m \in a .. b - 1 : At(m) = "\n"}) \in Nat
         /\ Position(b, {}).row =
              Position(a, {}).row + Cardinality({m \in a .. b - 1 : At(m) = "\n"})
<1> DEFINE R == {m \in a .. b - 1 : At(m) = "\n"}
<1>1. R \subseteq a .. b - 1 /\ RowBytes(a, {}) \subseteq 0 .. a - 1
  BY DEF RowBytes
<1>2. IsFiniteSet(R) /\ Cardinality(R) \in Nat
  <2> HIDE DEF R
  <2>. QED
    BY <1>1, FinitePart
<1>3. IsFiniteSet(RowBytes(a, {}))
  BY <1>1, FinitePart
<1>4. RowBytes(a, {}) \cap R = {}
  BY <1>1
<1>5. RowBytes(b, {}) = RowBytes(a, {}) \cup R
  BY DEF RowBytes
<1>6. Cardinality(RowBytes(b, {})) = Cardinality(RowBytes(a, {})) + Cardinality(R)
  <2> HIDE DEF R
  <2>. QED
    BY <1>2, <1>3, <1>4, <1>5, DisjointSum
<1>. QED
  BY <1>2, <1>6, PositionIs

\* points.advance goes from the position of one offset to that of another.
LEMMA AdvanceIs ==
  ASSUME NEW a \in Nat, NEW b \in Nat, a <= b
  PROVE  Advance(Position(a, {}), b) = Position(b, {})
<1> DEFINE p == Position(a, {})
           passed == a .. b - 1
           rows == {m \in passed : At(m) = "\n"}
           last == {m \in passed : \A r \in m .. b - 1 : At(r) # "\n"}
<1>1. p.byte = a /\ p.row \in Nat /\ p.col \in Nat
  BY PositionType
<1>2. Advance(p, b) = [byte |-> IF b > a THEN b ELSE a,
                       row |-> p.row + Cardinality(rows),
                       col |-> IF rows = {} THEN p.col + Cardinality(passed)
                               ELSE Cardinality(last)]
  BY <1>1 DEF Advance
<1>3. Position(b, {}).row = p.row + Cardinality(rows)
  BY RowsAdd
<1>4. Position(b, {}).col = IF rows = {} THEN p.col + Cardinality(passed) ELSE Cardinality(last)
  <2>1. CASE rows = {}
    <3>1. \A m \in passed : At(m) # "\n"
      BY <2>1
    <3>2. ColBytes(b, {}) = ColBytes(a, {}) \cup passed
      <4>1. ASSUME NEW m \in ColBytes(b, {})
            PROVE  m \in ColBytes(a, {}) \cup passed
        <5>1. m \in 0 .. b - 1 /\ \A r \in m .. b - 1 : At(r) # "\n"
          BY <4>1 DEF ColBytes
        <5>2. CASE m < a
          <6>1. \A r \in m .. a - 1 : r \in m .. b - 1
            BY <5>1
          <6>. QED
            BY <5>1, <5>2, <6>1 DEF ColBytes
        <5>. QED
          BY <5>1, <5>2
      <4>2. ASSUME NEW m \in ColBytes(a, {}) \cup passed
            PROVE  m \in ColBytes(b, {})
        <5>1. m \in 0 .. b - 1
          BY DEF ColBytes
        <5>2. ASSUME NEW r \in m .. b - 1
              PROVE  At(r) # "\n"
          <6>1. CASE r \in passed
            BY <6>1, <3>1
          <6>2. CASE r \notin passed
            <7>1. m \in ColBytes(a, {}) /\ r \in m .. a - 1
              BY <6>2, <5>1
            <7>. QED
              BY <7>1 DEF ColBytes
          <6>. QED
            BY <6>1, <6>2
        <5>. QED
          BY <5>1, <5>2 DEF ColBytes
      <4>. QED
        BY <4>1, <4>2
    <3>3. ColBytes(a, {}) \subseteq 0 .. a - 1
      BY DEF ColBytes
    <3>4. IsFiniteSet(ColBytes(a, {})) /\ IsFiniteSet(passed)
      BY <3>3, FinitePart
    <3>5. ColBytes(a, {}) \cap passed = {}
      BY <3>3
    <3>6. Cardinality(ColBytes(b, {})) = Cardinality(ColBytes(a, {})) + Cardinality(passed)
      BY <3>2, <3>4, <3>5, DisjointSum
    <3>. QED
      BY <2>1, <3>6, PositionIs
  <2>2. CASE rows # {}
    <3>1. PICK x \in passed : At(x) = "\n"
      BY <2>2
    <3>2. ColBytes(b, {}) = last
      <4>1. ASSUME NEW m \in ColBytes(b, {})
            PROVE  m \in last
        <5>1. m \in 0 .. b - 1 /\ \A r \in m .. b - 1 : At(r) # "\n"
          BY <4>1 DEF ColBytes
        <5>2. x \notin m .. b - 1
          BY <3>1, <5>1
        <5>3. m \in passed
          BY <5>1, <5>2, <3>1
        <5>. QED
          BY <5>1, <5>3
      <4>2. ASSUME NEW m \in last
            PROVE  m \in ColBytes(b, {})
        BY DEF ColBytes
      <4>. QED
        BY <4>1, <4>2
    <3>. QED
      BY <2>2, <3>2, PositionIs
  <2>. QED
    BY <2>1, <2>2
<1>5. Position(b, {}).byte = (IF b > a THEN b ELSE a)
  BY PositionType
<1> HIDE DEF p, rows, last, passed
<1>6. Position(b, {}) = [byte |-> Position(b, {}).byte, row |-> Position(b, {}).row,
                         col |-> Position(b, {}).col]
  BY PositionType
<1>. QED
  BY <1>2, <1>3, <1>4, <1>5, <1>6 DEF p

\* Before the first byte that is missing nothing moves.
LEMMA PositionBefore ==
  ASSUME NEW b \in Nat, NEW gone, NEW g, g \subseteq gone, \A c \in gone : c \in Nat /\ c >= b
  PROVE  Position(b, gone) = Position(b, g)
<1>1. \A m \in 0 .. b - 1 : m \notin gone /\ m \notin g
  BY SMT
<1>2. (0 .. b - 1) \ gone = (0 .. b - 1) \ g
  BY <1>1
<1>3. RowBytes(b, gone) = RowBytes(b, g)
  BY <1>1 DEF RowBytes
<1>4. ColBytes(b, gone) = ColBytes(b, g)
  <2>1. \A m \in 0 .. b - 1 : \A r \in m .. b - 1 : r \notin gone /\ r \notin g
    BY <1>1
  <2>. QED
    BY <1>1, <2>1 DEF ColBytes
<1>. QED
  BY <1>2, <1>3, <1>4, PositionIs

\* After a cut that is put back, bytes and rows are more by its own, and
\* columns, of lines after it, are as they were.
LEMMA PositionAfter ==
  ASSUME NEW s, NEW e, IsCut(s, e), Len(src) \in Nat,
         NEW gone, s .. e - 1 \subseteq gone,
         \A c \in gone : c \in CutBytes /\ c >= s,
         NEW b \in Nat, b >= e, e < Len(src)
  PROVE  LET g == gone \ (s .. e - 1)
         IN  /\ Position(b, g).byte = Position(b, gone).byte + (e - s)
             /\ Position(b, g).row = Position(b, gone).row
                                       + Cardinality({m \in s .. e - 1 : At(m) = "\n"})
             /\ Position(b, g).col = Position(b, gone).col
             /\ Position(b, gone).byte >= s
<1> DEFINE g == gone \ (s .. e - 1)
           rows == {m \in s .. e - 1 : At(m) = "\n"}
<1>1. /\ s \in Nat /\ e \in Nat /\ s < e /\ e <= b
      /\ s = 0 \/ At(s - 1) = "\n"
      /\ At(e - 1) = "\n"
      /\ gone \subseteq Nat
  BY DEF IsCut, Bytes, CutBytes
<1>2. Position(b, g).byte = Position(b, gone).byte + (e - s)
  <2> DEFINE K == (0 .. b - 1) \ gone
  <2>1. K \subseteq 0 .. b - 1 /\ s .. e - 1 \subseteq 0 .. b - 1
    BY <1>1
  <2>2. IsFiniteSet(K) /\ IsFiniteSet(s .. e - 1)
    <3> HIDE DEF K
    <3>. QED
      BY <2>1, FinitePart
  <2>3. K \cap (s .. e - 1) = {}
    OBVIOUS
  <2>4. (0 .. b - 1) \ g = K \cup (s .. e - 1)
    BY <2>1
  <2>5. Cardinality(s .. e - 1) = e - s
    BY <1>1, FS_Interval
  <2>6. Cardinality((0 .. b - 1) \ g) = Cardinality(K) + Cardinality(s .. e - 1)
    <3> HIDE DEF K, g
    <3>. QED
      BY <2>2, <2>3, <2>4, DisjointSum
  <2>. QED
    BY <2>5, <2>6, PositionIs
<1>3. Position(b, g).row = Position(b, gone).row + Cardinality(rows)
  <2>1. RowBytes(b, gone) \subseteq 0 .. b - 1 /\ rows \subseteq 0 .. b - 1
    BY <1>1 DEF RowBytes
  <2>2. IsFiniteSet(RowBytes(b, gone)) /\ IsFiniteSet(rows)
    <3> HIDE DEF rows
    <3>. QED
      BY <2>1, FinitePart
  <2>3. RowBytes(b, gone) \cap rows = {}
    BY DEF RowBytes
  <2>4. RowBytes(b, g) = RowBytes(b, gone) \cup rows
    BY <1>1 DEF RowBytes
  <2>5. Cardinality(RowBytes(b, g)) = Cardinality(RowBytes(b, gone)) + Cardinality(rows)
    <3> HIDE DEF rows, g
    <3>. QED
      BY <2>2, <2>3, <2>4, DisjointSum
  <2>. QED
    BY <2>5, PositionIs
<1>4. Position(b, g).col = Position(b, gone).col
  <2>1. ASSUME NEW m \in ColBytes(b, gone)
        PROVE  m \in ColBytes(b, g)
    <3>1. m \in 0 .. b - 1 /\ m \notin gone /\ \A r \in m .. b - 1 : r \in gone \/ At(r) # "\n"
      BY DEF ColBytes
    <3>2. m >= e
      <4>1. s = 0 \/ s - 1 \notin gone
        BY <1>1
      <4>2. m \notin s .. e - 1
        BY <3>1
      <4>3. m < s => s - 1 \in m .. b - 1
        BY <1>1, <3>1
      <4>. QED
        BY <4>1, <4>2, <4>3, <3>1, <1>1
    <3>3. \A r \in m .. b - 1 : r \notin s .. e - 1
      BY <3>1, <3>2, <1>1
    <3>. QED
      BY <3>1, <3>3 DEF ColBytes
  <2>2. ASSUME NEW m \in ColBytes(b, g)
        PROVE  m \in ColBytes(b, gone)
    <3>1. m \in 0 .. b - 1 /\ m \notin g /\ \A r \in m .. b - 1 : r \in g \/ At(r) # "\n"
      BY DEF ColBytes
    <3>2. m >= e
      <4>1. e - 1 \notin m .. b - 1
        BY <3>1, <1>1
      <4>. QED
        BY <4>1, <3>1, <1>1
    <3>3. m \notin s .. e - 1
      BY <3>1, <3>2, <1>1
    <3>. QED
      BY <3>1, <3>3 DEF ColBytes
  <2>3. ColBytes(b, g) = ColBytes(b, gone)
    BY <2>1, <2>2
  <2>. QED
    BY <2>3, PositionIs
<1>5. Position(b, gone).byte >= s
  <2> DEFINE K == (0 .. b - 1) \ gone
  <2>1. K \subseteq 0 .. b - 1
    OBVIOUS
  <2>2. IsFiniteSet(K) /\ Cardinality(K) \in Nat
    <3> HIDE DEF K
    <3>. QED
      BY <2>1, FinitePart
  <2>3. 0 .. s - 1 \subseteq K
    BY <1>1
  <2>4. Cardinality(0 .. s - 1) = s
    BY <1>1, FS_Interval
  <2>5. Cardinality(0 .. s - 1) <= Cardinality(K)
    <3> HIDE DEF K
    <3>. QED
      BY <2>2, <2>3, FS_Subset
  <2>. QED
    BY <2>2, <2>4, <2>5, <1>1, PositionIs
<1>. QED
  BY <1>2, <1>3, <1>4, <1>5

\* The edit of a cut moves the leaves to where they are with the cut back.
LEMMA EditIs ==
  ASSUME NEW s, NEW e, IsCut(s, e), Len(src) \in Nat,
         NEW gone, s .. e - 1 \subseteq gone,
         \A c \in gone : c \in CutBytes /\ c >= s,
         NEW b \in Code
  PROVE  TreeEdit(Position(b, gone), Position(s, {}), Position(e, {}))
           = Position(b, gone \ (s .. e - 1))
<1> DEFINE g == gone \ (s .. e - 1)
           rows == {m \in s .. e - 1 : At(m) = "\n"}
<1>1. /\ s \in Nat /\ e \in Nat /\ s < e /\ e <= Len(src) /\ b \in Nat /\ b < Len(src)
      /\ s = 0 \/ At(s - 1) = "\n"
      /\ e = Len(src) \/ At(e - 1) = "\n"
      /\ gone \subseteq Nat /\ b \notin CutBytes /\ s .. e - 1 \subseteq CutBytes
  BY CodeNotCut DEF IsCut, Bytes, CutBytes
<1>2. Position(s, {}).byte = s /\ Position(e, {}).byte = e
  BY <1>1, PositionType
<1>3. CASE b < s
  <2>1. \A c \in gone : c \in Nat /\ c >= b
    BY <1>1, <1>3
  <2>2. Position(b, gone) = Position(b, {}) /\ Position(b, gone) = Position(b, g)
    BY <2>1, <1>1, PositionBefore
  <2>3. Position(b, gone).byte = b
    BY <2>2, <1>1, PositionType
  <2>. QED
    BY <2>2, <2>3, <1>2, <1>3 DEF TreeEdit
<1>4. CASE b >= e
  <2>1. /\ Position(b, g).byte = Position(b, gone).byte + (e - s)
        /\ Position(b, g).row = Position(b, gone).row + Cardinality(rows)
        /\ Position(b, g).col = Position(b, gone).col
        /\ Position(b, gone).byte >= s
    <3>1. e < Len(src)
      BY <1>1, <1>4
    <3>. QED
      BY <1>1, <1>4, <3>1, PositionAfter
  <2>2. Position(s, {}).col = 0 /\ Position(e, {}).col = 0
    BY <1>1, <1>4, ColumnZero
  <2>3. /\ Position(e, {}).row = Position(s, {}).row + Cardinality(rows)
        /\ Cardinality(rows) \in Nat
    BY <1>1, RowsAdd
  <2>4. /\ Position(b, gone).byte \in Nat /\ Position(b, gone).row \in Nat
        /\ Position(b, gone).col \in Nat
        /\ Position(s, {}).row \in Nat
        /\ Position(b, g) = [byte |-> Position(b, g).byte, row |-> Position(b, g).row,
                             col |-> Position(b, g).col]
    BY <1>1, PositionType
  <2> HIDE DEF g, rows
  <2>5. TreeEdit(Position(b, gone), Position(s, {}), Position(e, {}))
          = [byte |-> Position(b, gone).byte + e - s,
             row |-> Position(b, gone).row + Position(e, {}).row - Position(s, {}).row,
             col |-> IF Position(b, gone).row = Position(s, {}).row
                     THEN Position(b, gone).col + Position(e, {}).col - Position(s, {}).col
                     ELSE Position(b, gone).col]
    <3>1. ~(Position(b, gone).byte < s)
      BY <2>1, <2>4, <1>1
    <3>. QED
      BY <3>1, <1>2 DEF TreeEdit
  <2>6. /\ Position(b, gone).byte + e - s = Position(b, g).byte
        /\ Position(b, gone).row + Position(e, {}).row - Position(s, {}).row = Position(b, g).row
        /\ Position(b, gone).col + Position(e, {}).col - Position(s, {}).col = Position(b, g).col
    BY <2>1, <2>2, <2>3, <2>4, <1>1
  <2>7. TreeEdit(Position(b, gone), Position(s, {}), Position(e, {}))
          = [byte |-> Position(b, g).byte, row |-> Position(b, g).row, col |-> Position(b, g).col]
    BY <2>1, <2>5, <2>6
  <2>. QED
    BY <2>4, <2>7 DEF g
<1>5. b < s \/ b >= e
  BY <1>1
<1>. QED
  BY <1>3, <1>4, <1>5

-----------------------------------------------------------------------------
(* The steps *)

\* Every leaf is a byte of code.
LEMMA LeafIsCode ==
  ASSUME Len(src) \in Nat, NEW k \in 1 .. Cardinality(Code)
  PROVE  Leaf(k) \in Code
<1>1. Code \subseteq 0 .. Len(src) - 1 /\ Code \subseteq Nat
  BY DEF Code, Bytes
<1>2. IsFiniteSet(Code) /\ Cardinality(Code) \in Nat
  BY <1>1, FinitePart
<1>3. k - 1 \in Nat /\ k - 1 < Cardinality(Code)
  BY <1>2
<1>4. \E b \in Code : Cardinality(Smaller(Code, b)) = k - 1
  BY <1>1, <1>2, <1>3, RankTaken
<1>. QED
  BY <1>4 DEF Leaf, Smaller

\* Those notions read nothing but the source.
LEMMA SameSource ==
  ASSUME src' = src
  PROVE  /\ CutBytes' = CutBytes /\ Cuts' = Cuts
         /\ \A gone : Parsed(gone)' = Parsed(gone)
         /\ \A b, gone : Position(b, gone)' = Position(b, gone)
         /\ \A p : Missing(p)' = Missing(p)
         /\ \A n : Reached(n)' = Reached(n)
<1>1. Bytes' = Bytes /\ \A b : At(b)' = At(b)
  BY DEF Bytes, At
<1>2. \A b : LineStart(b)' = LineStart(b)
  BY <1>1, Zenon DEF LineStart
<1>3. \A b : CommentOnly(b)' = CommentOnly(b)
  BY <1>1, <1>2, Zenon DEF CommentOnly, SameLine
<1>4. CutBytes' = CutBytes
  BY <1>1, <1>3, Zenon DEF CutBytes
<1>5. CutStarts' = CutStarts
  BY <1>4, Zenon DEF CutStarts
<1>6. \A s : CutFrom(s)' = CutFrom(s)
  BY <1>4, Zenon DEF CutFrom
<1>7. Cuts' = Cuts
  <2> DEFINE First(k) == CHOOSE s \in CutStarts : Cardinality({r \in CutStarts : r < s}) = k - 1
  <2>1. \A k : First(k)' = First(k)
    BY <1>5, Zenon
  <2>2. /\ Cuts = [k \in 1 .. Cardinality(CutStarts) |-> CutFrom(First(k))]
        /\ Cuts' = [k \in 1 .. Cardinality(CutStarts)' |-> CutFrom(First(k))']
    BY DEF Cuts
  <2> HIDE DEF First
  <2>3. ASSUME NEW k PROVE CutFrom(First(k))' = CutFrom(First(k))
    <3>1. First(k)' = First(k)
      BY <2>1
    <3>. QED
      BY <1>6, <3>1
  <2>. QED
    BY <1>5, <2>2, <2>3
<1>8. \A b, gone : Position(b, gone)' = Position(b, gone)
  BY <1>1, Zenon DEF Position, RowOf, ColOf
<1>9. Code' = Code
  BY <1>1, Zenon DEF Code
<1>10. \A k : Leaf(k)' = Leaf(k)
  BY <1>9, Zenon DEF Leaf
<1>11. \A gone : Parsed(gone)' = Parsed(gone)
  BY <1>8, <1>9, <1>10, Zenon DEF Parsed
<1>12. \A p : Missing(p)' = Missing(p)
  BY <1>4, Zenon DEF Missing
<1>13. \A n : Reached(n)' = Reached(n)
  BY <1>7, Zenon DEF Reached
<1>. QED
  BY <1>4, <1>7, <1>8, <1>11, <1>12, <1>13, Zenon

LEMMA KotlinParseStep == KotlinIInv /\ KotlinParse => KotlinIInv'
<1> SUFFICES ASSUME KotlinIInv, KotlinParse PROVE KotlinIInv'
  OBVIOUS
<1>1. /\ Len(src) \in Nat /\ at = Start /\ src' = src /\ at' = at
      /\ tree' = Parsed(CutBytes) /\ todo' = Cuts
      /\ stage' = IF Cuts = << >> THEN "done" ELSE "edit"
  BY DEF KotlinIInv, KotlinParse
<1>2. Missing(0) = CutBytes /\ Reached(0) = 0
  BY DEF Missing, CutBytes, Bytes, Reached
<1>3. Len(Cuts) \in Nat /\ Cuts \in Seq(Nat \X Nat)
  BY <1>1, CutsAre
<1>4. CASE Cuts = << >>
  <2>1. Missing(0) = {}
    <3> SUFFICES ASSUME NEW c \in Missing(Reached(0)) PROVE FALSE
      BY <1>2
    <3>. QED
      BY <1>1, <1>3, <1>4, NextCut
  <2>2. Parsed({})' = Parsed({})
    BY <1>1, SameSource
  <2>. QED
    BY <1>1, <1>2, <1>4, <2>1, <2>2 DEF KotlinIInv
<1>5. CASE Cuts # << >>
  <2>1. Len(Cuts) > 0
    BY <1>3, <1>5
  <2>2. Progress(0)'
    <3>1. Cuts' = Cuts /\ Parsed(CutBytes)' = Parsed(CutBytes) /\ Missing(0)' = Missing(0)
      BY <1>1, SameSource
    <3>2. SubSeq(Cuts, 1, Len(Cuts)) = Cuts
      BY <1>3
    <3>3. at' = Position(0, {})'
      BY <1>1, StartPosition, SameSource
    <3>4. Reached(0)' = Reached(0) /\ \A gone : Parsed(gone)' = Parsed(gone)
      BY <1>1, SameSource
    <3>. QED
      BY <1>1, <1>2, <1>3, <2>1, <3>1, <3>2, <3>3, <3>4 DEF Progress
  <2>3. 0 \in 0 .. Len(Cuts)' - 1
    BY <1>1, <1>3, <2>1, SameSource
  <2>. QED
    BY <1>1, <1>5, <2>2, <2>3 DEF KotlinIInv
<1>. QED
  BY <1>4, <1>5

\* A cut put back is no longer missing.
LEMMA PutBackStep == KotlinIInv /\ PutBack => KotlinIInv'
<1> SUFFICES ASSUME KotlinIInv, PutBack PROVE KotlinIInv'
  OBVIOUS
<1>1. /\ Len(src) \in Nat /\ stage = "edit" /\ src' = src /\ todo' = Tail(todo)
      /\ stage' = IF Len(todo) = 1 THEN "done" ELSE "edit"
  BY DEF KotlinIInv, PutBack
<1>2. PICK n \in 0 .. Len(Cuts) - 1 : Progress(n)
  BY <1>1 DEF KotlinIInv
<1>3. /\ Len(Cuts) \in Nat /\ Cuts \in Seq(Nat \X Nat)
      /\ n \in Nat /\ n + 1 \in 1 .. Len(Cuts)
  BY <1>1, <1>2, CutsAre
<1> DEFINE s == Cuts[n + 1][1]
           e == Cuts[n + 1][2]
<1>4. /\ IsCut(s, e) /\ Reached(n + 1) = e
      /\ s .. e - 1 \subseteq Missing(Reached(n))
      /\ Missing(Reached(n + 1)) = Missing(Reached(n)) \ (s .. e - 1)
      /\ \A c \in Missing(Reached(n)) : c >= s
  BY <1>1, <1>2, MissingStep
<1>5. Reached(n) \in Nat /\ Reached(n) <= s
  BY <1>1, <1>2, CutsOrdered
<1>6. /\ todo = SubSeq(Cuts, n + 1, Len(Cuts))
      /\ at = Position(Reached(n), {}) /\ tree = Parsed(Missing(Reached(n)))
  BY <1>2 DEF Progress, Reached
<1>7. /\ Len(todo) = Len(Cuts) - n /\ Head(todo) = Cuts[n + 1]
      /\ Tail(todo) = SubSeq(Cuts, n + 2, Len(Cuts))
  <2> HIDE DEF s, e
  <2>. QED
    BY <1>3, <1>6
<1>8. s \in Nat /\ e \in Nat /\ s < e
  BY <1>4 DEF IsCut, Bytes
<1>9. /\ Advance(at, Head(todo)[1]) = Position(s, {})
      /\ Advance(Position(s, {}), Head(todo)[2]) = Position(e, {})
  <2>1. Head(todo)[1] = s /\ Head(todo)[2] = e
    BY <1>7
  <2> HIDE DEF s, e
  <2>. QED
    BY <2>1, <1>5, <1>6, <1>8, AdvanceIs
<1>10. /\ at' = Position(e, {})
       /\ tree' = [k \in DOMAIN tree |-> TreeEdit(tree[k], Position(s, {}), Position(e, {}))]
  BY <1>9 DEF PutBack
<1>11. tree' = Parsed(Missing(Reached(n + 1)))
  <2> HIDE DEF s, e
  <2>1. ASSUME NEW k \in 1 .. Cardinality(Code)
        PROVE  TreeEdit(Position(Leaf(k), Missing(Reached(n))), Position(s, {}), Position(e, {}))
                 = Position(Leaf(k), Missing(Reached(n + 1)))
    <3>1. Leaf(k) \in Code
      BY <1>1, LeafIsCode
    <3>2. \A c \in Missing(Reached(n)) : c \in CutBytes /\ c >= s
      BY <1>4 DEF Missing
    <3>. QED
      BY <3>1, <3>2, <1>1, <1>4, EditIs
  <2>2. /\ DOMAIN tree = 1 .. Cardinality(Code)
        /\ \A k \in 1 .. Cardinality(Code) : tree[k] = Position(Leaf(k), Missing(Reached(n)))
    BY <1>6 DEF Parsed
  <2>. QED
    BY <1>10, <2>1, <2>2 DEF Parsed
<1>12. CASE Len(todo) = 1
  <2>1. n + 1 = Len(Cuts)
    <3>1. Len(Cuts) - n = 1
      BY <1>7, <1>12
    <3>. QED
      BY <1>3, <3>1
  <2>2. Missing(Reached(n + 1)) = {}
    <3> SUFFICES ASSUME NEW c \in Missing(Reached(n + 1)) PROVE FALSE
      OBVIOUS
    <3>. QED
      BY <1>1, <1>3, <2>1, NextCut
  <2>3. tree' = Parsed({})'
    BY <1>1, <1>11, <2>2, SameSource
  <2>. QED
    BY <1>1, <1>12, <2>3 DEF KotlinIInv
<1>13. CASE Len(todo) # 1
  <2>1. n + 1 \in 0 .. Len(Cuts) - 1
    BY <1>3, <1>7, <1>13
  <2>2. /\ Cuts' = Cuts /\ Reached(n + 1)' = Reached(n + 1)
        /\ (\A p : Missing(p)' = Missing(p)) /\ (\A g : Parsed(g)' = Parsed(g))
        /\ \A b, g : Position(b, g)' = Position(b, g)
    BY <1>1, SameSource
  <2>3. n + 1 \in 0 .. Len(Cuts)
    BY <1>3
  <2>4. todo' = SubSeq(Cuts, (n + 1) + 1, Len(Cuts))
    <3>1. n + 2 = (n + 1) + 1
      BY <1>3
    <3>. QED
      BY <1>1, <1>7, <3>1
  <2>5. at' = Position(Reached(n + 1), {}) /\ tree' = Parsed(Missing(Reached(n + 1)))
    BY <1>4, <1>10, <1>11
  <2>6. Progress(n + 1)'
    <3> HIDE DEF s, e
    <3>. QED
      BY <2>2, <2>3, <2>4, <2>5 DEF Progress
  <2>. QED
    BY <1>1, <1>13, <2>1, <2>2, <2>6 DEF KotlinIInv
<1>. QED
  BY <1>12, <1>13

LEMMA KotlinOtherStep == KotlinIInv /\ (ParseInPlace \/ UNCHANGED kotlinVars) => KotlinIInv'
<1>1. ASSUME KotlinIInv, ParseInPlace PROVE KotlinIInv'
  <2>1. src' = src /\ tree' = Parsed({}) /\ stage' = "done"
    BY <1>1 DEF ParseInPlace
  <2>2. Parsed({})' = Parsed({})
    BY <2>1, SameSource
  <2>. QED
    BY <1>1, <2>1, <2>2 DEF KotlinIInv
<1>2. ASSUME KotlinIInv, UNCHANGED kotlinVars PROVE KotlinIInv'
  <2>1. src' = src /\ todo' = todo /\ at' = at /\ tree' = tree /\ stage' = stage
    BY <1>2 DEF kotlinVars
  <2>2. /\ Cuts' = Cuts /\ (\A n : Reached(n)' = Reached(n))
        /\ (\A p : Missing(p)' = Missing(p)) /\ (\A g : Parsed(g)' = Parsed(g))
        /\ \A b, g : Position(b, g)' = Position(b, g)
    BY <2>1, SameSource
  <2>3. ASSUME NEW n, Progress(n) PROVE Progress(n)'
    BY <2>1, <2>2, <2>3 DEF Progress
  <2>. QED
    BY <1>2, <2>1, <2>2, <2>3 DEF KotlinIInv
<1>. QED
  BY <1>1, <1>2

\* The inductive invariant of parseKotlinWithoutComments: after n cuts the
\* tree is the one of the source without the cuts that follow.
THEOREM KotlinInductive == KotlinSpec => []KotlinIInv
<1>1. KotlinInit => KotlinIInv
  BY SourcesAssumption DEF KotlinInit, KotlinIInv
<1>2. KotlinIInv /\ [KotlinNext]_kotlinVars => KotlinIInv'
  BY KotlinParseStep, PutBackStep, KotlinOtherStep DEF KotlinNext
<1>. QED
  BY <1>1, <1>2, PTL DEF KotlinSpec

\* The tree addresses the source: in every Kotlin file, wherever its comment-
\* only lines are, each leaf ends at the byte, row and column of its text
\* (kotlinparse.go:22-121, treeedit.go).
THEOREM TreeAddressesSource == KotlinSpec => []LeavesInPlace
<1>1. KotlinIInv => LeavesInPlace
  BY DEF KotlinIInv, LeavesInPlace
<1>. QED
  BY <1>1, KotlinInductive, PTL
=============================================================================
