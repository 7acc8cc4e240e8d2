--------------------------- MODULE Preproc_proof ---------------------------
(***************************************************************************)
(* For every source, whether or not each directive has its partner:        *)
(* MaskInactivePreprocessor blanks exactly the disabled branches,          *)
(* blankCPPOnlyBranches exactly the code that only a C++ compiler sees,    *)
(* and csAlternateInactiveLines reports exactly the losing branches, given *)
(* that the conditions are read as C# means them.                          *)
(***************************************************************************)
EXTENDS Preproc, SyntaxTree_proof

-----------------------------------------------------------------------------
(* How nesting changes from line to line *)

\* An #endif or an alternative at the level of the conditional at i.
Closer(i, j) ==
  /\ j \in i + 1 .. Len(lines)
  /\ lines[j].dir \in Elses \cup {"endif"}
  /\ Within(i, j) /\ Deeper(i, j) = 0

\* The first branch of the conditional at i ends before line n.
Closed(i, n) == \E j \in i + 1 .. n - 1 : Closer(i, j)

LEMMA FiniteStretch ==
  ASSUME NEW i \in Nat, NEW n \in Nat
  PROVE  /\ IsFiniteSet({k \in i + 1 .. n - 1 : Opens(k)})
         /\ IsFiniteSet({k \in i + 1 .. n - 1 : Ends(k)})
<1>1. IsFiniteSet(i + 1 .. n - 1)
  BY FS_Interval
<1>2. /\ {k \in i + 1 .. n - 1 : Opens(k)} \subseteq i + 1 .. n - 1
      /\ {k \in i + 1 .. n - 1 : Ends(k)} \subseteq i + 1 .. n - 1
  OBVIOUS
<1>. QED
  BY <1>1, <1>2, FS_Subset

\* The line after a directive is as deep as the directive makes it.
LEMMA DeeperStep ==
  ASSUME NEW i \in Nat, NEW n \in Nat, i < n
  PROVE  /\ Deeper(i, n) \in Int
         /\ Deeper(i, n + 1) =
              Deeper(i, n) + (IF Opens(n) THEN 1 ELSE 0)
                           - (IF Ends(n) THEN 1 ELSE 0)
<1> DEFINE O == {k \in i + 1 .. n - 1 : Opens(k)}
           E == {k \in i + 1 .. n - 1 : Ends(k)}
           O1 == {k \in i + 1 .. (n + 1) - 1 : Opens(k)}
           E1 == {k \in i + 1 .. (n + 1) - 1 : Ends(k)}
<1>1. IsFiniteSet(O) /\ IsFiniteSet(E)
  BY FiniteStretch
<1>2. Deeper(i, n) = Cardinality(O) - Cardinality(E)
  BY DEF Deeper
<1>3. Deeper(i, n + 1) = Cardinality(O1) - Cardinality(E1)
  BY DEF Deeper
<1>4. n \notin O /\ n \notin E
  OBVIOUS
<1>5. (i + 1 .. (n + 1) - 1) = (i + 1 .. n - 1) \cup {n}
  OBVIOUS
<1>6. O1 = IF Opens(n) THEN O \cup {n} ELSE O
  BY <1>5
<1>7. E1 = IF Ends(n) THEN E \cup {n} ELSE E
  BY <1>5
<1> HIDE DEF O, E, O1, E1
<1>8. Cardinality(O) \in Nat /\ Cardinality(E) \in Nat
  BY <1>1, FS_CardinalityType
<1>9. Cardinality(O1) = Cardinality(O) + (IF Opens(n) THEN 1 ELSE 0)
  <2>1. Cardinality(O \cup {n}) = Cardinality(O) + 1
    BY <1>1, <1>4, FS_AddElement, Zenon
  <2>. QED
    BY <1>6, <1>8, <2>1
<1>10. Cardinality(E1) = Cardinality(E) + (IF Ends(n) THEN 1 ELSE 0)
  <2>1. Cardinality(E \cup {n}) = Cardinality(E) + 1
    BY <1>1, <1>4, FS_AddElement, Zenon
  <2>. QED
    BY <1>7, <1>8, <2>1
<1>. QED
  BY <1>2, <1>3, <1>8, <1>9, <1>10

LEMMA DeeperFirst ==
  ASSUME NEW i \in Nat
  PROVE  Deeper(i, i + 1) = 0
<1>1. (i + 1 .. (i + 1) - 1) = {}
  OBVIOUS
<1>2. /\ {k \in i + 1 .. (i + 1) - 1 : Opens(k)} = {}
      /\ {k \in i + 1 .. (i + 1) - 1 : Ends(k)} = {}
  BY <1>1
<1>3. Cardinality({}) = 0
  BY FS_EmptySet, Zenon
<1>4. Deeper(i, i + 1) = Cardinality({}) - Cardinality({})
  BY <1>2, Zenon DEF Deeper
<1>. QED
  BY <1>3, <1>4

LEMMA WithinStep ==
  ASSUME NEW i \in Nat, NEW n \in Nat, i < n
  PROVE  Within(i, n + 1) <=> Within(i, n) /\ (Ends(n) => Deeper(i, n) > 0)
<1>1. (i + 1 .. (n + 1) - 1) = (i + 1 .. n - 1) \cup {n}
  OBVIOUS
<1>. QED
  BY <1>1 DEF Within

LEMMA ClosedStep ==
  ASSUME NEW i \in Nat, NEW n \in Nat, i < n
  PROVE  Closed(i, n + 1) <=> Closed(i, n) \/ Closer(i, n)
<1>1. (i + 1 .. (n + 1) - 1) = (i + 1 .. n - 1) \cup {n}
  OBVIOUS
<1>. QED
  BY <1>1 DEF Closed

\* A line is in the first branch unless that ended before or at it.
LEMMA InFirstBranch ==
  ASSUME NEW i \in Nat, NEW l \in 1 .. Len(lines), Len(lines) \in Nat, i < l
  PROVE  InBranch(i, i, l) <=> ~Closed(i, l + 1)
<1>1. \A j : j \in Alternatives(i) \cup End(i) <=> Closer(i, j)
  BY DEF Alternatives, End, Closer, Elses, Ends
<1>. QED
  BY <1>1 DEF InBranch, Closed, Closer

\* Those notions read nothing but the source.
LEMMA SameSource ==
  ASSUME lines' = lines
  PROVE  /\ \A i : Opens(i)' = Opens(i) /\ Ends(i)' = Ends(i) /\ IsOff(i)' = IsOff(i)
         /\ \A i, j : Deeper(i, j)' = Deeper(i, j)
         /\ \A i, j : Within(i, j)' = Within(i, j)
         /\ \A i, j : Closer(i, j)' = Closer(i, j)
         /\ \A i, j : Closed(i, j)' = Closed(i, j)
         /\ \A i, m, l : InBranch(i, m, l)' = InBranch(i, m, l)
<1>1. \A i : Opens(i)' = Opens(i) /\ Ends(i)' = Ends(i) /\ IsOff(i)' = IsOff(i)
  BY DEF Opens, Ends, IsOff
<1>2. \A i, j : Deeper(i, j)' = Deeper(i, j)
  BY <1>1, Zenon DEF Deeper
<1>3. \A i, j : Within(i, j)' = Within(i, j)
  BY <1>1, <1>2, Zenon DEF Within
<1>4. \A i, j : Closer(i, j)' = Closer(i, j)
  BY <1>2, <1>3, Zenon DEF Closer
<1>5. \A i, j : Closed(i, j)' = Closed(i, j)
  BY <1>4, Zenon DEF Closed
<1>6. \A i : Alternatives(i)' = Alternatives(i) /\ End(i)' = End(i)
  BY <1>1, <1>2, <1>3, Zenon DEF Alternatives, End
<1>7. \A i, m, l : InBranch(i, m, l)' = InBranch(i, m, l)
  BY <1>6, Zenon DEF InBranch
<1>. QED
  BY <1>1, <1>2, <1>3, <1>4, <1>5, <1>7, Zenon

-----------------------------------------------------------------------------
(* MaskInactivePreprocessor *)

Blanked ==
  {l \in 1 .. ln - 1 : \E i \in 1 .. l - 1 : IsOff(i) /\ InBranch(i, i, l)}

\* Every disabled branch that is open stands within `depth' conditionals, and
\* when that is positive some disabled branch is open and stands in just as
\* many; a disabled branch that has ended stays so.
DepthInv ==
  /\ Len(lines) \in Nat
  /\ ln \in 1 .. Len(lines) + 1
  /\ depth \in Nat
  /\ \A i \in 1 .. ln - 1 : IsOff(i) /\ ~Closed(i, ln) =>
       Within(i, ln) /\ Deeper(i, ln) \in 0 .. depth - 1
  /\ depth > 0 =>
       \E i \in 1 .. ln - 1 :
         IsOff(i) /\ ~Closed(i, ln) /\ Deeper(i, ln) = depth - 1
  /\ hidden = Blanked

InactiveInv == tool = "inactive" => DepthInv

LEMMA InitInactive == Init => InactiveInv
<1> SUFFICES ASSUME Init, tool = "inactive" PROVE DepthInv
  BY DEF InactiveInv
<1>1. Len(lines) \in Nat
  BY SourcesAssumption DEF Init
<1>2. ln = 1 /\ depth = 0 /\ hidden = {}
  BY DEF Init
<1>3. Blanked = {}
  BY <1>2 DEF Blanked
<1>. QED
  BY <1>1, <1>2, <1>3 DEF DepthInv

\* The lines already blanked stay right; the one just read is decided by the
\* disabled branches that hold it.
LEMMA BlankedStep ==
  ASSUME Len(lines) \in Nat, ln \in 1 .. Len(lines), lines' = lines, ln' = ln + 1,
         NEW B \in BOOLEAN,
         B <=> \E i \in 1 .. ln - 1 : IsOff(i) /\ ~Closed(i, ln + 1)
  PROVE  Blanked' = IF B THEN Blanked \cup {ln} ELSE Blanked
<1>1. Blanked' =
        {l \in 1 .. ln : \E i \in 1 .. l - 1 : IsOff(i) /\ InBranch(i, i, l)}
  <2>1. Blanked' =
          {l \in 1 .. ln' - 1 :
             \E i \in 1 .. l - 1 : IsOff(i)' /\ InBranch(i, i, l)'}
    BY DEF Blanked
  <2>2. ln' - 1 = ln
    OBVIOUS
  <2>3. \A i, l : (IsOff(i)' /\ InBranch(i, i, l)') = (IsOff(i) /\ InBranch(i, i, l))
    BY SameSource, Zenon
  <2>. QED
    BY <2>1, <2>2, <2>3
<1>2. \A i \in 1 .. ln - 1 : InBranch(i, i, ln) <=> ~Closed(i, ln + 1)
  BY InFirstBranch
<1>3. B <=> \E i \in 1 .. ln - 1 : IsOff(i) /\ InBranch(i, i, ln)
  BY <1>2
<1>4. \A l \in 1 .. ln : l \in 1 .. ln - 1 \/ l = ln
  OBVIOUS
<1>5. (1 .. ln - 1) \subseteq (1 .. ln) /\ ln \in 1 .. ln
  OBVIOUS
<1>. QED
  BY <1>1, <1>3, <1>4, <1>5 DEF Blanked

\* The invariant after a line, in terms of the source as it stands.
LEMMA NextDepthInv ==
  ASSUME Len(lines) \in Nat, ln \in 1 .. Len(lines), lines' = lines, ln' = ln + 1,
         depth' \in Nat,
         \A i \in 1 .. ln : IsOff(i) /\ ~Closed(i, ln + 1) =>
           Within(i, ln + 1) /\ Deeper(i, ln + 1) \in 0 .. depth' - 1,
         depth' > 0 =>
           \E i \in 1 .. ln :
             IsOff(i) /\ ~Closed(i, ln + 1) /\ Deeper(i, ln + 1) = depth' - 1,
         hidden' = Blanked'
  PROVE  DepthInv'
<1>1. Len(lines)' \in Nat /\ ln' \in 1 .. Len(lines)' + 1
  OBVIOUS
<1>2. ln' - 1 = ln
  OBVIOUS
<1>3. \A i : /\ IsOff(i)' = IsOff(i)
            /\ Closed(i, ln)' = Closed(i, ln + 1)
            /\ Within(i, ln)' = Within(i, ln + 1)
            /\ Deeper(i, ln)' = Deeper(i, ln + 1)
  BY SameSource, Zenon
<1>. QED
  BY <1>1, <1>2, <1>3 DEF DepthInv

\* What a line does to a branch that was open before it.
LEMMA OffIsIf ==
  ASSUME NEW k, IsOff(k)
  PROVE  Opens(k) /\ ~Ends(k) /\ lines[k].dir \notin Elses
  BY DEF IsOff, Opens, Ends, Ifs, Elses

LEMMA StartsOpen ==
  ASSUME NEW k \in Nat
  PROVE  Within(k, k + 1) /\ Deeper(k, k + 1) = 0 /\ ~Closed(k, k + 1)
  BY DeeperFirst DEF Within, Closed

LEMMA LiveLineStep == DepthInv /\ tool = "inactive" /\ LiveLine => DepthInv'
<1> SUFFICES ASSUME DepthInv, tool = "inactive", LiveLine PROVE DepthInv'
  OBVIOUS
<1>1. /\ Len(lines) \in Nat /\ ln \in 1 .. Len(lines)
      /\ lines' = lines /\ ln' = ln + 1
      /\ depth = 0 /\ depth' = (IF IsOff(ln) THEN 1 ELSE 0)
      /\ hidden' = hidden /\ hidden = Blanked
  BY DEF DepthInv, LiveLine, Reads, source
<1>2. \A i \in 1 .. ln - 1 : IsOff(i) => Closed(i, ln) /\ Closed(i, ln + 1)
  BY <1>1, ClosedStep DEF DepthInv
<1>3. hidden' = Blanked'
  BY <1>1, <1>2, BlankedStep
<1>4. Within(ln, ln + 1) /\ Deeper(ln, ln + 1) = 0 /\ ~Closed(ln, ln + 1)
  BY <1>1, StartsOpen
<1>5. ASSUME NEW i \in 1 .. ln, IsOff(i), ~Closed(i, ln + 1)
      PROVE  Within(i, ln + 1) /\ Deeper(i, ln + 1) \in 0 .. depth' - 1
  <2>1. i = ln
    BY <1>1, <1>2, <1>5
  <2>. QED
    BY <1>1, <1>4, <1>5, <2>1
<1>6. depth' > 0 =>
        \E i \in 1 .. ln :
          IsOff(i) /\ ~Closed(i, ln + 1) /\ Deeper(i, ln + 1) = depth' - 1
  BY <1>1, <1>4
<1>7. depth' \in Nat
  BY <1>1
<1>. QED
  BY <1>1, <1>3, <1>5, <1>6, <1>7, NextDepthInv

LEMMA DisabledEndStep == DepthInv /\ tool = "inactive" /\ DisabledEnd => DepthInv'
<1> SUFFICES ASSUME DepthInv, tool = "inactive", DisabledEnd PROVE DepthInv'
  OBVIOUS
<1>1. /\ Len(lines) \in Nat /\ ln \in 1 .. Len(lines)
      /\ lines' = lines /\ ln' = ln + 1
      /\ depth = 1 /\ depth' = 0
      /\ hidden' = hidden /\ hidden = Blanked
      /\ lines[ln].dir \in Elses \cup {"endif"}
  BY DEF DepthInv, DisabledEnd, EndsDisabled, Line, Reads, source
<1>2. ASSUME NEW i \in 1 .. ln - 1, IsOff(i) PROVE Closed(i, ln + 1)
  <2>1. CASE Closed(i, ln)
    BY <1>1, <2>1, ClosedStep
  <2>2. CASE ~Closed(i, ln)
    <3>1. Within(i, ln) /\ Deeper(i, ln) = 0
      BY <1>1, <1>2, <2>2 DEF DepthInv
    <3>2. Closer(i, ln)
      BY <1>1, <3>1 DEF Closer
    <3>. QED
      BY <1>1, <3>2, ClosedStep
  <2>. QED
    BY <2>1, <2>2
<1>3. hidden' = Blanked'
  BY <1>1, <1>2, BlankedStep
<1>4. ~IsOff(ln)
  BY <1>1 DEF IsOff, Elses
<1>. QED
  BY <1>1, <1>2, <1>3, <1>4, NextDepthInv

LEMMA DisabledLineStep == DepthInv /\ tool = "inactive" /\ DisabledLine => DepthInv'
<1> SUFFICES ASSUME DepthInv, tool = "inactive", DisabledLine PROVE DepthInv'
  OBVIOUS
<1>1. /\ Len(lines) \in Nat /\ ln \in 1 .. Len(lines)
      /\ lines' = lines /\ ln' = ln + 1
      /\ depth \in Nat /\ depth > 0
      /\ hidden' = hidden \cup {ln} /\ hidden = Blanked
      /\ ~(depth = 1 /\ lines[ln].dir \in Elses \cup {"endif"})
  BY DEF DepthInv, DisabledLine, EndsDisabled, Line, Reads, source
<1>2. depth' = depth + (IF Opens(ln) THEN 1 ELSE 0) - (IF Ends(ln) THEN 1 ELSE 0)
  BY <1>1 DEF DisabledLine, Line, Opens, Ends, Ifs
<1>3. depth' \in Nat /\ depth' > 0
  BY <1>1, <1>2 DEF Ends
<1>4. \A i \in 1 .. ln - 1 :
        /\ Deeper(i, ln) \in Int
        /\ Deeper(i, ln + 1) = Deeper(i, ln) + (IF Opens(ln) THEN 1 ELSE 0)
                                            - (IF Ends(ln) THEN 1 ELSE 0)
        /\ Within(i, ln + 1) <=> Within(i, ln) /\ (Ends(ln) => Deeper(i, ln) > 0)
        /\ Closed(i, ln + 1) <=> Closed(i, ln) \/ Closer(i, ln)
  <2> TAKE i \in 1 .. ln - 1
  <2>1. i \in Nat /\ ln \in Nat /\ i < ln
    BY <1>1
  <2>2. /\ Deeper(i, ln) \in Int
        /\ Deeper(i, ln + 1) = Deeper(i, ln) + (IF Opens(ln) THEN 1 ELSE 0)
                                            - (IF Ends(ln) THEN 1 ELSE 0)
    BY <2>1, DeeperStep
  <2>3. Within(i, ln + 1) <=> Within(i, ln) /\ (Ends(ln) => Deeper(i, ln) > 0)
    BY <2>1, WithinStep
  <2>4. Closed(i, ln + 1) <=> Closed(i, ln) \/ Closer(i, ln)
    BY <2>1, ClosedStep
  <2>. QED
    BY <2>2, <2>3, <2>4
<1>5. PICK o \in 1 .. ln - 1 :
        IsOff(o) /\ ~Closed(o, ln) /\ Deeper(o, ln) = depth - 1
  BY <1>1 DEF DepthInv
<1>6. ~Closer(o, ln)
  BY <1>1, <1>5 DEF Closer
<1>7. /\ IsOff(o) /\ ~Closed(o, ln + 1)
      /\ Deeper(o, ln + 1) = depth' - 1
  BY <1>1, <1>2, <1>4, <1>5, <1>6
<1>8. hidden' = Blanked'
  BY <1>1, <1>7, BlankedStep
<1>9. ASSUME NEW i \in 1 .. ln, IsOff(i), ~Closed(i, ln + 1)
      PROVE  Within(i, ln + 1) /\ Deeper(i, ln + 1) \in 0 .. depth' - 1
  <2>1. CASE i = ln
    <3>1. Within(ln, ln + 1) /\ Deeper(ln, ln + 1) = 0
      BY <1>1, StartsOpen
    <3>. QED
      BY <1>1, <1>3, <2>1, <3>1
  <2>2. CASE i \in 1 .. ln - 1
    <3>1. ~Closed(i, ln) /\ ~Closer(i, ln)
      BY <1>4, <1>9, <2>2
    <3>2. Within(i, ln) /\ Deeper(i, ln) \in 0 .. depth - 1
      BY <1>9, <2>2, <3>1 DEF DepthInv
    <3>3. Ends(ln) => Deeper(i, ln) > 0
      BY <1>1, <2>2, <3>1, <3>2 DEF Closer, Ends
    <3>. QED
      BY <1>1, <1>2, <1>4, <2>2, <3>2, <3>3
  <2>. QED
    BY <1>1, <2>1, <2>2
<1>. QED
  BY <1>1, <1>3, <1>7, <1>8, <1>9, NextDepthInv

LEMMA StutterStep == DepthInv /\ UNCHANGED vars => DepthInv'
<1> SUFFICES ASSUME DepthInv, UNCHANGED vars PROVE DepthInv'
  OBVIOUS
<1>1. lines' = lines /\ ln' = ln /\ depth' = depth /\ hidden' = hidden
  BY DEF vars, source
<1>2. \A i, l : /\ IsOff(i)' = IsOff(i)
               /\ InBranch(i, i, l)' = InBranch(i, i, l)
               /\ Closed(i, l)' = Closed(i, l)
               /\ Within(i, l)' = Within(i, l)
               /\ Deeper(i, l)' = Deeper(i, l)
  BY <1>1, SameSource, Zenon
<1>3. Blanked' = Blanked
  BY <1>1, <1>2 DEF Blanked
<1>4. \A i : /\ Closed(i, ln)' = Closed(i, ln)
            /\ Within(i, ln)' = Within(i, ln)
            /\ Deeper(i, ln)' = Deeper(i, ln)
  BY <1>1, <1>2, Zenon
<1>. QED
  BY <1>1, <1>2, <1>3, <1>4 DEF DepthInv

\* The "inactive" pass keeps its invariant, and no other pass runs beside it.
THEOREM InactiveInductive == Spec => []InactiveInv
<1>1. InactiveInv /\ [Next]_vars => InactiveInv'
  <2> SUFFICES ASSUME InactiveInv, [Next]_vars, tool' = "inactive" PROVE DepthInv'
    BY DEF InactiveInv
  <2>1. tool' = tool
    BY DEF Next, Inactive, CPPOnly, Alternate, vars, source, LiveLine, DisabledEnd,
           DisabledLine, OpenGuard, TurnGuard, CloseGuard, GuardedLine, ReturnNil,
           OpenGroup, NextBranch, CloseGroup, OutsideGroups, Decide
  <2>2. DepthInv /\ tool = "inactive"
    BY <2>1 DEF InactiveInv
  <2>3. CASE Inactive
    BY <2>2, <2>3, LiveLineStep, DisabledEndStep, DisabledLineStep DEF Inactive
  <2>4. ~CPPOnly /\ ~Alternate
    BY <2>2 DEF CPPOnly, Alternate, Reads, OpenGuard, TurnGuard, CloseGuard,
           GuardedLine, ReturnNil, OpenGroup, NextBranch, CloseGroup, OutsideGroups,
           Decide
  <2>5. CASE UNCHANGED vars
    BY <2>2, <2>5, StutterStep
  <2>. QED
    BY <2>3, <2>4, <2>5 DEF Next
<1>. QED
  BY <1>1, InitInactive, PTL DEF Spec

\* Exactly the lines of disabled branches are blanked, at any time and in any
\* source: the one depth counter of MaskInactivePreprocessor is enough
\* (textmask/preproc.go:5-12).
THEOREM ExactlyDisabledBranches == Spec => []DisabledBranchesMasked
<1>1. InactiveInv => DisabledBranchesMasked
  BY DEF InactiveInv, DepthInv, Blanked, DisabledBranchesMasked
<1>. QED
  BY <1>1, InactiveInductive, PTL

-----------------------------------------------------------------------------
(* blankCPPOnlyBranches *)

\* The first branch of the conditional at i lasts up to line n, or the one
\* that starts at m does.
FirstUpTo(i, n) == \A j \in Alternatives(i) : j >= n
LaterUpTo(i, m, n) ==
  m \in Alternatives(i) /\ m < n /\ \A j \in Alternatives(i) : j <= m \/ j >= n

HasEnd(i, n) == \E j \in End(i) : j < n

Frames == [guard : {-1, 0, 1}, cppOnly : BOOLEAN]

\* The frame is that of the conditional at i, which is open before line n.
Tracks(frame, i, n) ==
  /\ Opens(i) /\ Within(i, n)
  /\ frame.guard = Guard(i)
  /\ \/ FirstUpTo(i, n) /\ (frame.cppOnly <=> Guard(i) = 1)
     \/ (\E m \in Nat : LaterUpTo(i, m, n)) /\ (frame.cppOnly <=> Guard(i) = -1)

\* The frames are those of the open conditionals f[1], f[2] ... before line n,
\* inner ones last; each other conditional has its #endif.
Stacked(frames, f, n) ==
  /\ \A k \in 1 .. Len(frames) :
       /\ f[k] \in 1 .. n - 1
       /\ Tracks(frames[k], f[k], n)
       /\ Deeper(f[k], n) = Len(frames) - k
  /\ \A i \in 1 .. n - 1 :
       Opens(i) => HasEnd(i, n) \/ \E k \in 1 .. Len(frames) : f[k] = i

\* Line l is in a branch that needs __cplusplus.
CPPLine(l) ==
  \E i \in 1 .. l - 1 :
    \/ Guard(i) = 1 /\ InBranch(i, i, l)
    \/ Guard(i) = -1 /\ \E m \in Alternatives(i) : InBranch(i, m, l)

BlankedCPP == {l \in 1 .. ln - 1 : lines[l].dir = "code" /\ CPPLine(l)}

GuardInv ==
  /\ Len(lines) \in Nat
  /\ ln \in 1 .. Len(lines) + 1
  /\ stack \in Seq(Frames)
  /\ \E f : Stacked(stack, f, ln)
  /\ hidden = BlankedCPP

CPPOnlyInv == tool = "cpponly" => GuardInv

LEMMA GuardType ==
  ASSUME NEW i
  PROVE  /\ Guard(i) \in {-1, 0, 1}
         /\ Guard(i) # 0 => Opens(i)
  BY DEF Guard, Opens, Ifs

LEMMA TrackOn ==
  ASSUME NEW frame, NEW i \in Nat, NEW n \in Nat, i < n, Tracks(frame, i, n),
         Deeper(i, n) > 0 \/ lines[n].dir \notin Elses \cup {"endif"}
  PROVE  Tracks(frame, i, n + 1)
<1>1. Within(i, n + 1)
  BY WithinStep DEF Tracks, Ends
<1>2. n \notin Alternatives(i)
  BY DEF Alternatives
<1>3. Alternatives(i) \subseteq Int
  BY DEF Alternatives
<1>4. FirstUpTo(i, n) => FirstUpTo(i, n + 1)
  BY <1>2, <1>3 DEF FirstUpTo
<1>5. \A m \in Nat : LaterUpTo(i, m, n) => LaterUpTo(i, m, n + 1)
  BY <1>2, <1>3 DEF LaterUpTo
<1>. QED
  BY <1>1, <1>4, <1>5 DEF Tracks

LEMMA TrackTurn ==
  ASSUME NEW frame, NEW i \in Nat, NEW n \in 1 .. Len(lines), Len(lines) \in Nat,
         i < n, Opens(i), Within(i, n), Deeper(i, n) = 0,
         lines[n].dir \in Elses,
         frame.guard = Guard(i), frame.cppOnly <=> (Guard(i) = -1)
  PROVE  Tracks(frame, i, n + 1)
<1>1. Within(i, n + 1)
  <2>1. n \in Nat /\ ~Ends(n)
    BY DEF Ends, Elses
  <2>. QED
    BY <2>1, WithinStep
<1>2. n \in Alternatives(i)
  BY DEF Alternatives
<1>3. Alternatives(i) \subseteq Int
  BY DEF Alternatives
<1>4. LaterUpTo(i, n, n + 1)
  BY <1>2, <1>3 DEF LaterUpTo
<1>. QED
  BY <1>1, <1>4 DEF Tracks

LEMMA TrackNew ==
  ASSUME NEW n \in Nat, Opens(n), NEW frame,
         frame.guard = Guard(n), frame.cppOnly <=> (Guard(n) = 1)
  PROVE  Tracks(frame, n, n + 1)
<1>1. FirstUpTo(n, n + 1)
  BY DEF FirstUpTo, Alternatives
<1>. QED
  BY <1>1, StartsOpen DEF Tracks

\* A line of code is in such a branch exactly when some frame says so.
LEMMA FramesTellCPP ==
  ASSUME NEW frames, NEW f, NEW n \in 1 .. Len(lines), Len(lines) \in Nat,
         Len(frames) \in Nat, Stacked(frames, f, n), lines[n].dir = "code"
  PROVE  CPPLine(n) <=> \E k \in 1 .. Len(frames) : frames[k].cppOnly
<1>1. ASSUME NEW i \in 1 .. n - 1, Within(i, n)
      PROVE  \A j \in End(i) : n < j
  <2>1. \A j \in End(i) : j \in Nat /\ i < j /\ Ends(j) /\ Deeper(i, j) = 0
    BY <1>1 DEF End
  <2>2. ~Ends(n)
    BY DEF Ends
  <2>. QED
    BY <1>1, <2>1, <2>2 DEF Within
<1>2. ASSUME NEW k \in 1 .. Len(frames), frames[k].cppOnly
      PROVE  CPPLine(n)
  <2> DEFINE i == f[k]
  <2>1. i \in 1 .. n - 1 /\ Tracks(frames[k], i, n)
    BY DEF Stacked
  <2>2. \A j \in End(i) : n < j
    BY <1>1, <2>1 DEF Tracks
  <2>3. n \notin Alternatives(i)
    BY DEF Alternatives, Elses
  <2>4. Alternatives(i) \subseteq i + 1 .. Len(lines)
    BY DEF Alternatives
  <2> HIDE DEF i
  <2>5. CASE FirstUpTo(i, n) /\ Guard(i) = 1
    <3>1. InBranch(i, i, n)
      BY <2>1, <2>2, <2>3, <2>4, <2>5 DEF InBranch, FirstUpTo
    <3>. QED
      BY <2>1, <2>5, <3>1 DEF CPPLine
  <2>6. CASE (\E m \in Nat : LaterUpTo(i, m, n)) /\ Guard(i) = -1
    <3>1. PICK m \in Nat : LaterUpTo(i, m, n)
      BY <2>6
    <3>2. InBranch(i, m, n)
      BY <2>1, <2>2, <2>3, <2>4, <3>1 DEF InBranch, LaterUpTo
    <3>. QED
      BY <2>1, <2>6, <3>1, <3>2 DEF CPPLine, LaterUpTo
  <2>. QED
    BY <1>2, <2>1, <2>5, <2>6 DEF Tracks
<1>3. ASSUME NEW i \in 1 .. n - 1, NEW m \in {i} \cup Alternatives(i),
             InBranch(i, m, n), Guard(i) # 0
      PROVE  \E k \in 1 .. Len(frames) : f[k] = i
  <2>1. Opens(i)
    BY <1>3, GuardType
  <2>2. ASSUME NEW j \in End(i), j < n PROVE FALSE
    <3>1. j \in i + 1 .. Len(lines) /\ Ends(j) /\ Deeper(i, j) = 0
      BY DEF End
    <3>2. j <= m
      BY <1>3, <2>2, <3>1 DEF InBranch
    <3>3. m \in Alternatives(i)
      BY <3>1, <3>2
    <3>4. Within(i, m) /\ lines[m].dir \in Elses /\ m \in i + 1 .. Len(lines)
      BY <3>3 DEF Alternatives
    <3>5. j # m
      BY <3>1, <3>4 DEF Ends, Elses
    <3>. QED
      BY <3>1, <3>2, <3>4, <3>5 DEF Within
  <2>. QED
    BY <2>1, <2>2 DEF Stacked, HasEnd
<1>4. ASSUME CPPLine(n) PROVE \E k \in 1 .. Len(frames) : frames[k].cppOnly
  <2>1. PICK i \in 1 .. n - 1 :
          \/ Guard(i) = 1 /\ InBranch(i, i, n)
          \/ Guard(i) = -1 /\ \E m \in Alternatives(i) : InBranch(i, m, n)
    BY <1>4 DEF CPPLine
  <2>a. \E m \in {i} \cup Alternatives(i) : InBranch(i, m, n)
    BY <2>1
  <2>b. Guard(i) # 0
    BY <2>1
  <2>2. PICK k \in 1 .. Len(frames) : f[k] = i
    BY <1>3, <2>a, <2>b
  <2>3. Tracks(frames[k], i, n)
    BY <2>2 DEF Stacked
  <2>4. CASE Guard(i) = 1 /\ InBranch(i, i, n)
    <3>1. ~\E m \in Nat : LaterUpTo(i, m, n)
      BY <2>4 DEF InBranch, LaterUpTo, Alternatives
    <3>. QED
      BY <2>3, <2>4, <3>1 DEF Tracks
  <2>5. CASE Guard(i) = -1 /\ \E m \in Alternatives(i) : InBranch(i, m, n)
    <3>1. ~FirstUpTo(i, n)
      BY <2>5 DEF InBranch, FirstUpTo, Alternatives
    <3>. QED
      BY <2>3, <2>5, <3>1 DEF Tracks
  <2>. QED
    BY <2>1, <2>4, <2>5
<1>. QED
  BY <1>2, <1>4

LEMMA InitCPPOnly == Init => CPPOnlyInv
<1> SUFFICES ASSUME Init, tool = "cpponly" PROVE GuardInv
  BY DEF CPPOnlyInv
<1>1. Len(lines) \in Nat
  BY SourcesAssumption DEF Init
<1>2. ln = 1 /\ hidden = {} /\ stack = << >>
  BY DEF Init
<1>3. BlankedCPP = {}
  BY <1>2 DEF BlankedCPP
<1>4. Stacked(<< >>, << >>, 1)
  BY DEF Stacked
<1>. QED
  BY <1>1, <1>2, <1>3, <1>4 DEF GuardInv

LEMMA SameGuards ==
  ASSUME lines' = lines
  PROVE  /\ \A i : Guard(i)' = Guard(i) /\ Opens(i)' = Opens(i)
         /\ \A i : Alternatives(i)' = Alternatives(i) /\ End(i)' = End(i)
         /\ \A i, j : Deeper(i, j)' = Deeper(i, j) /\ Within(i, j)' = Within(i, j)
         /\ \A i, m, l : InBranch(i, m, l)' = InBranch(i, m, l)
<1>1. \A i : Guard(i)' = Guard(i) /\ Opens(i)' = Opens(i)
  BY SameSource DEF Guard
<1>2. \A i : Alternatives(i)' = Alternatives(i) /\ End(i)' = End(i)
  BY SameSource, Zenon DEF Alternatives, End
<1>. QED
  BY <1>1, <1>2, SameSource, Zenon

LEMMA SameCPPLines ==
  ASSUME lines' = lines, NEW l
  PROVE  CPPLine(l)' <=> CPPLine(l)
<1>1. \A i : /\ Guard(i)' = Guard(i)
            /\ Alternatives(i)' = Alternatives(i)
            /\ \A m : InBranch(i, m, l)' = InBranch(i, m, l)
  BY SameGuards, Zenon
<1>. QED
  BY <1>1 DEF CPPLine

LEMMA SameStacked ==
  ASSUME lines' = lines
  PROVE  \A frames, f, n : Stacked(frames, f, n)' <=> Stacked(frames, f, n)
<1>1. \A i : Alternatives(i)' = Alternatives(i) /\ End(i)' = End(i)
  BY SameGuards, Zenon
<1>2. \A i, n : FirstUpTo(i, n)' <=> FirstUpTo(i, n)
  BY <1>1 DEF FirstUpTo
<1>3. \A i, n : HasEnd(i, n)' <=> HasEnd(i, n)
  BY <1>1 DEF HasEnd
<1>4. \A i, m, n : LaterUpTo(i, m, n)' <=> LaterUpTo(i, m, n)
  BY <1>1 DEF LaterUpTo
<1>5. \A i, n : /\ Guard(i)' = Guard(i) /\ Opens(i)' = Opens(i)
               /\ Within(i, n)' = Within(i, n) /\ Deeper(i, n)' = Deeper(i, n)
  BY SameGuards, Zenon
<1>6. \A frame, i, n : Tracks(frame, i, n)' <=> Tracks(frame, i, n)
  BY <1>2, <1>4, <1>5 DEF Tracks
<1>. QED
  BY <1>3, <1>5, <1>6 DEF Stacked

\* The invariant after a line, in terms of the source as it stands.
LEMMA NextGuardInv ==
  ASSUME Len(lines) \in Nat, ln \in 1 .. Len(lines), lines' = lines, ln' = ln + 1,
         stack' \in Seq(Frames),
         \E f : Stacked(stack', f, ln + 1),
         hidden = BlankedCPP,
         hidden' = IF lines[ln].dir = "code" /\ CPPLine(ln)
                   THEN hidden \cup {ln} ELSE hidden
  PROVE  GuardInv'
<1>1. Len(lines)' \in Nat /\ ln' \in 1 .. Len(lines)' + 1
  OBVIOUS
<1>2. BlankedCPP' = {l \in 1 .. ln : lines[l].dir = "code" /\ CPPLine(l)}
  <2>1. BlankedCPP' = {l \in 1 .. ln' - 1 : lines'[l].dir = "code" /\ CPPLine(l)'}
    BY DEF BlankedCPP
  <2>2. ln' - 1 = ln
    OBVIOUS
  <2>. QED
    BY <2>1, <2>2, SameCPPLines
<1>3. hidden' = BlankedCPP'
  BY <1>2 DEF BlankedCPP
<1>4. \E f : Stacked(stack, f, ln)'
  BY SameStacked, Zenon
<1>. QED
  BY <1>1, <1>3, <1>4 DEF GuardInv

LEMMA FramesBefore ==
  ASSUME GuardInv
  PROVE  /\ Len(lines) \in Nat /\ ln \in 1 .. Len(lines) + 1
         /\ stack \in Seq(Frames) /\ Len(stack) \in Nat
         /\ hidden = BlankedCPP
         /\ \E f : Stacked(stack, f, ln)
  BY DEF GuardInv

\* Conditionals on which the line has no bearing stay as they are.
LEMMA StackedOn ==
  ASSUME GuardInv, ln \in 1 .. Len(lines), NEW f, Stacked(stack, f, ln),
         NEW k \in 1 .. Len(stack),
         k < Len(stack) \/ lines[ln].dir \notin Elses \cup {"endif"}
  PROVE  /\ f[k] \in 1 .. ln
         /\ Tracks(stack[k], f[k], ln + 1)
         /\ Deeper(f[k], ln + 1) = Len(stack) - k + (IF Opens(ln) THEN 1 ELSE 0)
                                                - (IF Ends(ln) THEN 1 ELSE 0)
<1>1. /\ f[k] \in 1 .. ln - 1 /\ Tracks(stack[k], f[k], ln)
      /\ Deeper(f[k], ln) = Len(stack) - k
  BY DEF Stacked
<1>2. f[k] \in Nat /\ ln \in Nat /\ f[k] < ln /\ Len(stack) \in Nat
  BY <1>1, FramesBefore
<1>3. Deeper(f[k], ln) > 0 \/ lines[ln].dir \notin Elses \cup {"endif"}
  BY <1>1, <1>2
<1>4. Tracks(stack[k], f[k], ln + 1)
  BY <1>1, <1>2, <1>3, TrackOn
<1>5. Deeper(f[k], ln + 1) = Deeper(f[k], ln) + (IF Opens(ln) THEN 1 ELSE 0)
                                          - (IF Ends(ln) THEN 1 ELSE 0)
  BY <1>2, DeeperStep
<1>6. f[k] \in 1 .. ln
  BY <1>1, <1>2
<1>7. Deeper(f[k], ln + 1) = Len(stack) - k + (IF Opens(ln) THEN 1 ELSE 0)
                                          - (IF Ends(ln) THEN 1 ELSE 0)
  BY <1>1, <1>5, Zenon
<1>. QED
  BY <1>4, <1>6, <1>7

\* A conditional that has its #endif keeps it.
LEMMA EndedOn ==
  ASSUME NEW i, NEW n \in Nat, HasEnd(i, n)
  PROVE  HasEnd(i, n + 1)
<1>1. End(i) \subseteq Int
  BY DEF End
<1>. QED
  BY <1>1 DEF HasEnd

\* Without its last frame the stack has its other frames.
LEMMA PoppedFrames ==
  ASSUME stack \in Seq(Frames), Len(stack) > 0
  PROVE  /\ Popped \in Seq(Frames) /\ Len(Popped) = Len(stack) - 1
         /\ \A k \in 1 .. Len(stack) - 1 : Popped[k] = stack[k]
<1> DEFINE n == Len(stack) - 1
<1>1. n \in Nat /\ n <= Len(stack)
  OBVIOUS
<1>2. Popped = SubSeq(stack, 1, n)
  BY DEF Popped
<1> HIDE DEF n
<1>3. SubSeq(stack, 1, n) \in Seq(Frames)
  BY <1>1
<1>4. Len(SubSeq(stack, 1, n)) = n
  BY <1>1
<1>5. \A k \in 1 .. n : SubSeq(stack, 1, n)[k] = stack[k]
  BY <1>1
<1>. QED
  BY <1>2, <1>3, <1>4, <1>5 DEF n

LEMMA GuardedLineStep == GuardInv /\ tool = "cpponly" /\ GuardedLine => GuardInv'
<1> SUFFICES ASSUME GuardInv, tool = "cpponly", GuardedLine PROVE GuardInv'
  OBVIOUS
<1>1. /\ ln \in 1 .. Len(lines) /\ lines' = lines /\ ln' = ln + 1 /\ stack' = stack
      /\ lines[ln].dir \in {"code", "define"}
      /\ hidden' = IF lines[ln].dir = "code" /\ \E k \in 1 .. Len(stack) : stack[k].cppOnly
                   THEN hidden \cup {ln} ELSE hidden
  BY FramesBefore DEF GuardedLine, Reads, Line, source
<1>2. PICK f : Stacked(stack, f, ln)
  BY FramesBefore
<1>3. ~Opens(ln) /\ ~Ends(ln) /\ lines[ln].dir \notin Elses \cup {"endif"}
  BY <1>1 DEF Opens, Ends, Ifs, Elses
<1>4. Stacked(stack, f, ln + 1)
  <2>1. ASSUME NEW k \in 1 .. Len(stack)
        PROVE  /\ f[k] \in 1 .. (ln + 1) - 1
               /\ Tracks(stack[k], f[k], ln + 1)
               /\ Deeper(f[k], ln + 1) = Len(stack) - k
    <3>1. /\ f[k] \in 1 .. ln /\ Tracks(stack[k], f[k], ln + 1)
          /\ Deeper(f[k], ln + 1) = Len(stack) - k + (IF Opens(ln) THEN 1 ELSE 0)
                                                  - (IF Ends(ln) THEN 1 ELSE 0)
      BY <1>1, <1>2, <1>3, StackedOn
    <3>2. f[k] \in 1 .. (ln + 1) - 1
      BY <1>1, <3>1
    <3>3. Deeper(f[k], ln + 1) = Len(stack) - k
      BY <1>3, <3>1, FramesBefore
    <3>. QED
      BY <3>1, <3>2, <3>3, Zenon
  <2>2. ASSUME NEW i \in 1 .. (ln + 1) - 1, Opens(i)
        PROVE  HasEnd(i, ln + 1) \/ \E k \in 1 .. Len(stack) : f[k] = i
    <3>1. i \in 1 .. ln - 1
      BY <1>1, <1>3, <2>2
    <3>2. HasEnd(i, ln) \/ \E k \in 1 .. Len(stack) : f[k] = i
      BY <1>2, <2>2, <3>1 DEF Stacked
    <3>3. ln \in Nat
      BY <1>1
    <3>. QED
      BY <3>2, <3>3, EndedOn, Zenon
  <2>. QED
    BY <2>1, <2>2 DEF Stacked
<1>5. hidden' = IF lines[ln].dir = "code" /\ CPPLine(ln)
                THEN hidden \cup {ln} ELSE hidden
  BY <1>1, <1>2, FramesBefore, FramesTellCPP
<1>. QED
  BY <1>1, <1>4, <1>5, FramesBefore, NextGuardInv

LEMMA OpenGuardStep == GuardInv /\ tool = "cpponly" /\ OpenGuard => GuardInv'
<1> SUFFICES ASSUME GuardInv, tool = "cpponly", OpenGuard PROVE GuardInv'
  OBVIOUS
<1> DEFINE frame == [guard |-> Guard(ln), cppOnly |-> Guard(ln) = 1]
<1>1. /\ ln \in 1 .. Len(lines) /\ lines' = lines /\ ln' = ln + 1
      /\ stack' = Append(stack, frame) /\ hidden' = hidden
      /\ lines[ln].dir \in Ifs
  BY FramesBefore DEF OpenGuard, Reads, Line, source
<1>2. PICK f : Stacked(stack, f, ln)
  BY FramesBefore
<1>3. /\ Opens(ln) /\ ~Ends(ln)
      /\ lines[ln].dir \notin Elses \cup {"endif"} /\ lines[ln].dir # "code"
  BY <1>1 DEF Opens, Ends, Ifs, Elses
<1>4. frame \in Frames
  BY GuardType DEF Frames
<1>5. frame.guard = Guard(ln) /\ (frame.cppOnly <=> Guard(ln) = 1)
  OBVIOUS
<1> HIDE DEF frame
<1> DEFINE fnew == [k \in 1 .. Len(stack) + 1 |-> IF k <= Len(stack) THEN f[k] ELSE ln]
<1>6. /\ stack' \in Seq(Frames) /\ Len(stack') = Len(stack) + 1
      /\ \A k \in 1 .. Len(stack) : stack'[k] = stack[k]
      /\ stack'[Len(stack) + 1] = frame
  BY <1>1, <1>4, FramesBefore
<1>7. Stacked(stack', fnew, ln + 1)
  <2>1. ASSUME NEW k \in 1 .. Len(stack')
        PROVE  /\ fnew[k] \in 1 .. (ln + 1) - 1
               /\ Tracks(stack'[k], fnew[k], ln + 1)
               /\ Deeper(fnew[k], ln + 1) = Len(stack') - k
    <3>1. CASE k \in 1 .. Len(stack)
      <4>1. fnew[k] = f[k] /\ stack'[k] = stack[k]
        BY <1>6, <3>1, FramesBefore
      <4>2. /\ f[k] \in 1 .. ln /\ Tracks(stack[k], f[k], ln + 1)
            /\ Deeper(f[k], ln + 1) = Len(stack) - k + (IF Opens(ln) THEN 1 ELSE 0)
                                                    - (IF Ends(ln) THEN 1 ELSE 0)
        BY <1>1, <1>2, <1>3, <3>1, StackedOn
      <4>. QED
        BY <1>1, <1>3, <1>6, <3>1, <4>1, <4>2, FramesBefore
    <3>2. CASE k = Len(stack) + 1
      <4>1. fnew[k] = ln /\ stack'[k] = frame
        BY <1>6, <3>2, FramesBefore
      <4>2. Tracks(frame, ln, ln + 1)
        BY <1>1, <1>3, <1>5, TrackNew
      <4>3. Deeper(ln, ln + 1) = 0
        BY <1>1, DeeperFirst
      <4>. QED
        BY <1>1, <1>6, <3>2, <4>1, <4>2, <4>3, FramesBefore
    <3>. QED
      BY <1>6, <3>1, <3>2, FramesBefore
  <2>2. ASSUME NEW i \in 1 .. (ln + 1) - 1, Opens(i)
        PROVE  HasEnd(i, ln + 1) \/ \E k \in 1 .. Len(stack') : fnew[k] = i
    <3>1. CASE i = ln
      <4>1. fnew[Len(stack) + 1] = ln
        BY FramesBefore
      <4>. QED
        BY <1>6, <3>1, <4>1, FramesBefore
    <3>2. CASE i \in 1 .. ln - 1
      <4>1. HasEnd(i, ln) \/ \E k \in 1 .. Len(stack) : f[k] = i
        BY <1>2, <2>2, <3>2 DEF Stacked
      <4>2. \A k \in 1 .. Len(stack) : fnew[k] = f[k]
        BY FramesBefore
      <4>. QED
        BY <1>1, <1>6, <4>1, <4>2, EndedOn, FramesBefore
    <3>. QED
      BY <1>1, <3>1, <3>2
  <2> HIDE DEF fnew
  <2>. QED
    BY <2>1, <2>2 DEF Stacked
<1>. QED
  BY <1>1, <1>3, <1>6, <1>7, FramesBefore, NextGuardInv

LEMMA TurnGuardStep == GuardInv /\ tool = "cpponly" /\ TurnGuard => GuardInv'
<1> SUFFICES ASSUME GuardInv, tool = "cpponly", TurnGuard PROVE GuardInv'
  OBVIOUS
<1>1. /\ ln \in 1 .. Len(lines) /\ lines' = lines /\ ln' = ln + 1 /\ hidden' = hidden
      /\ lines[ln].dir \in Elses
      /\ stack' = IF stack # << >> /\ Top.guard # 0
                  THEN Append(Popped, [Top EXCEPT !.cppOnly = (Top.guard = -1)])
                  ELSE stack
  BY FramesBefore DEF TurnGuard, Reads, Line, source
<1>2. PICK f : Stacked(stack, f, ln)
  BY FramesBefore
<1>3. ~Opens(ln) /\ ~Ends(ln) /\ lines[ln].dir # "code"
  BY <1>1 DEF Opens, Ends, Ifs, Elses
<1>4. /\ stack' \in Seq(Frames) /\ Len(stack') = Len(stack)
      /\ \A k \in 1 .. Len(stack) - 1 : stack'[k] = stack[k]
      /\ Len(stack) > 0 =>
           /\ stack'[Len(stack)].guard = Top.guard
           /\ Top.guard # 0 => (stack'[Len(stack)].cppOnly <=> Top.guard = -1)
           /\ Top.guard = 0 => (stack'[Len(stack)].cppOnly <=> Top.cppOnly)
  <2>1. CASE stack # << >> /\ Top.guard # 0
    <3> DEFINE turned == [Top EXCEPT !.cppOnly = (Top.guard = -1)]
    <3>1. Len(stack) > 0 /\ Top \in Frames
      BY <2>1, FramesBefore DEF Top
    <3>2. /\ turned \in Frames /\ turned.guard = Top.guard
          /\ turned.cppOnly <=> (Top.guard = -1)
      BY <3>1 DEF Frames
    <3>3. stack' = Append(Popped, turned)
      BY <1>1, <2>1
    <3> HIDE DEF turned
    <3>4. /\ Popped \in Seq(Frames) /\ Len(Popped) = Len(stack) - 1
          /\ \A k \in 1 .. Len(stack) - 1 : Popped[k] = stack[k]
      BY <3>1, FramesBefore, PoppedFrames
    <3>. QED
      BY <2>1, <3>1, <3>2, <3>3, <3>4, FramesBefore
  <2>2. CASE stack = << >>
    BY <1>1, <2>2, FramesBefore
  <2>3. CASE stack # << >> /\ Top.guard = 0
    BY <1>1, <2>3, FramesBefore DEF Top
  <2>. QED
    BY <2>1, <2>2, <2>3
<1>5. Stacked(stack', f, ln + 1)
  <2>1. ASSUME NEW k \in 1 .. Len(stack')
        PROVE  /\ f[k] \in 1 .. (ln + 1) - 1
               /\ Tracks(stack'[k], f[k], ln + 1)
               /\ Deeper(f[k], ln + 1) = Len(stack') - k
    <3>1. CASE k < Len(stack)
      <4>1. k \in 1 .. Len(stack) /\ stack'[k] = stack[k]
        BY <1>4, <3>1, FramesBefore
      <4>2. /\ f[k] \in 1 .. ln /\ Tracks(stack[k], f[k], ln + 1)
            /\ Deeper(f[k], ln + 1) = Len(stack) - k + (IF Opens(ln) THEN 1 ELSE 0)
                                                    - (IF Ends(ln) THEN 1 ELSE 0)
        BY <1>1, <1>2, <3>1, <4>1, StackedOn
      <4>3. f[k] \in 1 .. (ln + 1) - 1
        BY <1>1, <4>2
      <4>4. Deeper(f[k], ln + 1) = Len(stack') - k
        BY <1>3, <1>4, <4>1, <4>2, FramesBefore
      <4>. QED
        BY <4>1, <4>2, <4>3, <4>4
    <3>2. CASE k = Len(stack)
      <4> DEFINE i == f[k]
      <4>1. /\ k \in 1 .. Len(stack) /\ i \in 1 .. ln - 1
            /\ Tracks(Top, i, ln) /\ Deeper(i, ln) = 0
        BY <1>2, <1>4, <3>2, FramesBefore DEF Stacked, Top
      <4>2. i \in Nat /\ i < ln /\ Len(stack) > 0
        BY <1>1, <4>1
      <4> HIDE DEF i
      <4>3. /\ Opens(i) /\ Within(i, ln) /\ Top.guard = Guard(i)
            /\ Top.guard = 0 => ~Top.cppOnly
        BY <4>1 DEF Tracks
      <4>4. stack'[k].guard = Guard(i)
        BY <1>4, <3>2, <4>2, <4>3
      <4>5. stack'[k].cppOnly <=> (Guard(i) = -1)
        BY <1>4, <3>2, <4>2, <4>3
      <4>6. Tracks(stack'[k], i, ln + 1)
        BY <1>1, <4>1, <4>2, <4>3, <4>4, <4>5, FramesBefore, TrackTurn
      <4>7. Deeper(i, ln + 1) = 0
        <5>1. ln \in Nat
          BY <1>1
        <5>2. Deeper(i, ln + 1) = Deeper(i, ln) + (IF Opens(ln) THEN 1 ELSE 0)
                                              - (IF Ends(ln) THEN 1 ELSE 0)
          BY <4>2, <5>1, DeeperStep
        <5>. QED
          BY <1>3, <4>1, <5>2
      <4>8. i \in 1 .. (ln + 1) - 1
        BY <1>1, <4>1
      <4>9. Deeper(i, ln + 1) = Len(stack') - k
        BY <1>4, <3>2, <4>7, FramesBefore
      <4>. QED
        BY <4>6, <4>8, <4>9, Zenon DEF i
    <3>. QED
      BY <1>4, <3>1, <3>2, FramesBefore
  <2>2. ASSUME NEW j \in 1 .. (ln + 1) - 1, Opens(j)
        PROVE  HasEnd(j, ln + 1) \/ \E k \in 1 .. Len(stack') : f[k] = j
    <3>1. j \in 1 .. ln - 1
      BY <1>1, <1>3, <2>2
    <3>2. HasEnd(j, ln) \/ \E k \in 1 .. Len(stack) : f[k] = j
      BY <1>2, <2>2, <3>1 DEF Stacked
    <3>3. ln \in Nat
      BY <1>1
    <3>4. HasEnd(j, ln) => HasEnd(j, ln + 1)
      BY <3>3, EndedOn, Zenon
    <3>. QED
      BY <1>4, <3>2, <3>4
  <2>. QED
    BY <2>1, <2>2 DEF Stacked
<1>. QED
  BY <1>1, <1>3, <1>4, <1>5, FramesBefore, NextGuardInv

LEMMA CloseGuardStep == GuardInv /\ tool = "cpponly" /\ CloseGuard => GuardInv'
<1> SUFFICES ASSUME GuardInv, tool = "cpponly", CloseGuard PROVE GuardInv'
  OBVIOUS
<1>1. /\ ln \in 1 .. Len(lines) /\ lines' = lines /\ ln' = ln + 1 /\ hidden' = hidden
      /\ lines[ln].dir = "endif"
      /\ stack' = IF stack # << >> THEN Popped ELSE stack
  BY FramesBefore DEF CloseGuard, Reads, Line, source
<1>2. PICK f : Stacked(stack, f, ln)
  BY FramesBefore
<1>3. ~Opens(ln) /\ Ends(ln) /\ lines[ln].dir # "code" /\ lines[ln].dir \notin Elses
  BY <1>1 DEF Opens, Ends, Ifs, Elses
<1>4. /\ stack' \in Seq(Frames)
      /\ Len(stack') = IF Len(stack) > 0 THEN Len(stack) - 1 ELSE 0
      /\ \A k \in 1 .. Len(stack') : k \in 1 .. Len(stack) - 1 /\ stack'[k] = stack[k]
  <2>1. CASE stack = << >>
    BY <1>1, <2>1, FramesBefore
  <2>2. CASE stack # << >>
    <3>1. Len(stack) > 0 /\ stack' = Popped
      BY <1>1, <2>2, FramesBefore
    <3>. QED
      BY <3>1, FramesBefore, PoppedFrames
  <2>. QED
    BY <2>1, <2>2
<1>5. Stacked(stack', f, ln + 1)
  <2>1. ASSUME NEW k \in 1 .. Len(stack')
        PROVE  /\ f[k] \in 1 .. (ln + 1) - 1
               /\ Tracks(stack'[k], f[k], ln + 1)
               /\ Deeper(f[k], ln + 1) = Len(stack') - k
    <3>1. k \in 1 .. Len(stack) /\ k < Len(stack) /\ stack'[k] = stack[k]
      BY <1>4, FramesBefore
    <3>2. /\ f[k] \in 1 .. ln /\ Tracks(stack[k], f[k], ln + 1)
          /\ Deeper(f[k], ln + 1) = Len(stack) - k + (IF Opens(ln) THEN 1 ELSE 0)
                                                  - (IF Ends(ln) THEN 1 ELSE 0)
      BY <1>1, <1>2, <3>1, StackedOn
    <3>. QED
      BY <1>1, <1>3, <1>4, <3>1, <3>2, FramesBefore
  <2>2. ASSUME NEW j \in 1 .. (ln + 1) - 1, Opens(j)
        PROVE  HasEnd(j, ln + 1) \/ \E k \in 1 .. Len(stack') : f[k] = j
    <3>1. j \in 1 .. ln - 1
      BY <1>1, <1>3, <2>2
    <3>2. CASE HasEnd(j, ln)
      BY <1>1, <3>2, EndedOn
    <3>3. ASSUME NEW k \in 1 .. Len(stack), f[k] = j
          PROVE  HasEnd(j, ln + 1) \/ \E q \in 1 .. Len(stack') : f[q] = j
      <4>1. CASE k < Len(stack)
        BY <1>4, <3>3, <4>1, FramesBefore
      <4>2. CASE k = Len(stack)
        <5>1. Within(j, ln) /\ Deeper(j, ln) = 0
          BY <1>2, <3>3, <4>2, FramesBefore DEF Stacked, Tracks
        <5>2. ln \in End(j)
          BY <1>1, <1>3, <3>1, <5>1, FramesBefore DEF End
        <5>. QED
          BY <1>1, <5>2 DEF HasEnd
      <4>. QED
        BY <4>1, <4>2, FramesBefore
    <3>. QED
      BY <1>2, <2>2, <3>1, <3>2, <3>3 DEF Stacked
  <2>. QED
    BY <2>1, <2>2 DEF Stacked
<1>. QED
  BY <1>1, <1>3, <1>4, <1>5, FramesBefore, NextGuardInv

LEMMA GuardStutter == GuardInv /\ UNCHANGED vars => GuardInv'
<1> SUFFICES ASSUME GuardInv, UNCHANGED vars PROVE GuardInv'
  OBVIOUS
<1>1. lines' = lines /\ ln' = ln /\ stack' = stack /\ hidden' = hidden
  BY DEF vars, source
<1>2. \E f : Stacked(stack, f, ln)'
  BY <1>1, FramesBefore, SameStacked, Zenon
<1>3. BlankedCPP' = BlankedCPP
  BY <1>1, SameCPPLines DEF BlankedCPP
<1>. QED
  BY <1>1, <1>2, <1>3 DEF GuardInv

\* The "cpponly" pass keeps its invariant, and no other pass runs beside it.
THEOREM CPPOnlyInductive == Spec => []CPPOnlyInv
<1>1. CPPOnlyInv /\ [Next]_vars => CPPOnlyInv'
  <2> SUFFICES ASSUME CPPOnlyInv, [Next]_vars, tool' = "cpponly" PROVE GuardInv'
    BY DEF CPPOnlyInv
  <2>1. tool' = tool
    BY DEF Next, Inactive, CPPOnly, Alternate, vars, source, LiveLine, DisabledEnd,
           DisabledLine, OpenGuard, TurnGuard, CloseGuard, GuardedLine, ReturnNil,
           OpenGroup, NextBranch, CloseGroup, OutsideGroups, Decide
  <2>2. GuardInv /\ tool = "cpponly"
    BY <2>1 DEF CPPOnlyInv
  <2>3. CASE CPPOnly
    BY <2>2, <2>3, OpenGuardStep, TurnGuardStep, CloseGuardStep, GuardedLineStep
       DEF CPPOnly
  <2>4. ~Inactive /\ ~Alternate
    BY <2>2 DEF Inactive, Alternate, Reads, LiveLine, DisabledEnd, DisabledLine,
           ReturnNil, OpenGroup, NextBranch, CloseGroup, OutsideGroups, Decide
  <2>5. CASE UNCHANGED vars
    BY <2>2, <2>5, GuardStutter
  <2>. QED
    BY <2>3, <2>4, <2>5 DEF Next
<1>. QED
  BY <1>1, InitCPPOnly, PTL DEF Spec

\* Exactly the code in branches that need __cplusplus is blanked, at any time
\* and in any header (lang.go:73-118).
THEOREM ExactlyCPPOnlyBranches == Spec => []CPPOnlyBranchesBlanked
<1>1. CPPOnlyInv => CPPOnlyBranchesBlanked
  BY DEF CPPOnlyInv, GuardInv, BlankedCPP, CPPLine, CPPOnlyBranchesBlanked
<1>. QED
  BY <1>1, CPPOnlyInductive, PTL

-----------------------------------------------------------------------------
(* csAlternateInactiveLines *)

Branches == [start : Nat, end : Nat, cond : {lines[k].arg : k \in 1 .. Len(lines)},
             isElse : BOOLEAN]

\* The directive a branch starts after, and that of its group.
Dir(b) == b.start - 1
Opener(bs) == Dir(bs[1])

\* The branches are those of the conditional they open with, as far as it
\* goes before line n.
Follows(bs, n) ==
  /\ bs \in Seq(Branches) /\ Len(bs) > 0
  /\ Opener(bs) \in 1 .. n - 1 /\ lines[Opener(bs)].dir = "if"
  /\ \A j \in 1 .. Len(bs) :
       /\ Dir(bs[j]) \in Starts(Opener(bs)) /\ Dir(bs[j]) < n
       /\ bs[j].cond = lines[Dir(bs[j])].arg
       /\ bs[j].isElse <=> lines[Dir(bs[j])].dir = "else"
       /\ \A k \in 1 .. Len(bs) : j < k => Dir(bs[j]) < Dir(bs[k])
       /\ j < Len(bs) => bs[j].end = Dir(bs[j + 1]) - 1
  /\ \A m \in Starts(Opener(bs)) : m < n => \E j \in 1 .. Len(bs) : Dir(bs[j]) = m
  /\ IF HasEnd(Opener(bs), n)
     THEN \E e \in End(Opener(bs)) : e < n /\ bs[Len(bs)].end = e - 1
     ELSE bs[Len(bs)].end = 0

\* The lines of a group that are reported.
Lost(bs) ==
  IF Decidable(bs)
  THEN UNION {Inside(bs[j]) : j \in (1 .. Len(bs)) \ Settling(bs)}
  ELSE {}

\* Each conditional has a group, and the stack holds the groups of those that
\* are open, inner ones last.
Grouped(gs, st, n) ==
  /\ gs \in Seq(Seq(Branches)) /\ st \in Seq(1 .. Len(gs))
  /\ \A k \in 1 .. Len(gs) :
       /\ Follows(gs[k], n)
       /\ HasEnd(Opener(gs[k]), n) \/ \E p \in 1 .. Len(st) : st[p] = k
  /\ \A p \in 1 .. Len(st) :
       /\ Within(Opener(gs[st[p]]), n)
       /\ Deeper(Opener(gs[st[p]]), n) = Len(st) - p
  /\ \A i \in 1 .. n - 1 : lines[i].dir = "if" => \E k \in 1 .. Len(gs) : Opener(gs[k]) = i

GroupInv ==
  /\ Len(lines) \in Nat /\ ln \in 1 .. Len(lines) + 1 /\ CSharpLines(lines)
  /\ Grouped(groups, stack, ln)
  /\ g \in 1 .. Len(groups) + 1 /\ (ln <= Len(lines) => g = 1)
  /\ hidden = UNION {Lost(groups[k]) : k \in 1 .. g - 1}

\* Without "#else" or "#elif" in its text, no conditional is looked at.
AlternateInv ==
  tool = "alternate" =>
    IF Mentioned THEN GroupInv ELSE hidden = {} /\ groups = << >>

\* Nothing after the #endif of a conditional is in it.
LEMMA EndStops ==
  ASSUME NEW i \in Nat, NEW n \in Nat, NEW e \in End(i), e < n
  PROVE  ~Within(i, n)
<1>1. e \in i + 1 .. Len(lines) /\ Ends(e) /\ Deeper(i, e) = 0
  BY DEF End
<1>. QED
  BY <1>1 DEF Within

\* A line that is no directive of the conditional changes nothing for it.
LEMMA FollowsOn ==
  ASSUME NEW bs, NEW n \in Nat, Follows(bs, n),
         n \notin Alternatives(Opener(bs)), n \notin End(Opener(bs))
  PROVE  Follows(bs, n + 1)
<1> DEFINE i == Opener(bs)
<1>1. i \in 1 .. n - 1 /\ Starts(i) \subseteq Nat /\ n \notin Starts(i) /\ End(i) \subseteq Nat
  BY DEF Follows, Starts, Alternatives, End
<1>2. HasEnd(i, n + 1) <=> HasEnd(i, n)
  BY <1>1 DEF HasEnd
<1>3. \A m \in Starts(i) : m < n + 1 <=> m < n
  BY <1>1
<1>4. \A e \in End(i) : e < n + 1 <=> e < n
  BY <1>1
<1>5. i \in 1 .. (n + 1) - 1
  BY <1>1
<1> HIDE DEF i
<1>. QED
  BY <1>2, <1>3, <1>4, <1>5 DEF Follows, i

\* The line has no bearing on a conditional that has ended, nor on one it is
\* deeper in.
LEMMA NoBearing ==
  ASSUME NEW i \in Nat, NEW n \in Nat, HasEnd(i, n) \/ Deeper(i, n) > 0
  PROVE  n \notin Alternatives(i) /\ n \notin End(i)
<1>1. CASE HasEnd(i, n)
  <2>1. ~Within(i, n)
    BY <1>1, EndStops DEF HasEnd
  <2>. QED
    BY <2>1 DEF Alternatives, End
<1>2. CASE Deeper(i, n) > 0
  BY <1>2 DEF Alternatives, End
<1>. QED
  BY <1>1, <1>2

LEMMA InitAlternate ==
  ASSUME \A s \in Sources : s.tool = "alternate" => CSharpLines(s.lines)
  PROVE  Init => AlternateInv
<1> SUFFICES ASSUME Init, tool = "alternate" PROVE GroupInv
  BY DEF AlternateInv, Init
<1>1. Len(lines) \in Nat /\ CSharpLines(lines)
  BY SourcesAssumption DEF Init
<1>2. ln = 1 /\ hidden = {} /\ stack = << >> /\ groups = << >> /\ g = 1
  BY DEF Init
<1>3. Grouped(<< >>, << >>, 1)
  BY DEF Grouped
<1>. QED
  BY <1>1, <1>2, <1>3 DEF GroupInv

LEMMA SameGroups ==
  ASSUME lines' = lines
  PROVE  /\ \A bs, n : Follows(bs, n)' <=> Follows(bs, n)
         /\ \A gs, st, n : Grouped(gs, st, n)' <=> Grouped(gs, st, n)
         /\ CSharpLines(lines)' <=> CSharpLines(lines)
<1>1. \A i : Alternatives(i)' = Alternatives(i) /\ End(i)' = End(i)
  BY SameGuards, Zenon
<1>2. \A i : Starts(i)' = Starts(i)
  BY <1>1, Zenon DEF Starts
<1>3. \A i, n : HasEnd(i, n)' <=> HasEnd(i, n)
  BY <1>1, Zenon DEF HasEnd
<1>4. Branches' = Branches
  BY DEF Branches
<1>5. \A bs, n : Follows(bs, n)' <=> Follows(bs, n)
  BY <1>1, <1>2, <1>3, <1>4 DEF Follows, Opener, Dir
<1>6. \A i, n : Within(i, n)' = Within(i, n) /\ Deeper(i, n)' = Deeper(i, n)
  BY SameGuards, Zenon
<1>7. ASSUME NEW gs, NEW st, NEW n
      PROVE  Grouped(gs, st, n)' <=> Grouped(gs, st, n)
  <2>1. \A k : Follows(gs[k], n)' <=> Follows(gs[k], n)
    BY <1>5
  <2>2. \A k : HasEnd(Opener(gs[k]), n)' <=> HasEnd(Opener(gs[k]), n)
    BY <1>3 DEF Opener, Dir
  <2>3. \A p : /\ Within(Opener(gs[st[p]]), n)' <=> Within(Opener(gs[st[p]]), n)
               /\ Deeper(Opener(gs[st[p]]), n)' = Deeper(Opener(gs[st[p]]), n)
    BY <1>6 DEF Opener, Dir
  <2>4. \A k : Opener(gs[k])' = Opener(gs[k])
    BY DEF Opener, Dir
  <2>. QED
    BY <1>4, <2>1, <2>2, <2>3, <2>4 DEF Grouped
<1>. QED
  BY <1>5, <1>7

\* The invariant after a line, in terms of the source as it stands.
LEMMA NextGroupInv ==
  ASSUME GroupInv, ln \in 1 .. Len(lines), lines' = lines, ln' = ln + 1, g' = g,
         hidden' = hidden, Grouped(groups', stack', ln + 1)
  PROVE  GroupInv'
<1>1. Len(lines)' \in Nat /\ ln' \in 1 .. Len(lines)' + 1 /\ CSharpLines(lines)'
  BY SameGroups DEF GroupInv
<1>2. g = 1 /\ hidden = {}
  <2>1. g = 1
    BY DEF GroupInv
  <2>2. hidden = UNION {Lost(groups[k]) : k \in 1 .. g - 1}
    BY DEF GroupInv
  <2>3. 1 .. g - 1 = {}
    BY <2>1
  <2>. QED
    BY <2>1, <2>2, <2>3
<1>3. Grouped(groups, stack, ln)'
  BY SameGroups, Zenon
<1>4. Len(groups') \in Nat
  BY DEF Grouped
<1>5. hidden' = UNION {Lost(groups[k])' : k \in 1 .. g' - 1}
  <2>1. 1 .. g' - 1 = {}
    BY <1>2
  <2>. QED
    BY <1>2, <2>1
<1>. QED
  BY <1>1, <1>2, <1>3, <1>4, <1>5 DEF GroupInv

LEMMA GroupsBefore ==
  ASSUME GroupInv
  PROVE  /\ Len(lines) \in Nat /\ ln \in 1 .. Len(lines) + 1 /\ ln \in Nat
         /\ groups \in Seq(Seq(Branches)) /\ Len(groups) \in Nat
         /\ stack \in Seq(1 .. Len(groups)) /\ Len(stack) \in Nat
         /\ \A k \in 1 .. Len(groups) : /\ Follows(groups[k], ln)
                                        /\ Opener(groups[k]) \in 1 .. ln - 1
                                        /\ Opener(groups[k]) \in Nat
         /\ \A p \in 1 .. Len(stack) : stack[p] \in 1 .. Len(groups)
<1>1. Len(lines) \in Nat /\ ln \in 1 .. Len(lines) + 1 /\ Grouped(groups, stack, ln)
  BY DEF GroupInv
<1>2. /\ groups \in Seq(Seq(Branches)) /\ stack \in Seq(1 .. Len(groups))
      /\ \A k \in 1 .. Len(groups) : Follows(groups[k], ln)
  BY <1>1 DEF Grouped
<1>3. \A k \in 1 .. Len(groups) : Opener(groups[k]) \in 1 .. ln - 1
  BY <1>2 DEF Follows
<1>4. \A k \in 1 .. Len(groups) : Opener(groups[k]) \in Nat
  BY <1>1, <1>3
<1>5. \A p \in 1 .. Len(stack) : stack[p] \in 1 .. Len(groups)
  BY <1>2
<1>6. ln \in Nat /\ Len(groups) \in Nat /\ Len(stack) \in Nat
  BY <1>1, <1>2
<1> HIDE DEF Branches
<1>. QED
  BY <1>1, <1>2, <1>3, <1>4, <1>5, <1>6

\* A group that the line is not about goes on as it is.
LEMMA OtherGroup ==
  ASSUME GroupInv, ln \in 1 .. Len(lines), NEW k \in 1 .. Len(groups),
         \/ stack = << >> \/ k # Top
         \/ lines[ln].dir \notin Elses \cup {"endif"}
  PROVE  /\ Follows(groups[k], ln + 1)
         /\ HasEnd(Opener(groups[k]), ln) \/ \E p \in 1 .. Len(stack) : stack[p] = k
         /\ HasEnd(Opener(groups[k]), ln) => HasEnd(Opener(groups[k]), ln + 1)
<1> DEFINE i == Opener(groups[k])
<1>1. Follows(groups[k], ln) /\ i \in Nat /\ ln \in Nat
  BY GroupsBefore
<1>2. HasEnd(i, ln) \/ \E p \in 1 .. Len(stack) : stack[p] = k
  BY DEF GroupInv, Grouped
<1>3. ln \notin Alternatives(i) /\ ln \notin End(i)
  <2>1. CASE HasEnd(i, ln)
    BY <1>1, <2>1, NoBearing
  <2>2. ASSUME NEW p \in 1 .. Len(stack), stack[p] = k
        PROVE  ln \notin Alternatives(i) /\ ln \notin End(i)
    <3>1. CASE p < Len(stack)
      <4>1. Deeper(i, ln) = Len(stack) - p
        BY <2>2 DEF GroupInv, Grouped
      <4>2. Deeper(i, ln) > 0
        BY <3>1, <4>1, GroupsBefore
      <4>. QED
        BY <1>1, <4>2, NoBearing
    <3>2. CASE p = Len(stack)
      <4>1. k = Top /\ stack # << >>
        BY <2>2, <3>2, GroupsBefore DEF Top
      <4>2. lines[ln].dir \notin Elses \cup {"endif"}
        BY <4>1
      <4>. QED
        BY <4>2 DEF Alternatives, End, Ends
    <3>. QED
      BY <3>1, <3>2, GroupsBefore
  <2>. QED
    BY <1>2, <2>1, <2>2
<1>. QED
  BY <1>1, <1>2, <1>3, FollowsOn, EndedOn

\* The nesting of the open conditionals after the line.
LEMMA StackOn ==
  ASSUME GroupInv, ln \in 1 .. Len(lines), NEW p \in 1 .. Len(stack),
         p < Len(stack) \/ ~Ends(ln)
  PROVE  /\ Within(Opener(groups[stack[p]]), ln + 1)
         /\ Deeper(Opener(groups[stack[p]]), ln + 1)
              = Len(stack) - p + (IF Opens(ln) THEN 1 ELSE 0) - (IF Ends(ln) THEN 1 ELSE 0)
<1> DEFINE i == Opener(groups[stack[p]])
<1>1. i \in Nat /\ ln \in Nat /\ i < ln /\ Len(stack) \in Nat
  BY GroupsBefore
<1>2. Within(i, ln) /\ Deeper(i, ln) = Len(stack) - p
  BY DEF GroupInv, Grouped
<1>3. Ends(ln) => Deeper(i, ln) > 0
  BY <1>1, <1>2
<1> HIDE DEF i
<1>4. Within(i, ln + 1)
  BY <1>1, <1>2, <1>3, WithinStep
<1>5. Deeper(i, ln + 1) = Deeper(i, ln) + (IF Opens(ln) THEN 1 ELSE 0)
                                        - (IF Ends(ln) THEN 1 ELSE 0)
  BY <1>1, DeeperStep
<1>. QED
  BY <1>2, <1>4, <1>5 DEF i

\* Every conditional before the line has its group.
LEMMA OpenersBefore ==
  ASSUME GroupInv, NEW j \in 1 .. ln - 1, lines[j].dir = "if"
  PROVE  \E k \in 1 .. Len(groups) : Opener(groups[k]) = j
  BY DEF GroupInv, Grouped

LEMMA OutsideGroupsStep == GroupInv /\ tool = "alternate" /\ OutsideGroups => GroupInv'
<1> SUFFICES ASSUME GroupInv, tool = "alternate", OutsideGroups PROVE GroupInv'
  OBVIOUS
<1>1. /\ ln \in 1 .. Len(lines) /\ lines' = lines /\ ln' = ln + 1 /\ hidden' = hidden
      /\ stack' = stack /\ groups' = groups /\ g' = g
      /\ lines[ln].dir # "if"
      /\ lines[ln].dir \notin Elses \cup {"endif"} \/ stack = << >>
  BY GroupsBefore DEF OutsideGroups, Reads, Line, source
<1>2. ~Opens(ln)
  BY <1>1 DEF GroupInv, CSharpLines, Opens, Ifs
<1>3. Grouped(groups, stack, ln + 1)
  <2>1. ASSUME NEW k \in 1 .. Len(groups)
        PROVE  /\ Follows(groups[k], ln + 1)
               /\ HasEnd(Opener(groups[k]), ln + 1) \/ \E p \in 1 .. Len(stack) : stack[p] = k
    BY <1>1, OtherGroup
  <2>2. ASSUME NEW p \in 1 .. Len(stack)
        PROVE  /\ Within(Opener(groups[stack[p]]), ln + 1)
               /\ Deeper(Opener(groups[stack[p]]), ln + 1) = Len(stack) - p
    <3>1. ~Ends(ln)
      <4>1. stack # << >>
        BY GroupsBefore
      <4>. QED
        BY <4>1, <1>1 DEF Ends
    <3>. QED
      BY <1>1, <1>2, <3>1, StackOn, GroupsBefore
  <2>3. ASSUME NEW j \in 1 .. (ln + 1) - 1, lines[j].dir = "if"
        PROVE  \E k \in 1 .. Len(groups) : Opener(groups[k]) = j
    <3>1. j \in 1 .. ln - 1
      BY <1>1, <2>3
    <3>. QED
      BY <2>3, <3>1, OpenersBefore
  <2>. QED
    BY <2>1, <2>2, <2>3, GroupsBefore DEF Grouped
<1>. QED
  BY <1>1, <1>3, NextGroupInv

\* The group that a conditional begins with.
LEMMA NewGroup ==
  ASSUME Len(lines) \in Nat, ln \in 1 .. Len(lines), lines[ln].dir = "if"
  PROVE  /\ Follows(<<Branch(lines[ln].arg, FALSE)>>, ln + 1)
         /\ Opener(<<Branch(lines[ln].arg, FALSE)>>) = ln
<1> DEFINE b == Branch(lines[ln].arg, FALSE)
           bs == <<b>>
<1>1. /\ b \in Branches /\ b.start = ln + 1 /\ b.end = 0 /\ b.cond = lines[ln].arg
      /\ b.isElse = FALSE
  BY DEF Branch, Branches
<1> HIDE DEF b
<1>2. bs \in Seq(Branches) /\ Len(bs) = 1 /\ bs[1] = b
  BY <1>1
<1> HIDE DEF bs
<1>3. Dir(bs[1]) = ln /\ Opener(bs) = ln
  BY <1>1, <1>2 DEF Dir, Opener
<1>4. ~HasEnd(ln, ln + 1)
  BY DEF HasEnd, End
<1>5. \A m \in Starts(ln) : m < ln + 1 => m = ln
  BY DEF Starts, Alternatives
<1>6. ln \in Starts(ln)
  BY DEF Starts
<1>7. \A j \in 1 .. Len(bs) : j = 1
  BY <1>2
<1>8. \A j \in 1 .. Len(bs) :
        /\ Dir(bs[j]) \in Starts(ln) /\ Dir(bs[j]) < ln + 1
        /\ bs[j].cond = lines[Dir(bs[j])].arg
        /\ bs[j].isElse <=> lines[Dir(bs[j])].dir = "else"
        /\ \A k \in 1 .. Len(bs) : j < k => Dir(bs[j]) < Dir(bs[k])
        /\ j < Len(bs) => bs[j].end = Dir(bs[j + 1]) - 1
  BY <1>1, <1>2, <1>3, <1>6, <1>7
<1>9. Follows(bs, ln + 1)
  <2>1. ln \in 1 .. (ln + 1) - 1
    OBVIOUS
  <2>2. \A m \in Starts(ln) : m < ln + 1 => \E j \in 1 .. Len(bs) : Dir(bs[j]) = m
    BY <1>2, <1>3, <1>5
  <2>3. bs[Len(bs)].end = 0
    BY <1>1, <1>2
  <2>. QED
    BY <1>2, <1>3, <1>4, <1>8, <2>1, <2>2, <2>3 DEF Follows
<1>. QED
  BY <1>3, <1>9 DEF bs, b

LEMMA OpenGroupStep == GroupInv /\ tool = "alternate" /\ OpenGroup => GroupInv'
<1> SUFFICES ASSUME GroupInv, tool = "alternate", OpenGroup PROVE GroupInv'
  OBVIOUS
<1> DEFINE bs == <<Branch(lines[ln].arg, FALSE)>>
           n == Len(groups) + 1
<1>1. /\ ln \in 1 .. Len(lines) /\ lines' = lines /\ ln' = ln + 1 /\ hidden' = hidden
      /\ stack' = Append(stack, n) /\ groups' = Append(groups, bs) /\ g' = g
      /\ lines[ln].dir = "if"
  BY GroupsBefore DEF OpenGroup, Reads, Line, source
<1>2. Opens(ln) /\ ~Ends(ln) /\ lines[ln].dir \notin Elses \cup {"endif"}
  BY <1>1 DEF Opens, Ends, Ifs, Elses
<1>3. Follows(bs, ln + 1) /\ Opener(bs) = ln
  BY <1>1, NewGroup, GroupsBefore
<1>4. bs \in Seq(Branches)
  BY <1>3 DEF Follows
<1> HIDE DEF bs
<1>5. /\ groups' \in Seq(Seq(Branches)) /\ Len(groups') = n
      /\ (\A k \in 1 .. Len(groups) : groups'[k] = groups[k]) /\ groups'[n] = bs
  BY <1>1, <1>4, GroupsBefore
<1>6. /\ stack' \in Seq(1 .. n) /\ Len(stack') = Len(stack) + 1
      /\ (\A p \in 1 .. Len(stack) : stack'[p] = stack[p]) /\ stack'[Len(stack) + 1] = n
  <2>1. n \in 1 .. n /\ \A p \in 1 .. Len(stack) : stack[p] \in 1 .. n
    BY GroupsBefore
  <2>2. stack \in Seq(1 .. n)
    BY <2>1, GroupsBefore
  <2> HIDE DEF n
  <2>. QED
    BY <1>1, <2>1, <2>2
<1>7. Grouped(groups', stack', ln + 1)
  <2>1. ASSUME NEW k \in 1 .. Len(groups')
        PROVE  /\ Follows(groups'[k], ln + 1)
               /\ \/ HasEnd(Opener(groups'[k]), ln + 1)
                  \/ \E p \in 1 .. Len(stack') : stack'[p] = k
    <3>1. CASE k \in 1 .. Len(groups)
      <4>1. /\ Follows(groups[k], ln + 1)
            /\ HasEnd(Opener(groups[k]), ln + 1) \/ \E p \in 1 .. Len(stack) : stack[p] = k
        BY <1>1, <1>2, <3>1, OtherGroup
      <4>2. \A p \in 1 .. Len(stack) : p \in 1 .. Len(stack')
        BY <1>6, GroupsBefore
      <4>. QED
        BY <1>5, <1>6, <3>1, <4>1, <4>2
    <3>2. CASE k = n
      <4>1. Len(stack) + 1 \in 1 .. Len(stack')
        BY <1>6, GroupsBefore
      <4>. QED
        BY <1>3, <1>5, <1>6, <3>2, <4>1
    <3>. QED
      BY <1>5, <3>1, <3>2, GroupsBefore
  <2>2. ASSUME NEW p \in 1 .. Len(stack')
        PROVE  /\ Within(Opener(groups'[stack'[p]]), ln + 1)
               /\ Deeper(Opener(groups'[stack'[p]]), ln + 1) = Len(stack') - p
    <3>1. CASE p \in 1 .. Len(stack)
      <4>1. groups'[stack'[p]] = groups[stack[p]]
        BY <1>5, <1>6, <3>1, GroupsBefore
      <4>2. /\ Within(Opener(groups[stack[p]]), ln + 1)
            /\ Deeper(Opener(groups[stack[p]]), ln + 1)
                 = Len(stack) - p + (IF Opens(ln) THEN 1 ELSE 0) - (IF Ends(ln) THEN 1 ELSE 0)
        BY <1>1, <1>2, <3>1, StackOn
      <4>3. Deeper(Opener(groups[stack[p]]), ln + 1) = Len(stack') - p
        BY <1>2, <1>6, <3>1, <4>2, GroupsBefore
      <4>. QED
        BY <4>1, <4>2, <4>3
    <3>2. CASE p = Len(stack) + 1
      <4>1. groups'[stack'[p]] = bs
        BY <1>5, <1>6, <3>2
      <4>2. Within(ln, ln + 1) /\ Deeper(ln, ln + 1) = 0
        BY <1>1, StartsOpen
      <4>3. Len(stack') - p = 0
        BY <1>6, <3>2, GroupsBefore
      <4>. QED
        BY <1>3, <4>1, <4>2, <4>3
    <3>. QED
      BY <1>6, <3>1, <3>2, GroupsBefore
  <2>3. ASSUME NEW j \in 1 .. (ln + 1) - 1, lines[j].dir = "if"
        PROVE  \E k \in 1 .. Len(groups') : Opener(groups'[k]) = j
    <3>1. CASE j = ln
      <4>1. n \in 1 .. Len(groups')
        BY <1>5, GroupsBefore
      <4>. QED
        BY <1>3, <1>5, <3>1, <4>1
    <3>2. CASE j # ln
      <4>1. j \in 1 .. ln - 1
        BY <1>1, <3>2
      <4>2. PICK k \in 1 .. Len(groups) : Opener(groups[k]) = j
        BY <2>3, <4>1, OpenersBefore
      <4>3. k \in 1 .. Len(groups')
        BY <1>5, GroupsBefore
      <4>. QED
        BY <1>5, <4>2, <4>3
    <3>. QED
      BY <3>1, <3>2
  <2> HIDE DEF n
  <2>. QED
    BY <1>5, <1>6, <2>1, <2>2, <2>3 DEF Grouped
<1>. QED
  BY <1>1, <1>7, NextGroupInv

\* The open branch of a group, and the group, when its end is set.
EndedAt(bs, n) == [bs EXCEPT ![Len(bs)].end = n - 1]

LEMMA EndedBranches ==
  ASSUME NEW bs \in Seq(Branches), Len(bs) > 0, NEW n \in Nat, n > 0
  PROVE  /\ EndedAt(bs, n) \in Seq(Branches) /\ Len(EndedAt(bs, n)) = Len(bs)
         /\ \A j \in 1 .. Len(bs) : /\ Dir(EndedAt(bs, n)[j]) = Dir(bs[j])
                                    /\ EndedAt(bs, n)[j].cond = bs[j].cond
                                    /\ EndedAt(bs, n)[j].isElse = bs[j].isElse
                                    /\ j < Len(bs) => EndedAt(bs, n)[j].end = bs[j].end
         /\ EndedAt(bs, n)[Len(bs)].end = n - 1
         /\ Opener(EndedAt(bs, n)) = Opener(bs)
<1> DEFINE cs == EndedAt(bs, n)
           l == Len(bs)
           x == [bs[l] EXCEPT !.end = n - 1]
<1>1. l \in 1 .. Len(bs) /\ bs[l] \in Branches /\ n - 1 \in Nat
  OBVIOUS
<1>2. /\ x \in Branches /\ x.start = bs[l].start /\ x.cond = bs[l].cond
      /\ x.isElse = bs[l].isElse /\ x.end = n - 1
  BY <1>1 DEF Branches
<1>3. cs = [bs EXCEPT ![l] = x]
  BY DEF EndedAt
<1> HIDE DEF cs, x, Branches
<1>4. cs \in Seq(Branches) /\ Len(cs) = Len(bs) /\ cs[l] = x
  BY <1>1, <1>2, <1>3
<1>5. \A j \in 1 .. Len(bs) : j # l => cs[j] = bs[j]
  BY <1>3
<1>6. \A j \in 1 .. Len(bs) : /\ cs[j].start = bs[j].start
                              /\ cs[j].cond = bs[j].cond
                              /\ cs[j].isElse = bs[j].isElse
                              /\ j < Len(bs) => cs[j].end = bs[j].end
  BY <1>2, <1>4, <1>5
<1>. QED
  BY <1>1, <1>2, <1>4, <1>6 DEF cs, Dir, Opener

\* An #endif ends the last branch of its conditional.
LEMMA FollowsClosed ==
  ASSUME NEW bs, NEW n \in Nat, Follows(bs, n), n \in End(Opener(bs))
  PROVE  /\ Follows(EndedAt(bs, n), n + 1) /\ Opener(EndedAt(bs, n)) = Opener(bs)
         /\ HasEnd(Opener(bs), n + 1)
<1> DEFINE i == Opener(bs)
           cs == EndedAt(bs, n)
<1>1. bs \in Seq(Branches) /\ Len(bs) > 0 /\ i \in 1 .. n - 1 /\ lines[i].dir = "if"
  BY DEF Follows
<1>2. /\ cs \in Seq(Branches) /\ Len(cs) = Len(bs)
      /\ \A j \in 1 .. Len(bs) : /\ Dir(cs[j]) = Dir(bs[j])
                                 /\ cs[j].cond = bs[j].cond
                                 /\ cs[j].isElse = bs[j].isElse
                                 /\ j < Len(bs) => cs[j].end = bs[j].end
      /\ cs[Len(bs)].end = n - 1
      /\ Opener(cs) = i
  BY <1>1, EndedBranches
<1>3. HasEnd(i, n + 1)
  BY DEF HasEnd
<1>4. n \notin Starts(i) /\ Starts(i) \subseteq Nat
  BY <1>1 DEF Starts, Alternatives, End, Ends, Elses
<1>5. \A j \in 1 .. Len(bs) :
        /\ Dir(bs[j]) \in Starts(i) /\ Dir(bs[j]) < n
        /\ bs[j].cond = lines[Dir(bs[j])].arg
        /\ bs[j].isElse <=> lines[Dir(bs[j])].dir = "else"
        /\ \A k \in 1 .. Len(bs) : j < k => Dir(bs[j]) < Dir(bs[k])
        /\ j < Len(bs) => bs[j].end = Dir(bs[j + 1]) - 1
  BY DEF Follows
<1>6. \A m \in Starts(i) : m < n => \E j \in 1 .. Len(bs) : Dir(bs[j]) = m
  BY DEF Follows
<1> HIDE DEF cs, i
<1>7. \A j \in 1 .. Len(cs) :
        /\ Dir(cs[j]) \in Starts(i) /\ Dir(cs[j]) < n + 1
        /\ cs[j].cond = lines[Dir(cs[j])].arg
        /\ cs[j].isElse <=> lines[Dir(cs[j])].dir = "else"
        /\ \A k \in 1 .. Len(cs) : j < k => Dir(cs[j]) < Dir(cs[k])
        /\ j < Len(cs) => cs[j].end = Dir(cs[j + 1]) - 1
  <2> SUFFICES ASSUME NEW j \in 1 .. Len(bs)
               PROVE  /\ Dir(cs[j]) \in Starts(i) /\ Dir(cs[j]) < n + 1
                      /\ cs[j].cond = lines[Dir(cs[j])].arg
                      /\ cs[j].isElse <=> lines[Dir(cs[j])].dir = "else"
                      /\ \A k \in 1 .. Len(bs) : j < k => Dir(cs[j]) < Dir(cs[k])
                      /\ j < Len(bs) => cs[j].end = Dir(cs[j + 1]) - 1
    BY <1>2
  <2>1. Dir(cs[j]) = Dir(bs[j]) /\ Dir(bs[j]) \in Nat
    BY <1>2, <1>4, <1>5
  <2>2. j < Len(bs) => j + 1 \in 1 .. Len(bs)
    BY <1>1
  <2>. QED
    BY <1>2, <1>5, <2>1, <2>2
<1>8. \A m \in Starts(i) : m < n + 1 => \E j \in 1 .. Len(cs) : Dir(cs[j]) = m
  BY <1>2, <1>4, <1>6
<1>9. \E e \in End(i) : e < n + 1 /\ cs[Len(cs)].end = e - 1
  BY <1>2 DEF i
<1>10. i \in 1 .. (n + 1) - 1 /\ Len(cs) > 0
  BY <1>1, <1>2
<1>11. Follows(cs, n + 1)
  BY <1>1, <1>2, <1>3, <1>7, <1>8, <1>9, <1>10 DEF Follows
<1>. QED
  BY <1>2, <1>3, <1>11 DEF cs, i

\* An alternative ends the branch before it and starts one.
LEMMA FollowsNext ==
  ASSUME NEW bs, NEW n \in 1 .. Len(lines), Len(lines) \in Nat, Follows(bs, n),
         n \in Alternatives(Opener(bs)), NEW b,
         b = [start |-> n + 1, end |-> 0, cond |-> lines[n].arg,
              isElse |-> lines[n].dir = "else"]
  PROVE  /\ Follows(Append(EndedAt(bs, n), b), n + 1)
         /\ Opener(Append(EndedAt(bs, n), b)) = Opener(bs)
         /\ ~HasEnd(Opener(bs), n + 1)
<1> DEFINE i == Opener(bs)
           cs == EndedAt(bs, n)
           ds == Append(cs, b)
           l == Len(bs)
<1>1. /\ bs \in Seq(Branches) /\ l > 0 /\ l \in Nat /\ i \in 1 .. n - 1
      /\ lines[i].dir = "if"
  BY DEF Follows
<1>2. /\ cs \in Seq(Branches) /\ Len(cs) = l
      /\ \A j \in 1 .. l : /\ Dir(cs[j]) = Dir(bs[j])
                           /\ cs[j].cond = bs[j].cond
                           /\ cs[j].isElse = bs[j].isElse
                           /\ j < l => cs[j].end = bs[j].end
      /\ cs[l].end = n - 1
      /\ Opener(cs) = i
  BY <1>1, EndedBranches
<1>3. ~HasEnd(i, n + 1)
  <2>1. ~HasEnd(i, n)
    <3>1. Within(i, n) /\ i \in Nat /\ n \in Nat
      BY <1>1 DEF Alternatives
    <3>. QED
      BY <3>1, EndStops DEF HasEnd
  <2>2. n \notin End(i)
    BY DEF Alternatives, End, Ends, Elses
  <2>3. End(i) \subseteq Int
    BY DEF End
  <2>. QED
    BY <2>1, <2>2, <2>3 DEF HasEnd
<1>4. n \in Starts(i) /\ Starts(i) \subseteq Nat
  BY <1>1 DEF Starts, Alternatives
<1>5. \A j \in 1 .. l :
        /\ Dir(bs[j]) \in Starts(i) /\ Dir(bs[j]) < n
        /\ bs[j].cond = lines[Dir(bs[j])].arg
        /\ bs[j].isElse <=> lines[Dir(bs[j])].dir = "else"
        /\ \A k \in 1 .. l : j < k => Dir(bs[j]) < Dir(bs[k])
        /\ j < l => bs[j].end = Dir(bs[j + 1]) - 1
  BY DEF Follows
<1>6. \A m \in Starts(i) : m < n => \E j \in 1 .. l : Dir(bs[j]) = m
  BY DEF Follows
<1>7. /\ b \in Branches /\ Dir(b) = n /\ b.end = 0 /\ b.cond = lines[n].arg
      /\ b.isElse <=> lines[n].dir = "else"
  <2>1. n + 1 \in Nat /\ (n + 1) - 1 = n
    OBVIOUS
  <2>. QED
    BY <2>1 DEF Branches, Dir
<1>8. /\ ds \in Seq(Branches) /\ Len(ds) = l + 1 /\ ds[l + 1] = b
      /\ \A j \in 1 .. l : ds[j] = cs[j]
  <2> HIDE DEF cs, Branches
  <2>. QED
    BY <1>1, <1>2, <1>7
<1>9. Opener(ds) = i
  BY <1>1, <1>2, <1>8 DEF Opener
<1> HIDE DEF ds, cs, i, l
<1>10. ASSUME NEW j \in 1 .. Len(ds)
       PROVE  /\ Dir(ds[j]) \in Starts(i) /\ Dir(ds[j]) < n + 1
              /\ ds[j].cond = lines[Dir(ds[j])].arg
              /\ ds[j].isElse <=> lines[Dir(ds[j])].dir = "else"
              /\ \A k \in 1 .. Len(ds) : j < k => Dir(ds[j]) < Dir(ds[k])
              /\ j < Len(ds) => ds[j].end = Dir(ds[j + 1]) - 1
  <2>1. CASE j \in 1 .. l
    <3>1. ds[j] = cs[j] /\ Dir(ds[j]) = Dir(bs[j]) /\ Dir(bs[j]) \in Nat
      BY <1>2, <1>4, <1>5, <1>8, <2>1
    <3>2. ASSUME NEW k \in 1 .. Len(ds), j < k
          PROVE  Dir(ds[j]) < Dir(ds[k])
      <4>1. CASE k \in 1 .. l
        BY <1>2, <1>5, <1>8, <2>1, <3>1, <3>2, <4>1
      <4>2. CASE k = l + 1
        BY <1>5, <1>7, <1>8, <2>1, <3>1, <4>2
      <4>. QED
        BY <1>1, <1>8, <4>1, <4>2 DEF l
    <3>3. ds[j].end = Dir(ds[j + 1]) - 1
      <4>1. CASE j < l
        <5>1. j + 1 \in 1 .. l
          BY <1>1, <2>1, <4>1 DEF l
        <5>. QED
          BY <1>2, <1>5, <1>8, <2>1, <3>1, <4>1, <5>1
      <4>2. CASE j = l
        BY <1>2, <1>7, <1>8, <3>1, <4>2
      <4>. QED
        BY <1>1, <2>1, <4>1, <4>2 DEF l
    <3>. QED
      BY <1>2, <1>5, <2>1, <3>1, <3>2, <3>3
  <2>2. CASE j = l + 1
    <3>1. \A k \in 1 .. Len(ds) : ~(j < k)
      BY <1>1, <1>8, <2>2 DEF l
    <3>. QED
      BY <1>1, <1>4, <1>7, <1>8, <2>2, <3>1
  <2>. QED
    BY <1>1, <1>8, <2>1, <2>2 DEF l
<1>11. ASSUME NEW m \in Starts(i), m < n + 1
       PROVE  \E j \in 1 .. Len(ds) : Dir(ds[j]) = m
  <2>1. CASE m < n
    <3>1. PICK j \in 1 .. l : Dir(bs[j]) = m
      BY <1>6, <2>1
    <3>2. j \in 1 .. Len(ds)
      BY <1>1, <1>8 DEF l
    <3>. QED
      BY <1>2, <1>8, <3>1, <3>2
  <2>2. CASE m = n
    <3>1. l + 1 \in 1 .. Len(ds)
      BY <1>1, <1>8 DEF l
    <3>. QED
      BY <1>7, <1>8, <2>2, <3>1
  <2>. QED
    BY <1>4, <1>11, <2>1, <2>2
<1>12. i \in 1 .. (n + 1) - 1 /\ Len(ds) > 0 /\ ds[Len(ds)].end = 0
  BY <1>1, <1>7, <1>8 DEF i, l
<1>13. lines[i].dir = "if"
  BY <1>1 DEF i
<1>14. Follows(ds, n + 1)
  BY <1>3, <1>8, <1>9, <1>10, <1>11, <1>12, <1>13 DEF Follows
<1>. QED
  BY <1>3, <1>9, <1>14 DEF i, cs, ds

\* The innermost open conditional.
LEMMA TopGroup ==
  ASSUME GroupInv, stack # << >>
  PROVE  /\ Len(stack) \in 1 .. Len(stack) /\ Top \in 1 .. Len(groups)
         /\ Within(Opener(groups[Top]), ln) /\ Deeper(Opener(groups[Top]), ln) = 0
<1>1. Len(stack) \in 1 .. Len(stack)
  BY GroupsBefore
<1>2. /\ Within(Opener(groups[stack[Len(stack)]]), ln)
      /\ Deeper(Opener(groups[stack[Len(stack)]]), ln) = Len(stack) - Len(stack)
  BY <1>1 DEF GroupInv, Grouped
<1>. QED
  BY <1>1, <1>2, GroupsBefore DEF Top

\* A sequence with another element in one place.
LEMMA PutInSeq ==
  ASSUME NEW S, NEW q \in Seq(S), NEW t \in 1 .. Len(q), NEW x \in S
  PROVE  /\ [q EXCEPT ![t] = x] \in Seq(S) /\ Len([q EXCEPT ![t] = x]) = Len(q)
         /\ [q EXCEPT ![t] = x][t] = x
         /\ \A k \in 1 .. Len(q) : k # t => [q EXCEPT ![t] = x][k] = q[k]
  OBVIOUS

\* Groups of the same conditionals as the present ones, after the line.
SameOpeners(gs) ==
  /\ gs \in Seq(Seq(Branches)) /\ Len(gs) = Len(groups)
  /\ \A k \in 1 .. Len(gs) : Opener(gs[k]) = Opener(groups[k]) /\ Follows(gs[k], ln + 1)
  /\ \A j \in 1 .. (ln + 1) - 1 :
       lines[j].dir = "if" => \E k \in 1 .. Len(gs) : Opener(gs[k]) = j

\* A line that ends a branch of the innermost conditional, and may start one.
LEMMA ChangedTop ==
  ASSUME GroupInv, ln \in 1 .. Len(lines), stack # << >>, lines[ln].dir # "if",
         NEW cs, Follows(cs, ln + 1), Opener(cs) = Opener(groups[Top]),
         NEW gs, gs = [groups EXCEPT ![Top] = cs]
  PROVE  SameOpeners(gs)
<1>1. cs \in Seq(Branches)
  BY DEF Follows
<1>2. Top \in 1 .. Len(groups) /\ groups \in Seq(Seq(Branches))
  BY TopGroup, GroupsBefore
<1> DEFINE S == Seq(Branches)
           t == Top
<1>3. /\ gs \in Seq(S) /\ Len(gs) = Len(groups) /\ gs[t] = cs
      /\ \A k \in 1 .. Len(gs) : k # t => gs[k] = groups[k]
  BY <1>1, <1>2, PutInSeq
<1>4. \A k \in 1 .. Len(gs) : Opener(gs[k]) = Opener(groups[k]) /\ Follows(gs[k], ln + 1)
  BY <1>3, OtherGroup
<1>5. ASSUME NEW j \in 1 .. (ln + 1) - 1, lines[j].dir = "if"
      PROVE  \E k \in 1 .. Len(gs) : Opener(gs[k]) = j
  <2>1. j \in 1 .. ln - 1
    BY <1>5
  <2>. QED
    BY <1>3, <1>4, <1>5, <2>1, OpenersBefore
<1>. QED
  BY <1>3, <1>4, <1>5 DEF SameOpeners

\* What ends the branch changes the innermost group only.
LEMMA EndedGroups ==
  ASSUME GroupInv, stack # << >>
  PROVE  /\ Ended = [groups EXCEPT ![Top] = EndedAt(groups[Top], ln)]
         /\ \A b : [Ended EXCEPT ![Top] = Append(@, b)]
                     = [groups EXCEPT ![Top] = Append(EndedAt(groups[Top], ln), b)]
<1> DEFINE t == Top
           cs == EndedAt(groups[t], ln)
<1>1. Ended = [groups EXCEPT ![t] = cs]
  BY DEF Ended, EndedAt
<1>2. t \in 1 .. Len(groups) /\ groups \in Seq(Seq(Branches))
  BY TopGroup, GroupsBefore
<1>3. t \in DOMAIN groups
  <2> HIDE DEF t
  <2>. QED
    BY <1>2
<1>4. ASSUME NEW b
      PROVE  [Ended EXCEPT ![t] = Append(@, b)] = [groups EXCEPT ![t] = Append(cs, b)]
  <2> HIDE DEF t, cs
  <2>. QED
    BY <1>1, <1>3
<1>. QED
  BY <1>1, <1>4

LEMMA NextBranchStep == GroupInv /\ tool = "alternate" /\ NextBranch => GroupInv'
<1> SUFFICES ASSUME GroupInv, tool = "alternate", NextBranch PROVE GroupInv'
  OBVIOUS
<1> DEFINE b == Branch(lines[ln].arg, lines[ln].dir = "else")
           i == Opener(groups[Top])
           ds == Append(EndedAt(groups[Top], ln), b)
<1>1. /\ ln \in 1 .. Len(lines) /\ lines' = lines /\ ln' = ln + 1 /\ hidden' = hidden
      /\ stack' = stack /\ g' = g /\ stack # << >> /\ lines[ln].dir \in Elses
      /\ groups' = [Ended EXCEPT ![Top] = Append(@, b)]
  BY GroupsBefore DEF NextBranch, Reads, Line, source
<1>2. ~Opens(ln) /\ ~Ends(ln) /\ lines[ln].dir # "if"
  BY <1>1 DEF Opens, Ends, Ifs, Elses
<1>3. groups' = [groups EXCEPT ![Top] = ds]
  BY <1>1, EndedGroups
<1>4. ln \in Alternatives(i) /\ Follows(groups[Top], ln)
  <2>1. i \in 1 .. ln - 1 /\ Follows(groups[Top], ln)
    BY <1>1, TopGroup, GroupsBefore
  <2>2. ln \in i + 1 .. Len(lines)
    BY <1>1, <2>1, GroupsBefore
  <2>. QED
    BY <1>1, <2>1, <2>2, TopGroup DEF Alternatives
<1>5. Follows(ds, ln + 1) /\ Opener(ds) = i
  BY <1>1, <1>4, FollowsNext, GroupsBefore DEF Branch
<1> HIDE DEF ds, i, b
<1>6. /\ groups' \in Seq(Seq(Branches)) /\ Len(groups') = Len(groups)
      /\ \A k \in 1 .. Len(groups') : /\ Opener(groups'[k]) = Opener(groups[k])
                                      /\ Follows(groups'[k], ln + 1)
      /\ \A j \in 1 .. (ln + 1) - 1 :
           lines[j].dir = "if" => \E k \in 1 .. Len(groups') : Opener(groups'[k]) = j
  <2>1. Opener(ds) = Opener(groups[Top])
    BY <1>5 DEF i
  <2>2. SameOpeners(groups')
    BY <1>1, <1>2, <1>3, <1>5, <2>1, ChangedTop
  <2>. QED
    BY <2>2 DEF SameOpeners
<1>7. ASSUME NEW k \in 1 .. Len(groups)
      PROVE  HasEnd(Opener(groups'[k]), ln + 1) \/ \E p \in 1 .. Len(stack) : stack[p] = k
  <2>1. HasEnd(Opener(groups[k]), ln) \/ \E p \in 1 .. Len(stack) : stack[p] = k
    BY DEF GroupInv, Grouped
  <2>. QED
    BY <1>6, <2>1, EndedOn, GroupsBefore
<1>8. ASSUME NEW p \in 1 .. Len(stack)
      PROVE  /\ Within(Opener(groups'[stack[p]]), ln + 1)
             /\ Deeper(Opener(groups'[stack[p]]), ln + 1) = Len(stack) - p
  <2>1. Opener(groups'[stack[p]]) = Opener(groups[stack[p]])
    BY <1>6, GroupsBefore
  <2>2. /\ Within(Opener(groups[stack[p]]), ln + 1)
        /\ Deeper(Opener(groups[stack[p]]), ln + 1)
             = Len(stack) - p + (IF Opens(ln) THEN 1 ELSE 0) - (IF Ends(ln) THEN 1 ELSE 0)
    BY <1>1, <1>2, StackOn
  <2>. QED
    BY <1>2, <2>1, <2>2, GroupsBefore
<1>9. Grouped(groups', stack', ln + 1)
  BY <1>1, <1>6, <1>7, <1>8, GroupsBefore DEF Grouped
<1>. QED
  BY <1>1, <1>9, NextGroupInv

\* Without its last element the stack has its other elements.
LEMMA PoppedGroups ==
  ASSUME GroupInv, stack # << >>
  PROVE  /\ Popped \in Seq(1 .. Len(groups)) /\ Len(Popped) = Len(stack) - 1
         /\ \A p \in 1 .. Len(stack) - 1 : Popped[p] = stack[p]
<1> DEFINE n == Len(stack) - 1
           S == 1 .. Len(groups)
<1>1. n \in Nat /\ n <= Len(stack) /\ stack \in Seq(S)
  BY GroupsBefore
<1>2. Popped = SubSeq(stack, 1, n)
  BY DEF Popped
<1> HIDE DEF n, S
<1>3. SubSeq(stack, 1, n) \in Seq(S)
  BY <1>1
<1>4. Len(SubSeq(stack, 1, n)) = n
  BY <1>1
<1>5. \A p \in 1 .. n : SubSeq(stack, 1, n)[p] = stack[p]
  BY <1>1
<1>. QED
  BY <1>2, <1>3, <1>4, <1>5 DEF n, S

LEMMA CloseGroupStep == GroupInv /\ tool = "alternate" /\ CloseGroup => GroupInv'
<1> SUFFICES ASSUME GroupInv, tool = "alternate", CloseGroup PROVE GroupInv'
  OBVIOUS
<1> DEFINE i == Opener(groups[Top])
           cs == EndedAt(groups[Top], ln)
<1>1. /\ ln \in 1 .. Len(lines) /\ lines' = lines /\ ln' = ln + 1 /\ hidden' = hidden
      /\ stack' = Popped /\ g' = g /\ stack # << >> /\ lines[ln].dir = "endif"
      /\ groups' = Ended
  BY GroupsBefore DEF CloseGroup, Reads, Line, source
<1>2. ~Opens(ln) /\ Ends(ln) /\ lines[ln].dir # "if"
  BY <1>1 DEF Opens, Ends, Ifs
<1>3. groups' = [groups EXCEPT ![Top] = cs]
  BY <1>1, EndedGroups
<1>4. ln \in End(i) /\ Follows(groups[Top], ln)
  <2>1. i \in 1 .. ln - 1 /\ Follows(groups[Top], ln)
    BY <1>1, TopGroup, GroupsBefore
  <2>2. ln \in i + 1 .. Len(lines)
    BY <1>1, <2>1, GroupsBefore
  <2>. QED
    BY <1>1, <1>2, <2>1, <2>2, TopGroup DEF End
<1>5. Follows(cs, ln + 1) /\ Opener(cs) = i /\ HasEnd(i, ln + 1)
  BY <1>1, <1>4, FollowsClosed, GroupsBefore
<1> HIDE DEF cs, i
<1>6. /\ groups' \in Seq(Seq(Branches)) /\ Len(groups') = Len(groups)
      /\ \A k \in 1 .. Len(groups') : /\ Opener(groups'[k]) = Opener(groups[k])
                                      /\ Follows(groups'[k], ln + 1)
      /\ \A j \in 1 .. (ln + 1) - 1 :
           lines[j].dir = "if" => \E k \in 1 .. Len(groups') : Opener(groups'[k]) = j
  <2>1. Opener(cs) = Opener(groups[Top])
    BY <1>5 DEF i
  <2>2. SameOpeners(groups')
    BY <1>1, <1>2, <1>3, <1>5, <2>1, ChangedTop
  <2>. QED
    BY <2>2 DEF SameOpeners
<1>7. /\ stack' \in Seq(1 .. Len(groups)) /\ Len(stack') = Len(stack) - 1
      /\ \A p \in 1 .. Len(stack) - 1 : stack'[p] = stack[p]
  BY <1>1, PoppedGroups
<1>8. ASSUME NEW k \in 1 .. Len(groups)
      PROVE  HasEnd(Opener(groups'[k]), ln + 1) \/ \E p \in 1 .. Len(stack') : stack'[p] = k
  <2>1. CASE HasEnd(Opener(groups[k]), ln)
    BY <1>6, <2>1, EndedOn, GroupsBefore
  <2>2. ASSUME NEW p \in 1 .. Len(stack), stack[p] = k
        PROVE  HasEnd(Opener(groups'[k]), ln + 1) \/ \E q \in 1 .. Len(stack') : stack'[q] = k
    <3>1. CASE p = Len(stack)
      <4>1. k = Top
        BY <2>2, <3>1 DEF Top
      <4>. QED
        BY <1>5, <1>6, <4>1 DEF i
    <3>2. CASE p # Len(stack)
      <4>1. p \in 1 .. Len(stack) - 1
        BY <3>2, GroupsBefore
      <4>. QED
        BY <1>7, <2>2, <4>1
    <3>. QED
      BY <3>1, <3>2
  <2>3. HasEnd(Opener(groups[k]), ln) \/ \E p \in 1 .. Len(stack) : stack[p] = k
    BY DEF GroupInv, Grouped
  <2>. QED
    BY <2>1, <2>2, <2>3
<1>9. ASSUME NEW p \in 1 .. Len(stack')
      PROVE  /\ Within(Opener(groups'[stack'[p]]), ln + 1)
             /\ Deeper(Opener(groups'[stack'[p]]), ln + 1) = Len(stack') - p
  <2>1. p \in 1 .. Len(stack) /\ p < Len(stack) /\ stack'[p] = stack[p]
    <3>1. p \in 1 .. Len(stack) - 1 /\ Len(stack) \in Nat
      BY <1>7, GroupsBefore
    <3>. QED
      BY <1>7, <3>1
  <2>2. Opener(groups'[stack'[p]]) = Opener(groups[stack[p]])
    BY <1>6, <2>1, GroupsBefore
  <2>3. /\ Within(Opener(groups[stack[p]]), ln + 1)
        /\ Deeper(Opener(groups[stack[p]]), ln + 1)
             = Len(stack) - p + (IF Opens(ln) THEN 1 ELSE 0) - (IF Ends(ln) THEN 1 ELSE 0)
    BY <1>1, <2>1, StackOn
  <2>. QED
    BY <1>2, <1>7, <2>1, <2>2, <2>3, GroupsBefore
<1>10. Grouped(groups', stack', ln + 1)
  BY <1>6, <1>7, <1>8, <1>9, GroupsBefore DEF Grouped
<1>. QED
  BY <1>1, <1>10, NextGroupInv

LEMMA SameLost ==
  ASSUME groups' = groups
  PROVE  \A k : Lost(groups[k])' = Lost(groups[k])
  BY DEF Lost, Decidable, Settling, Inside

LEMMA DecideStep == GroupInv /\ tool = "alternate" /\ Decide => GroupInv'
<1> SUFFICES ASSUME GroupInv, tool = "alternate", Decide PROVE GroupInv'
  OBVIOUS
<1>1. /\ ln' = ln /\ lines' = lines /\ stack' = stack /\ groups' = groups
      /\ ln > Len(lines) /\ g <= Len(groups) /\ g' = g + 1
      /\ hidden' = hidden \cup Lost(groups[g])
  BY DEF Decide, source, Lost
<1>2. /\ Len(lines) \in Nat /\ ln \in 1 .. Len(lines) + 1 /\ CSharpLines(lines)
      /\ Grouped(groups, stack, ln) /\ g \in 1 .. Len(groups) + 1
      /\ hidden = UNION {Lost(groups[k]) : k \in 1 .. g - 1}
  BY DEF GroupInv
<1>3. CSharpLines(lines)' /\ Grouped(groups, stack, ln)'
  BY <1>1, <1>2, SameGroups, Zenon
<1>4. hidden' = UNION {Lost(groups[k])' : k \in 1 .. g' - 1}
  <2>1. 1 .. g' - 1 = (1 .. g - 1) \cup {g}
    BY <1>1, <1>2, GroupsBefore
  <2>2. {Lost(groups[k])' : k \in 1 .. g' - 1}
          = {Lost(groups[k]) : k \in (1 .. g - 1) \cup {g}}
    BY <1>1, <2>1, SameLost
  <2>. QED
    BY <1>1, <1>2, <2>2
<1>5. /\ Len(lines)' \in Nat /\ ln' \in 1 .. Len(lines)' + 1
      /\ g' \in 1 .. Len(groups)' + 1 /\ ~(ln' <= Len(lines)')
  BY <1>1, <1>2, GroupsBefore
<1>. QED
  BY <1>3, <1>4, <1>5 DEF GroupInv

LEMMA GroupStutter == GroupInv /\ UNCHANGED vars => GroupInv'
<1> SUFFICES ASSUME GroupInv, UNCHANGED vars PROVE GroupInv'
  OBVIOUS
<1>1. /\ lines' = lines /\ ln' = ln /\ stack' = stack /\ hidden' = hidden
      /\ groups' = groups /\ g' = g
  BY DEF vars, source
<1>2. CSharpLines(lines)' /\ Grouped(groups, stack, ln)'
  BY <1>1, SameGroups, Zenon DEF GroupInv
<1>3. hidden' = UNION {Lost(groups[k])' : k \in 1 .. g' - 1}
  BY <1>1, SameLost DEF GroupInv
<1>4. /\ Len(lines)' \in Nat /\ ln' \in 1 .. Len(lines)' + 1
      /\ g' \in 1 .. Len(groups)' + 1 /\ (ln' <= Len(lines)' => g' = 1)
  BY <1>1 DEF GroupInv
<1>. QED
  BY <1>2, <1>3, <1>4 DEF GroupInv

\* The "alternate" pass keeps its invariant, and no other pass runs beside it.
THEOREM AlternateInductive ==
  ASSUME \A s \in Sources : s.tool = "alternate" => CSharpLines(s.lines)
  PROVE  Spec => []AlternateInv
<1>1. AlternateInv /\ [Next]_vars => AlternateInv'
  <2> SUFFICES ASSUME AlternateInv, [Next]_vars, tool' = "alternate"
               PROVE  IF Mentioned' THEN GroupInv' ELSE hidden' = {} /\ groups' = << >>
    BY DEF AlternateInv
  <2>1. tool' = tool /\ lines' = lines
    BY DEF Next, Inactive, CPPOnly, Alternate, vars, source, LiveLine, DisabledEnd,
           DisabledLine, OpenGuard, TurnGuard, CloseGuard, GuardedLine, ReturnNil,
           OpenGroup, NextBranch, CloseGroup, OutsideGroups, Decide
  <2>2. /\ tool = "alternate" /\ Mentioned' = Mentioned
        /\ Mentioned => GroupInv
        /\ ~Mentioned => hidden = {} /\ groups = << >>
    BY <2>1 DEF AlternateInv, Mentioned
  <2>3. CASE Alternate
    <3>1. CASE ReturnNil
      BY <2>2, <3>1 DEF ReturnNil
    <3>. QED
      BY <2>2, <2>3, <3>1, OpenGroupStep, NextBranchStep, CloseGroupStep,
         OutsideGroupsStep, DecideStep DEF Alternate
  <2>4. ~Inactive /\ ~CPPOnly
    BY <2>2 DEF Inactive, CPPOnly, Reads, LiveLine, DisabledEnd, DisabledLine,
           OpenGuard, TurnGuard, CloseGuard, GuardedLine
  <2>5. CASE UNCHANGED vars
    BY <2>2, <2>5, GroupStutter DEF vars
  <2>. QED
    BY <2>3, <2>4, <2>5 DEF Next
<1>2. Init => AlternateInv
  BY InitAlternate
<1>. QED
  BY <1>1, <1>2, PTL DEF Spec

\* What is known of a group when the whole source is read.
WholeGroup(bs) ==
  /\ Len(lines) \in Nat /\ CSharpLines(lines) /\ Follows(bs, Len(lines) + 1)

LEMMA WholeGroupFacts ==
  ASSUME NEW bs, WholeGroup(bs)
  PROVE  /\ Len(bs) \in Nat /\ Len(bs) > 0
         /\ Opener(bs) \in 1 .. Len(lines) /\ Dir(bs[1]) = Opener(bs)
         /\ \A j \in 1 .. Len(bs) :
              /\ Dir(bs[j]) \in Starts(Opener(bs)) /\ Dir(bs[j]) \in 1 .. Len(lines)
              /\ bs[j].isElse <=> lines[Dir(bs[j])].dir = "else"
              /\ bs[j].isElse \/ EvalCondition(bs[j].cond) = Truth(lines[Dir(bs[j])].arg)
              /\ bs[j].start = Dir(bs[j]) + 1
              /\ \A k \in 1 .. Len(bs) : j < k <=> Dir(bs[j]) < Dir(bs[k])
              /\ j < Len(bs) => bs[j].end = Dir(bs[j + 1]) - 1
         /\ \A m \in Starts(Opener(bs)) : \E j \in 1 .. Len(bs) : Dir(bs[j]) = m
<1> DEFINE i == Opener(bs)
           N == Len(lines)
<1>1. /\ N \in Nat /\ CSharpLines(lines) /\ bs \in Seq(Branches) /\ Len(bs) > 0
      /\ i \in 1 .. (N + 1) - 1 /\ lines[i].dir = "if"
  BY DEF WholeGroup, Follows
<1>2. Len(bs) \in Nat /\ i \in 1 .. N /\ Dir(bs[1]) = i
  BY <1>1 DEF Opener
<1>3. \A j \in 1 .. Len(bs) :
        /\ Dir(bs[j]) \in Starts(i) /\ Dir(bs[j]) < N + 1
        /\ bs[j].cond = lines[Dir(bs[j])].arg
        /\ bs[j].isElse <=> lines[Dir(bs[j])].dir = "else"
        /\ \A k \in 1 .. Len(bs) : j < k => Dir(bs[j]) < Dir(bs[k])
        /\ j < Len(bs) => bs[j].end = Dir(bs[j + 1]) - 1
  BY DEF WholeGroup, Follows
<1>4. \A m \in Starts(i) : m < N + 1 => \E j \in 1 .. Len(bs) : Dir(bs[j]) = m
  BY DEF WholeGroup, Follows
<1>5. \A j \in 1 .. Len(bs) : bs[j].start \in Nat
  <2>1. \A j \in 1 .. Len(bs) : bs[j] \in Branches
    BY <1>1
  <2>. QED
    BY <2>1 DEF Branches
<1> HIDE DEF i, N
<1>6. \A m \in Starts(i) : /\ m \in 1 .. N /\ m < N + 1
                           /\ lines[m].dir \in Elses \cup {"if"}
  BY <1>1, <1>2 DEF Starts, Alternatives, N, i
<1>7. ASSUME NEW j \in 1 .. Len(bs)
      PROVE  /\ bs[j].isElse \/ EvalCondition(bs[j].cond) = Truth(lines[Dir(bs[j])].arg)
             /\ bs[j].start = Dir(bs[j]) + 1
             /\ \A k \in 1 .. Len(bs) : j < k <=> Dir(bs[j]) < Dir(bs[k])
  <2>1. Dir(bs[j]) \in 1 .. N /\ lines[Dir(bs[j])].dir \in {"if", "elif", "else"}
    BY <1>3, <1>6 DEF Elses
  <2>2. bs[j].isElse \/ EvalCondition(bs[j].cond) = Truth(lines[Dir(bs[j])].arg)
    BY <1>1, <1>3, <2>1 DEF CSharpLines, N
  <2>3. bs[j].start = Dir(bs[j]) + 1
    BY <1>5 DEF Dir
  <2>4. ASSUME NEW k \in 1 .. Len(bs)
        PROVE  j < k <=> Dir(bs[j]) < Dir(bs[k])
    <3>1. /\ Dir(bs[j]) \in Int /\ Dir(bs[k]) \in Int /\ j \in Int /\ k \in Int
          /\ j < k => Dir(bs[j]) < Dir(bs[k])
          /\ k < j => Dir(bs[k]) < Dir(bs[j])
      BY <1>3, <1>5 DEF Dir
    <3>. QED
      BY <3>1
  <2>. QED
    BY <2>2, <2>3, <2>4
<1>. QED
  BY <1>1, <1>2, <1>3, <1>4, <1>6, <1>7 DEF i, N

\* The conditional has the ends the group has, and its last line is before them.
LEMMA WholeGroupEnds ==
  ASSUME NEW bs, WholeGroup(bs)
  PROVE  /\ bs[Len(bs)].end # 0 <=> End(Opener(bs)) # {}
         /\ \A e \in End(Opener(bs)) :
              /\ e \in Nat /\ bs[Len(bs)].end = e - 1
              /\ \A m \in Starts(Opener(bs)) : m < e
<1> DEFINE i == Opener(bs)
           last == bs[Len(bs)].end
<1>1. /\ Len(lines) \in Nat /\ i \in 1 .. Len(lines)
      /\ IF HasEnd(i, Len(lines) + 1)
         THEN \E e \in End(i) : e < Len(lines) + 1 /\ last = e - 1
         ELSE last = 0
  BY WholeGroupFacts DEF WholeGroup, Follows
<1> HIDE DEF i, last
<1>2. \A e \in End(i) : /\ e \in i + 1 .. Len(lines) /\ Ends(e) /\ Within(i, e)
                        /\ e < Len(lines) + 1 /\ e \in Nat
  BY <1>1 DEF End
<1>3. HasEnd(i, Len(lines) + 1) <=> End(i) # {}
  BY <1>2 DEF HasEnd
<1>4. \A e \in End(i) : e - 1 # 0
  BY <1>1, <1>2
<1>5. \A e, x \in End(i) : e = x
  <2>1. \A e, x \in End(i) : ~(e < x)
    BY <1>1, <1>2, EndStops
  <2>. QED
    BY <1>2, <2>1
<1>6. ASSUME NEW e \in End(i), NEW m \in Starts(i)
      PROVE  m < e
  <2>1. CASE m = i
    BY <1>1, <1>2, <2>1
  <2>2. CASE m \in Alternatives(i)
    <3>1. m \in Nat /\ lines[m].dir \in Elses /\ Within(i, m)
      BY <1>1, <2>2 DEF Alternatives
    <3>2. ~(e < m)
      BY <1>1, <1>2, <3>1, EndStops
    <3>3. e # m
      BY <1>2, <3>1 DEF Ends, Elses
    <3>. QED
      BY <1>2, <3>1, <3>2, <3>3
  <2>. QED
    BY <2>1, <2>2 DEF Starts
<1>7. \A e \in End(i) : last = e - 1
  BY <1>1, <1>3, <1>5
<1>8. last # 0 <=> End(i) # {}
  BY <1>1, <1>3, <1>4, <1>7
<1>. QED
  BY <1>2, <1>6, <1>7, <1>8 DEF i, last

\* The lines of a branch of the group are those of the conditional's branch.
LEMMA InsideIsInBranch ==
  ASSUME NEW bs, WholeGroup(bs), End(Opener(bs)) # {}, NEW j \in 1 .. Len(bs), NEW l \in Nat
  PROVE  l \in Inside(bs[j]) <=> InBranch(Opener(bs), Dir(bs[j]), l)
<1> DEFINE i == Opener(bs)
           m == Dir(bs[j])
           next == IF j < Len(bs) THEN Dir(bs[j + 1]) ELSE bs[Len(bs)].end + 1
<1>1. /\ Len(bs) \in Nat /\ i \in Nat /\ Dir(bs[1]) = i
      /\ \A k \in 1 .. Len(bs) : Dir(bs[k]) \in Starts(i) /\ Dir(bs[k]) \in Nat
      /\ \A k, q \in 1 .. Len(bs) : k < q <=> Dir(bs[k]) < Dir(bs[q])
      /\ m \in Nat /\ bs[j].start = m + 1
      /\ \A k \in Starts(i) : \E q \in 1 .. Len(bs) : Dir(bs[q]) = k
      /\ j < Len(bs) => bs[j].end = Dir(bs[j + 1]) - 1
  BY WholeGroupFacts
<1>2. PICK e \in End(i) : e \in Nat /\ bs[Len(bs)].end = e - 1
  BY WholeGroupEnds
<1>3. \A x \in End(i) : x = e /\ \A k \in Starts(i) : k < x
  BY <1>2, WholeGroupEnds
<1>4. /\ next \in Nat /\ bs[j].end = next - 1
      /\ next \in Alternatives(i) \cup End(i)
  <2>1. CASE j < Len(bs)
    <3>1. j + 1 \in 1 .. Len(bs) /\ 1 \in 1 .. Len(bs) /\ 1 < j + 1
      BY <1>1, <2>1
    <3>2. Dir(bs[j + 1]) \in Starts(i) /\ Dir(bs[j + 1]) # i /\ Dir(bs[j + 1]) \in Nat
      BY <1>1, <3>1
    <3>. QED
      BY <1>1, <2>1, <3>2 DEF Starts
  <2>2. CASE j = Len(bs)
    BY <1>1, <1>2, <2>2
  <2>. QED
    BY <1>1, <2>1, <2>2
<1>5. ASSUME NEW a \in Alternatives(i) \cup End(i)
      PROVE  a \in Nat /\ (a <= m \/ next <= a)
  <2>1. CASE a \in End(i)
    <3>1. a = e /\ \A k \in Starts(i) : k < a
      BY <1>3, <2>1
    <3>2. CASE j < Len(bs)
      <4>1. j + 1 \in 1 .. Len(bs)
        BY <1>1, <3>2
      <4>. QED
        BY <1>1, <1>2, <3>1, <3>2, <4>1
    <3>3. CASE ~(j < Len(bs))
      BY <1>2, <3>1, <3>3
    <3>. QED
      BY <3>2, <3>3
  <2>2. CASE a \in Alternatives(i)
    <3>1. PICK q \in 1 .. Len(bs) : Dir(bs[q]) = a
      BY <1>1, <2>2 DEF Starts
    <3>2. CASE q <= j
      <4>1. ~(m < a)
        BY <1>1, <3>1, <3>2
      <4>. QED
        BY <1>1, <3>1, <4>1
    <3>3. CASE q > j
      <4>1. j < Len(bs) /\ j + 1 \in 1 .. Len(bs) /\ ~(q < j + 1)
        BY <1>1, <3>3
      <4>2. ~(a < Dir(bs[j + 1]))
        BY <1>1, <3>1, <4>1
      <4>. QED
        BY <1>1, <3>1, <4>1, <4>2
    <3>. QED
      BY <3>2, <3>3
  <2>. QED
    BY <2>1, <2>2
<1> HIDE DEF next
<1>6. m < next
  <2>1. CASE j < Len(bs)
    <3>1. j + 1 \in 1 .. Len(bs)
      BY <1>1, <2>1
    <3>. QED
      BY <1>1, <2>1, <3>1 DEF next
  <2>2. CASE ~(j < Len(bs))
    BY <1>1, <1>2, <1>3, <2>2 DEF next
  <2>. QED
    BY <2>1, <2>2
<1> HIDE DEF m, i
<1>7. l \in Inside(bs[j]) <=> m < l /\ l < next
  BY <1>1, <1>4 DEF Inside
<1>8. InBranch(i, m, l) <=> m < l /\ l < next
  BY <1>1, <1>4, <1>5, <1>6 DEF InBranch
<1>. QED
  BY <1>7, <1>8 DEF m, i

\* The branches of the group in the words of the conditional.
LEMMA SettlingTakes ==
  ASSUME NEW bs, WholeGroup(bs), NEW j \in 1 .. Len(bs)
  PROVE  /\ Takes(Opener(bs), Dir(bs[j]))
              <=> /\ j \in Settling(bs)
                  /\ bs[j].isElse \/ EvalCondition(bs[j].cond) # "unreadable"
         /\ \A k \in Settling(bs) : j \in Settling(bs) => j = k
<1> DEFINE i == Opener(bs)
           False(k) == ~bs[k].isElse /\ EvalCondition(bs[k].cond) = "false"
           Refused(m) == lines[m].dir # "else" /\ Truth(lines[m].arg) = "false"
<1>1. /\ Len(bs) \in Nat
      /\ \A k \in 1 .. Len(bs) :
           /\ Dir(bs[k]) \in Starts(i) /\ Dir(bs[k]) \in Nat
           /\ bs[k].isElse <=> lines[Dir(bs[k])].dir = "else"
           /\ bs[k].isElse \/ EvalCondition(bs[k].cond) = Truth(lines[Dir(bs[k])].arg)
           /\ \A q \in 1 .. Len(bs) : k < q <=> Dir(bs[k]) < Dir(bs[q])
      /\ \A m \in Starts(i) : \E k \in 1 .. Len(bs) : Dir(bs[k]) = m
  BY WholeGroupFacts
<1>2. EvalCondition(bs[j].cond) \in {"true", "false", "unreadable"}
  BY DEF EvalCondition
<1>3. \A k \in 1 .. Len(bs) : False(k) <=> Refused(Dir(bs[k]))
  BY <1>1
<1>4. Settling(bs) = {k \in 1 .. Len(bs) : ~False(k) /\ \A q \in 1 .. k - 1 : False(q)}
  BY DEF Settling
<1>5. Takes(i, Dir(bs[j])) <=> /\ \/ lines[Dir(bs[j])].dir = "else"
                                  \/ Truth(lines[Dir(bs[j])].arg) = "true"
                               /\ \A m \in Starts(i) : m < Dir(bs[j]) => Refused(m)
  BY DEF Takes
<1> HIDE DEF i
<1>6. (\A m \in Starts(i) : m < Dir(bs[j]) => Refused(m)) <=> \A q \in 1 .. j - 1 : False(q)
  <2> HIDE DEF False, Refused
  <2>1. \A q \in 1 .. Len(bs) : q \in 1 .. j - 1 <=> Dir(bs[q]) < Dir(bs[j])
    BY <1>1
  <2>2. \A q \in 1 .. j - 1 : q \in 1 .. Len(bs)
    BY <1>1
  <2>. QED
    BY <1>1, <1>3, <2>1, <2>2
<1>7. /\ lines[Dir(bs[j])].dir = "else" \/ Truth(lines[Dir(bs[j])].arg) = "true"
      <=> /\ ~False(j)
          /\ bs[j].isElse \/ EvalCondition(bs[j].cond) # "unreadable"
  BY <1>1, <1>2
<1>8. \A k \in Settling(bs) : j \in Settling(bs) => j = k
  <2> HIDE DEF False
  <2>. QED
    BY <1>4
<1> HIDE DEF False
<1>. QED
  BY <1>4, <1>5, <1>6, <1>7, <1>8 DEF i

\* A group is decided when the compiler can read its conditional.
LEMMA DecidableIsReadable ==
  ASSUME NEW bs, WholeGroup(bs)
  PROVE  Decidable(bs) <=> Readable(Opener(bs))
<1> DEFINE i == Opener(bs)
           False(k) == ~bs[k].isElse /\ EvalCondition(bs[k].cond) = "false"
<1>1. /\ Len(bs) \in Nat /\ Len(bs) > 0 /\ Dir(bs[1]) = i /\ i \in Nat
      /\ \A k \in 1 .. Len(bs) :
           /\ Dir(bs[k]) \in Starts(i) /\ Dir(bs[k]) \in Nat
           /\ bs[k].isElse \/ EvalCondition(bs[k].cond) = Truth(lines[Dir(bs[k])].arg)
           /\ \A q \in 1 .. Len(bs) : k < q <=> Dir(bs[k]) < Dir(bs[q])
      /\ \A m \in Starts(i) : \E k \in 1 .. Len(bs) : Dir(bs[k]) = m
  BY WholeGroupFacts
<1>2. bs[Len(bs)].end # 0 <=> End(i) # {}
  BY WholeGroupEnds
<1>3. Len(bs) >= 2 <=> Alternatives(i) # {}
  <2>1. ASSUME Len(bs) >= 2
        PROVE  Alternatives(i) # {}
    <3>1. 1 \in 1 .. Len(bs) /\ 2 \in 1 .. Len(bs) /\ 1 < 2
      BY <1>1, <2>1
    <3>2. Dir(bs[2]) \in Starts(i) /\ Dir(bs[2]) # i
      BY <1>1, <3>1
    <3>. QED
      BY <3>2 DEF Starts
  <2>2. ASSUME NEW a \in Alternatives(i)
        PROVE  Len(bs) >= 2
    <3>1. a # i /\ a \in Starts(i)
      BY <1>1 DEF Alternatives, Starts
    <3>. QED
      BY <1>1, <3>1
  <2>. QED
    BY <2>1, <2>2
<1>4. /\ \A j \in 1 .. Len(bs) :
           Takes(i, Dir(bs[j]))
             <=> /\ j \in Settling(bs)
                 /\ bs[j].isElse \/ EvalCondition(bs[j].cond) # "unreadable"
      /\ \A j, k \in Settling(bs) : j = k
  <2>1. Settling(bs) \subseteq 1 .. Len(bs)
    BY DEF Settling
  <2>. QED
    BY <2>1, SettlingTakes
<1>5. Settling(bs) = {k \in 1 .. Len(bs) : ~False(k) /\ \A q \in 1 .. k - 1 : False(q)}
  BY DEF Settling
<1> HIDE DEF i
<1>6. Settling(bs) = {} => \A k \in 1 .. Len(bs) : False(k)
  <2> SUFFICES ASSUME NEW k \in 1 .. Len(bs), ~False(k) PROVE Settling(bs) # {}
    OBVIOUS
  <2> DEFINE T == {q \in 1 .. Len(bs) : ~False(q)}
  <2> HIDE DEF False
  <2>1. T \subseteq Nat /\ T # {}
    BY <1>1
  <2>2. PICK q \in T : \A r \in T : q <= r
    BY <2>1, LeastNat
  <2>3. \A r \in 1 .. q - 1 : r \in 1 .. Len(bs) /\ ~(q <= r)
    BY <1>1, <2>2
  <2>4. q \in Settling(bs)
    BY <1>5, <2>2, <2>3
  <2>. QED
    BY <2>4
<1>7. ASSUME Decidable(bs)
      PROVE  \/ \E m \in Starts(i) : Takes(i, m)
             \/ \A m \in Starts(i) : Truth(lines[m].arg) = "false"
  <2>1. ASSUME NEW k \in Settling(bs)
        PROVE  \E m \in Starts(i) : Takes(i, m)
    <3>1. k \in 1 .. Len(bs)
      BY <1>5
    <3>. QED
      BY <1>1, <1>4, <1>7, <3>1 DEF Decidable
  <2>2. CASE Settling(bs) = {}
    BY <1>1, <1>6, <2>2
  <2>. QED
    BY <2>1, <2>2
<1>8. ASSUME NEW k \in Settling(bs), ~bs[k].isElse, EvalCondition(bs[k].cond) = "unreadable"
      PROVE  /\ ~ \E m \in Starts(i) : Takes(i, m)
             /\ ~ \A m \in Starts(i) : Truth(lines[m].arg) = "false"
  <2>1. k \in 1 .. Len(bs)
    BY <1>5
  <2>2. Dir(bs[k]) \in Starts(i) /\ Truth(lines[Dir(bs[k])].arg) # "false"
    BY <1>1, <1>8, <2>1
  <2>. QED
    BY <1>1, <1>4, <1>8, <2>1, <2>2
<1>. QED
  BY <1>2, <1>3, <1>7, <1>8 DEF Decidable, Readable, i

\* A group reports the lines of its conditional's losing branches.
LEMMA LostLines ==
  ASSUME NEW bs, WholeGroup(bs), NEW l \in Nat
  PROVE  l \in Lost(bs)
           <=> /\ Readable(Opener(bs))
               /\ \E m \in Starts(Opener(bs)) :
                    InBranch(Opener(bs), m, l) /\ ~Takes(Opener(bs), m)
<1> DEFINE i == Opener(bs)
<1>1. Decidable(bs) <=> Readable(i)
  BY DecidableIsReadable
<1>2. CASE ~Decidable(bs)
  BY <1>1, <1>2 DEF Lost
<1>3. CASE Decidable(bs)
  <2>1. \A j \in 1 .. Len(bs) : l \in Inside(bs[j]) <=> InBranch(i, Dir(bs[j]), l)
    BY <1>1, <1>3, InsideIsInBranch DEF Readable
  <2>2. \A j \in 1 .. Len(bs) : j \in Settling(bs) <=> Takes(i, Dir(bs[j]))
    BY <1>3, SettlingTakes DEF Decidable
  <2>3. /\ \A j \in 1 .. Len(bs) : Dir(bs[j]) \in Starts(i)
        /\ \A m \in Starts(i) : \E j \in 1 .. Len(bs) : Dir(bs[j]) = m
    BY WholeGroupFacts
  <2>4. l \in Lost(bs) <=> \E j \in 1 .. Len(bs) : j \notin Settling(bs) /\ l \in Inside(bs[j])
    BY <1>3 DEF Lost
  <2> HIDE DEF i
  <2>5. l \in Lost(bs) <=> \E m \in Starts(i) : InBranch(i, m, l) /\ ~Takes(i, m)
    BY <2>1, <2>2, <2>3, <2>4
  <2>. QED
    BY <1>1, <1>3, <2>5 DEF i
<1>. QED
  BY <1>2, <1>3

\* Of every C# conditional exactly the branches that the compiler does not take
\* are reported, however conditionals are nested and whatever directive is
\* missing or stray (strategies/cspreproc.go:23-96), in sources whose conditions
\* csEvalCondition reads as C# means them.
THEOREM ExactlyLosingBranches ==
  ASSUME \A s \in Sources : s.tool = "alternate" => CSharpLines(s.lines)
  PROVE  Spec => []LosingBranchesReported
<1>1. AlternateInv => LosingBranchesReported
  <2>0. CASE tool = "alternate" /\ ~Mentioned
    BY <2>0 DEF AlternateInv, LosingBranchesReported
  <2> SUFFICES ASSUME GroupInv, tool = "alternate", Done
               PROVE  hidden = {l \in 1 .. Len(lines) :
                         \E i \in 1 .. l - 1 :
                           /\ lines[i].dir = "if" /\ Readable(i)
                           /\ \E m \in Starts(i) : InBranch(i, m, l) /\ ~Takes(i, m)}
    BY <2>0 DEF AlternateInv, LosingBranchesReported
  <2>1. ln = Len(lines) + 1 /\ g = Len(groups) + 1
    BY DEF Done, GroupInv, Grouped
  <2>2. hidden = UNION {Lost(groups[k]) : k \in 1 .. Len(groups)}
    <3>1. g - 1 = Len(groups)
      BY <2>1, GroupsBefore
    <3>. QED
      BY <3>1 DEF GroupInv
  <2>3. \A k \in 1 .. Len(groups) : WholeGroup(groups[k])
    BY <2>1 DEF GroupInv, Grouped, WholeGroup
  <2>4. ASSUME NEW l, NEW k \in 1 .. Len(groups), l \in Lost(groups[k])
        PROVE  /\ l \in 1 .. Len(lines)
               /\ \E i \in 1 .. l - 1 :
                    /\ lines[i].dir = "if" /\ Readable(i)
                    /\ \E m \in Starts(i) : InBranch(i, m, l) /\ ~Takes(i, m)
    <3> DEFINE bs == groups[k]
               i == Opener(bs)
    <3>1. WholeGroup(bs) /\ Len(lines) \in Nat /\ lines[i].dir = "if" /\ i \in 1 .. Len(lines)
      BY <2>3, WholeGroupFacts DEF WholeGroup, Follows
    <3>2. l \in Nat
      <4>1. PICK j \in 1 .. Len(bs) : l \in Inside(bs[j])
        BY <2>4 DEF Lost
      <4>2. Dir(bs[j]) \in 1 .. Len(lines) /\ bs[j].start = Dir(bs[j]) + 1
        BY <3>1, WholeGroupFacts
      <4>. QED
        BY <4>1, <4>2 DEF Inside
    <3>3. Readable(i) /\ \E m \in Starts(i) : InBranch(i, m, l) /\ ~Takes(i, m)
      BY <2>4, <3>1, <3>2, LostLines
    <3>4. PICK m \in Starts(i) : InBranch(i, m, l) /\ ~Takes(i, m)
      BY <3>3
    <3>5. PICK e \in End(i) : e \in Nat /\ m < e
      BY <3>1, <3>3, WholeGroupEnds DEF Readable
    <3> HIDE DEF bs, i
    <3>6. m \in Nat /\ i <= m /\ e <= Len(lines)
      BY <3>1, <3>5 DEF Starts, Alternatives, End
    <3>7. m < l /\ l < e
      BY <3>2, <3>4, <3>5, <3>6 DEF InBranch
    <3>8. l \in 1 .. Len(lines) /\ i \in 1 .. l - 1
      BY <3>1, <3>2, <3>5, <3>6, <3>7
    <3>. QED
      BY <3>1, <3>3, <3>8
  <2>5. ASSUME NEW l \in 1 .. Len(lines), NEW i \in 1 .. l - 1,
               lines[i].dir = "if", Readable(i),
               \E m \in Starts(i) : InBranch(i, m, l) /\ ~Takes(i, m)
        PROVE  \E k \in 1 .. Len(groups) : l \in Lost(groups[k])
    <3>1. i \in 1 .. ln - 1 /\ l \in Nat
      BY <2>1, GroupsBefore
    <3>2. PICK k \in 1 .. Len(groups) : Opener(groups[k]) = i
      BY <2>5, <3>1, OpenersBefore
    <3>3. WholeGroup(groups[k])
      BY <2>3
    <3>. QED
      BY <2>5, <3>1, <3>2, <3>3, LostLines
  <2>. QED
    BY <2>2, <2>4, <2>5
<1>. QED
  BY <1>1, AlternateInductive, PTL
=============================================================================
