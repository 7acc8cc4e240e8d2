----------------------------- MODULE SwiftSymbols -----------------------------
(***************************************************************************)
(* The symbols of a Swift file (extractSwiftNodes) and the calls each is   *)
(* given (sharedNavCallSites).                                             *)
(*                                                                         *)
(* Node types: "class" (class, struct, enum or actor) with the "case"s of  *)
(* an enum, "ext" (an extension) and "extin" (of a type by its path, a.x), *)
(* "conf" (a protocol either names), "protocol" with "req" (functions and  *)
(* properties) and "assoc" (associated types), "fn", "init", "deinit",     *)
(* "subscript", "prop", "alias" and "call".                                *)
(***************************************************************************)
EXTENDS Extraction

SwiftExtensions == {"ext", "extin"}
SwiftBodied == {"fn", "init", "deinit", "subscript"}
SwiftMembers == SwiftBodied \cup {"class", "protocol", "prop", "alias"}

SwiftUnder(p) ==
  LET conf == IF Kids(p) = {} THEN {"conf"} ELSE {} IN
  CASE kind[p] = "file" -> SwiftExtensions \cup {"class", "protocol", "fn", "prop", "alias"}
    [] kind[p] = "class" -> SwiftMembers \cup {"case"}
    [] kind[p] \in SwiftExtensions -> (SwiftMembers \ {"deinit"}) \cup conf
    [] kind[p] = "protocol" -> {"req", "assoc"}
    [] kind[p] \in SwiftBodied -> {"call", "fn", "class"}
    [] kind[p] \in {"prop", "call"} -> {"call"}
    [] OTHER -> {}

SwiftFile ==
  /\ prof.lang = "swift"
  /\ \E l \in Levels : \E k \in SwiftUnder(Open(l)) : Grow(l, k)

-----------------------------------------------------------------------------

\* implType in the body of n: that of an extension is the last name alone.
SwiftType[n \in File] ==
  IF n = 1 THEN << >>
  ELSE IF kind[n] \in SwiftExtensions \cup {"protocol"} THEN <<name[n]>>
  ELSE IF kind[n] = "class" THEN QualJoin(SwiftType[Up(n)], name[n])
  ELSE SwiftType[Up(n)]

SwiftCallSites(n) == CollectCallSites(n, Of({"call"}), {})

SwiftMember(n, sort, nm, calls) ==
  Sym(n, sort, nm, QualLast(SwiftType[Up(n)]), calls, {})

SwiftEmit(n) ==
  LET type == SwiftType[Up(n)]
      of == QualLast(type)
  IN  CASE kind[n] \in {"class", "protocol"} -> {MemberOf(n, "class", type, {}, {})}
        [] kind[n] = "fn" ->
             {SwiftMember(n, IF type = << >> THEN "function" ELSE "method", <<name[n]>>, SwiftCallSites(n))}
        [] kind[n] = "init" -> {SwiftMember(n, "constructor", of \o <<"init">>, SwiftCallSites(n))}
        [] kind[n] = "deinit" -> {SwiftMember(n, "method", <<"deinit">>, SwiftCallSites(n))}
        [] kind[n] = "subscript" -> {SwiftMember(n, "method", of \o <<"subscript">>, SwiftCallSites(n))}
        [] kind[n] \in {"prop", "req"} ->
             {SwiftMember(n, IF type = << >> THEN "variable" ELSE "field", <<name[n]>>, {})}
        [] kind[n] \in {"case", "assoc"} -> {SwiftMember(n, "const", of \o <<name[n]>>, {})}
        [] kind[n] = "alias" -> {Sym(n, "type", <<name[n]>>, << >>, {}, {})}
        [] OTHER -> {}

\* Function bodies are walked for calls only.
SwiftVisited(n) == n > 1 /\ Way(1, Up(n)) \cap Of(SwiftBodied \cup {"prop", "call"}) = {}

SwiftVisitFile ==
  /\ prof.lang = "swift"
  /\ Pass("parse", "conformances", UNION {SwiftEmit(n) : n \in {n \in File : SwiftVisited(n)}})

\* swiftExtensionConformances: the types extended by their own name alone
\* with protocols.  (An "extin" is in the table by its path, which is no
\* symbol's name.)
SwiftConforming == {name[e] : e \in {e \in Of({"ext"}) : Kids(e) \cap Of({"conf"}) # {}}}

SwiftConformances ==
  /\ prof.lang = "swift"
  /\ Pass("conformances", "done",
          {IF s.sort = "class" /\ kind[s.at] = "class" /\ name[s.at] \in SwiftConforming
           THEN Sym(s.at, s.sort, s.qual, s.parent, s.calls, {"implements"}) ELSE s : s \in out})

SwiftNext == SwiftFile \/ SwiftVisitFile \/ SwiftConformances
=============================================================================
