--------------------------- MODULE RegistryObject ---------------------------
(***************************************************************************)
(* What astkit.Registry promises: "a thread-safe map of LanguageKey to     *)
(* Strategy" (engine.go:180).  Each call takes effect in one atomic step   *)
(* between its start and its return: a registration sets one entry, every  *)
(* other operation reads one entry and answers from what it read.          *)
(***************************************************************************)
CONSTANTS Proc, Lang, Strategy, NoStrategy

VARIABLES entry,   \* entry[l]: the strategy registered under l
          phase,   \* "idle", "called" or "done"
          arg,     \* the entry a call is about and, for a store, its value
          found    \* what a load read

vars == <<entry, phase, arg, found>>

Stored == Strategy \cup {NoStrategy}

Args == [store : BOOLEAN, lang : Lang, value : Stored]

Init ==
  /\ entry = [l \in Lang |-> NoStrategy]
  /\ phase = [p \in Proc |-> "idle"]
  /\ arg \in [Proc -> Args]
  /\ found = [p \in Proc |-> NoStrategy]

Start(p) ==
  /\ phase[p] = "idle"
  /\ phase' = [phase EXCEPT ![p] = "called"]
  /\ \E a \in Args : arg' = [arg EXCEPT ![p] = a]
  /\ found' = [found EXCEPT ![p] = NoStrategy]
  /\ UNCHANGED entry

Effect(p) ==
  /\ phase[p] = "called"
  /\ phase' = [phase EXCEPT ![p] = "done"]
  /\ IF arg[p].store
     THEN /\ entry' = [entry EXCEPT ![arg[p].lang] = arg[p].value]
          /\ UNCHANGED found
     ELSE /\ found' = [found EXCEPT ![p] = entry[arg[p].lang]]
          /\ UNCHANGED entry
  /\ UNCHANGED arg

\* The call's locals are gone.
Finish(p) ==
  /\ phase[p] = "done"
  /\ phase' = [phase EXCEPT ![p] = "idle"]
  /\ \E a \in Args : arg' = [arg EXCEPT ![p] = a]
  /\ found' = [found EXCEPT ![p] = NoStrategy]
  /\ UNCHANGED entry

Next == \E p \in Proc : Start(p) \/ Effect(p) \/ Finish(p)

Spec == Init /\ [][Next]_vars
=============================================================================
