----------------------------- MODULE MCRegistry -----------------------------
(***************************************************************************)
(* Two strategies of one language, a second key only RegisterAs reaches,   *)
(* and three goroutines: one that registers, one that registers and looks  *)
(* up, one that uses every lookup operation.                               *)
(***************************************************************************)
EXTENDS Registry, TLC

CONSTANTS l1, l2, s1, s2, shallow, deep, p1, p2, p3

MCLanguage == [s \in Strategy |-> l1]

MCWorkload ==
  (p1 :> {c \in Calls : c.op = "Register" \/ (c.op = "RegisterAs" /\ c.key = l2 /\ c.s = s2)}) @@
  (p2 :> {c \in Calls : c.key = l1 /\ (c.op = "Get" \/ (c.op = "RegisterAs" /\ c.s = s1))}) @@
  (p3 :> {c \in Calls : ~Writes(c) /\ c.op # "Get"})
=============================================================================
