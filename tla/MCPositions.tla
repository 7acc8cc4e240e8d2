---------------------------- MODULE MCPositions ----------------------------
(***************************************************************************)
(* The two places where astkit makes positions up rather than read them    *)
(* off the parser's tree: call columns (with the files of MCCallColumns)   *)
(* and the Kotlin files whose comment lines are cut and put back.  A       *)
(* behaviour is of one or of the other.                                    *)
(***************************************************************************)
EXTENDS MCCallColumns, KotlinCuts

CONSTANT MCMaxBytes  \* the longest Kotlin file

MCSources == SeqOf({"x", " ", "c", "\n"}, MCMaxBytes)

MCNoKotlin ==
  src = << >> /\ todo = << >> /\ tree = << >> /\ at = Start /\ stage = "none"

MCNoColumns ==
  /\ lines = << >> /\ syms = << >> /\ declared = {} /\ used = << >> /\ col = << >>
  /\ phase = "done" /\ i = 1 /\ ln = 0 /\ j = 1

MCPositionsInit == (Init /\ MCNoKotlin) \/ (MCNoColumns /\ KotlinInit)

MCPositionsNext ==
  \/ Next /\ UNCHANGED kotlinVars
  \/ KotlinNext /\ UNCHANGED vars

MCPositionsSpec == MCPositionsInit /\ [][MCPositionsNext]_<<vars, kotlinVars>>
=============================================================================
