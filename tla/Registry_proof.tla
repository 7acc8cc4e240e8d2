--------------------------- MODULE Registry_proof ---------------------------
(***************************************************************************)
(* The Registry, and the guard its Extract runs before a strategy.  For    *)
(* any number of goroutines, languages and strategies: the map is never    *)
(* touched while it is being written, and each call is one atomic access   *)
(* to it.  For every set of trees and every MaxASTDepth: guardDepth's      *)
(* verdict is exact, and the recursive extraction behind it never holds    *)
(* more than MaxASTDepth + 1 frames and visits every node once, in         *)
(* document order.                                                         *)
(***************************************************************************)
EXTENDS Registry, DepthGuard, SyntaxTree_proof, SequenceTheorems, TLAPS

\* Some call exists, so a goroutine in no call has locals to forget.
LEMMA NoCallIsCall == NoCall \in Calls
<1>1. PICK l \in Lang : TRUE
  BY RegistryAssumption
<1>2. [op |-> "Get", key |-> l, s |-> NoStrategy, tree |-> Nobody] \in Calls
  BY <1>1 DEF Calls
<1>. QED
  BY <1>2 DEF NoCall

\* Whatever is written was named by a call, and so is what is looked up.
LEMMA CallShape ==
  ASSUME NEW c \in Calls
  PROVE  /\ c.key \in Lang
         /\ c.s \in Stored
         /\ Writes(c) => c.s \in Strategy
         /\ c.op \in {"Register", "RegisterAs", "Get", "TextCapable",
                      "Extract", "ExtractImports"}
  BY RegistryAssumption DEF Calls, Stored, Writes

LEMMA InitInv == Init => IInv
<1> SUFFICES ASSUME Init PROVE IInv
  OBVIOUS
<1>1. TypeOK
  BY NoCallIsCall, RegistryAssumption
     DEF Init, TypeOK, Stored, Locations, Outcomes
<1>2. LockInv
  BY RegistryAssumption DEF Init, LockInv
<1>. QED
  BY <1>1, <1>2 DEF Init, IInv, CallInv

LEMMA TypeStep == TypeOK /\ Next => TypeOK'
<1>a. SUFFICES ASSUME TypeOK, NEW p \in Proc, Begin(p) \/ Step(p) PROVE TypeOK'
  BY DEF Next
<1>1. CASE Begin(p)
  <2>1. PICK c \in Workload[p] :
          /\ call' = [call EXCEPT ![p] = c]
          /\ pc' = [pc EXCEPT ![p] = IF Writes(c) THEN "Lock" ELSE "RLock"]
    BY <1>1 DEF Begin
  <2>2. c \in Calls
    BY <2>1, WorkloadAssumption
  <2>. QED
    BY <1>a, <1>1, <2>1, <2>2 DEF Begin, TypeOK, muVars, Locations
<1>2. CASE Lock(p) \/ Drained(p) \/ BeginWrite(p) \/ Unlock(p)
  BY <1>a, <1>2
     DEF Lock, Drained, BeginWrite, Unlock, Goto, TypeOK, muVars, Locations,
         Outcomes
<1>3. CASE EndWrite(p)
  <2>1. call[p].key \in Lang /\ call[p].s \in Stored
    BY <1>a, CallShape DEF TypeOK
  <2>2. m' \in [Lang -> Stored]
    BY <1>a, <1>3, <2>1 DEF EndWrite, TypeOK
  <2>. QED
    BY <1>a, <1>3, <2>2 DEF EndWrite, Goto, TypeOK, muVars, Locations
<1>4. CASE RLock(p) \/ RLockBlocks(p) \/ RLockResumes(p)
  BY <1>a, <1>4
     DEF RLock, RLockBlocks, RLockResumes, Goto, TypeOK, muVars, Locations
<1>5. CASE Read(p)
  <2>1. call[p].key \in Lang
    BY <1>a, CallShape DEF TypeOK
  <2>2. got' \in [Proc -> Stored]
    BY <1>a, <1>5, <2>1 DEF Read, TypeOK
  <2>. QED
    BY <1>a, <1>5, <2>2 DEF Read, Goto, TypeOK, muVars, Locations
<1>6. CASE RUnlock(p)
  BY <1>a, <1>6 DEF RUnlock, TypeOK, Locations, Outcomes
<1>7. CASE GuardTree(p)
  BY <1>a, <1>7 DEF GuardTree, TypeOK, muVars, Locations, Outcomes
<1>8. CASE RunStrategy(p)
  BY <1>a, <1>8 DEF RunStrategy, Goto, TypeOK, muVars, Locations, Outcomes
<1>9. CASE Return(p)
  BY <1>a, <1>9, NoCallIsCall
     DEF Return, Goto, TypeOK, muVars, Locations, Outcomes, Stored
<1>. QED
  BY <1>a, <1>1, <1>2, <1>3, <1>4, <1>5, <1>6, <1>7, <1>8, <1>9 DEF Step

LEMMA LockStep == TypeOK /\ LockInv /\ Next => LockInv'
<1>a. SUFFICES ASSUME TypeOK, LockInv, NEW p \in Proc, Begin(p) \/ Step(p)
               PROVE  LockInv'
  BY DEF Next
<1>b. Nobody \notin Proc /\ pc \in [Proc -> Locations]
  BY <1>a, RegistryAssumption DEF TypeOK
<1>1. CASE Begin(p)
  <2>1. PICK to \in {"Lock", "RLock"} : pc' = [pc EXCEPT ![p] = to]
    BY <1>1 DEF Begin
  <2>. QED
    BY <1>a, <1>b, <1>1, <2>1 DEF Begin, LockInv, muVars
<1>2. CASE Lock(p)
  BY <1>a, <1>b, <1>2 DEF Lock, Goto, LockInv
<1>3. CASE Drained(p)
  BY <1>a, <1>b, <1>3 DEF Drained, Goto, LockInv, muVars
<1>4. CASE BeginWrite(p)
  BY <1>a, <1>b, <1>4 DEF BeginWrite, Goto, LockInv, muVars
<1>5. CASE EndWrite(p)
  BY <1>a, <1>b, <1>5 DEF EndWrite, Goto, LockInv, muVars
<1>6. CASE Unlock(p)
  BY <1>a, <1>b, <1>6 DEF Unlock, Goto, LockInv
<1>7. CASE RLock(p)
  BY <1>a, <1>b, <1>7 DEF RLock, Goto, LockInv
<1>8. CASE RLockBlocks(p)
  BY <1>a, <1>b, <1>8 DEF RLockBlocks, Goto, LockInv
<1>9. CASE RLockResumes(p)
  BY <1>a, <1>b, <1>9 DEF RLockResumes, Goto, LockInv, muVars
<1>10. CASE Read(p)
  BY <1>a, <1>b, <1>10 DEF Read, Goto, LockInv, muVars
<1>11. CASE RUnlock(p)
  <2>1. PICK to \in {"guard", "return"} : pc' = [pc EXCEPT ![p] = to]
    BY <1>11 DEF RUnlock
  <2>. QED
    BY <1>a, <1>b, <1>11, <2>1 DEF RUnlock, LockInv
<1>12. CASE GuardTree(p)
  <2>1. PICK to \in {"strategy", "return"} : pc' = [pc EXCEPT ![p] = to]
    BY <1>12 DEF GuardTree
  <2>. QED
    BY <1>a, <1>b, <1>12, <2>1 DEF GuardTree, LockInv, muVars
<1>13. CASE RunStrategy(p)
  BY <1>a, <1>b, <1>13 DEF RunStrategy, Goto, LockInv, muVars
<1>14. CASE Return(p)
  BY <1>a, <1>b, <1>14 DEF Return, Goto, LockInv, muVars
<1>. QED
  BY <1>a, <1>1, <1>2, <1>3, <1>4, <1>5, <1>6, <1>7, <1>8, <1>9, <1>10,
     <1>11, <1>12, <1>13, <1>14 DEF Step

LEMMA CallStep == TypeOK /\ CallInv /\ Next => CallInv'
<1>a. SUFFICES ASSUME TypeOK, CallInv, NEW p \in Proc, Begin(p) \/ Step(p)
               PROVE  CallInv'
  BY DEF Next
<1>b. /\ pc \in [Proc -> Locations]
      /\ call \in [Proc -> Calls]
      /\ got \in [Proc -> Stored]
  BY <1>a DEF TypeOK
<1>1. CASE Begin(p)
  <2>1. PICK c \in Workload[p] :
          /\ call' = [call EXCEPT ![p] = c]
          /\ pc' = [pc EXCEPT ![p] = IF Writes(c) THEN "Lock" ELSE "RLock"]
    BY <1>1 DEF Begin
  <2>2. got' = got
    BY <1>1 DEF Begin
  <2>. QED
    BY <1>a, <1>b, <2>1, <2>2 DEF CallInv
<1>2. CASE Lock(p) \/ Drained(p) \/ BeginWrite(p) \/ EndWrite(p) \/ Unlock(p)
  <2>1. UNCHANGED <<call, got>>
    BY <1>2 DEF Lock, Drained, BeginWrite, EndWrite, Unlock
  <2>2. PICK to \in {"drain", "write", "writing", "Unlock", "return"} :
          /\ pc' = [pc EXCEPT ![p] = to]
          /\ to \in {"drain", "write", "writing"} =>
               pc[p] \in {"Lock", "drain", "write", "writing"}
    BY <1>2 DEF Lock, Drained, BeginWrite, EndWrite, Unlock, Goto
  <2>. QED
    BY <1>a, <1>b, <2>1, <2>2 DEF CallInv
<1>3. CASE RLock(p) \/ RLockBlocks(p) \/ RLockResumes(p)
  <2>1. UNCHANGED <<call, got>>
    BY <1>3 DEF RLock, RLockBlocks, RLockResumes
  <2>2. PICK to \in {"read", "blocked"} :
          pc' = [pc EXCEPT ![p] = to] /\ pc[p] \in {"RLock", "blocked"}
    BY <1>3 DEF RLock, RLockBlocks, RLockResumes, Goto
  <2>. QED
    BY <1>a, <1>b, <2>1, <2>2 DEF CallInv
<1>4. CASE Read(p)
  <2>1. PICK s \in Stored \cup {m[call[p].key]} :
          got' = [got EXCEPT ![p] = s]
    BY <1>4 DEF Read
  <2>2. call' = call /\ pc' = [pc EXCEPT ![p] = "RUnlock"]
    BY <1>4 DEF Read, Goto
  <2>. QED
    BY <1>a, <1>b, <2>1, <2>2 DEF CallInv
<1>5. CASE RUnlock(p)
  <2>1. UNCHANGED <<call, got>>
    BY <1>5 DEF RUnlock
  <2>2. PICK to \in {"guard", "return"} :
          /\ pc' = [pc EXCEPT ![p] = to]
          /\ to = "guard" => got[p] # NoStrategy
    BY <1>5 DEF RUnlock
  <2>. QED
    BY <1>a, <1>b, <2>1, <2>2 DEF CallInv
<1>6. CASE GuardTree(p)
  <2>1. UNCHANGED <<call, got>> /\ pc[p] = "guard"
    BY <1>6 DEF GuardTree
  <2>2. PICK to \in {"strategy", "return"} :
          /\ pc' = [pc EXCEPT ![p] = to]
          /\ to = "strategy" => call[p].tree \notin DeepTrees
    BY <1>6 DEF GuardTree
  <2>. QED
    BY <1>a, <1>b, <2>1, <2>2 DEF CallInv
<1>7. CASE RunStrategy(p)
  BY <1>a, <1>b, <1>7 DEF RunStrategy, Goto, CallInv
<1>8. CASE Return(p)
  BY <1>a, <1>b, <1>8 DEF Return, Goto, CallInv
<1>. QED
  BY <1>a, <1>1, <1>2, <1>3, <1>4, <1>5, <1>6, <1>7, <1>8 DEF Step

\* The inductive invariant: what mu guarantees at each location, and what a
\* goroutine knows there.
THEOREM Inductive == Spec => []IInv
<1>1. Init => IInv
  BY InitInv
<1>2. IInv /\ [Next]_vars => IInv'
  <2> SUFFICES ASSUME IInv, [Next]_vars PROVE IInv'
    OBVIOUS
  <2>1. CASE Next
    BY <2>1, TypeStep, LockStep, CallStep DEF IInv
  <2>2. CASE UNCHANGED vars
    BY <2>2 DEF vars, muVars, IInv, TypeOK, LockInv, CallInv
  <2>. QED
    BY <2>1, <2>2
<1>. QED
  BY <1>1, <1>2, PTL DEF Spec

\* Two goroutines are never in the map together when one of them writes.
LEMMA InvRaceFree == IInv => RaceFree
<1> SUFFICES ASSUME IInv, NEW p \in Proc, NEW q \in Proc, p # q,
                    pc[p] = "writing", pc[q] \in {"writing", "read"}
             PROVE  FALSE
  BY DEF RaceFree
<1>1. readers = {} /\ holder = p
  BY DEF IInv, LockInv
<1>2. CASE pc[q] = "writing"
  BY <1>1, <1>2 DEF IInv, LockInv
<1>3. CASE pc[q] = "read"
  BY <1>1, <1>3 DEF IInv, LockInv
<1>. QED
  BY <1>2, <1>3

\* The Registry is race free for any number of concurrent callers.
THEOREM NoRace == Spec => []RaceFree
  BY Inductive, InvRaceFree, PTL

-----------------------------------------------------------------------------
\* A step that neither reads nor writes the map, nor starts or ends a call.
LEMMA Stutter ==
  ASSUME IInv, NEW p \in Proc, NEW to \in Locations,
         pc' = [pc EXCEPT ![p] = to], UNCHANGED <<m, call, got>>,
         LET a == {"Lock", "drain", "write", "writing",
                   "RLock", "blocked", "read"}
         IN  \/ pc[p] \in a /\ to \in a
             \/ pc[p] \notin a \cup {"idle"} /\ to \notin a \cup {"idle"}
  PROVE  UNCHANGED Atomic!vars
<1>1. \A q \in Proc : Phase(q)' = Phase(q)
  BY DEF Phase, IInv, TypeOK
<1>. QED
  BY <1>1 DEF Atomic!vars

LEMMA AbsInit == Init => Atomic!Init
<1> SUFFICES ASSUME Init PROVE Atomic!Init
  OBVIOUS
<1>1. Access(NoCall) \in Atomic!Args
  BY NoCallIsCall, CallShape DEF Access, Atomic!Args, Atomic!Stored, Stored, Writes
<1>2. \A p \in Proc : Phase(p) = "idle"
  BY DEF Init, Phase
<1>. QED
  BY <1>1, <1>2 DEF Init, Atomic!Init

LEMMA AbsStep == IInv /\ IInv' /\ [Next]_vars => [Atomic!Next]_Atomic!vars
<1>a. SUFFICES ASSUME IInv, IInv', [Next]_vars PROVE [Atomic!Next]_Atomic!vars
  OBVIOUS
<1>b. /\ pc \in [Proc -> Locations] /\ call \in [Proc -> Calls]
      /\ got \in [Proc -> Stored] /\ m \in [Lang -> Stored]
  BY <1>a DEF IInv, TypeOK
<1>c. \A c \in Calls : Access(c) \in Atomic!Args
  BY CallShape DEF Access, Atomic!Args, Atomic!Stored, Stored, Writes
<1>d. SUFFICES ASSUME NEW p \in Proc, Begin(p) \/ Step(p)
               PROVE  Atomic!Next \/ UNCHANGED Atomic!vars
  <2>1. CASE UNCHANGED vars
    BY <2>1 DEF vars, Atomic!vars, Phase
  <2>. QED
    BY <1>a, <2>1 DEF Next
<1>1. CASE Begin(p)
  <2>1. PICK c \in Workload[p] :
          /\ call' = [call EXCEPT ![p] = c]
          /\ pc' = [pc EXCEPT ![p] = IF Writes(c) THEN "Lock" ELSE "RLock"]
    BY <1>1 DEF Begin
  <2>2. c \in Calls
    BY <2>1, WorkloadAssumption
  <2>3. pc[p] = "idle" /\ got[p] = NoStrategy /\ UNCHANGED <<m, got>>
    BY <1>a, <1>1 DEF Begin, IInv, CallInv
  <2>4. [q \in Proc |-> Phase(q)]' =
          [[q \in Proc |-> Phase(q)] EXCEPT ![p] = "called"]
    BY <1>b, <2>1 DEF Phase
  <2>5. [q \in Proc |-> Access(call[q])]' =
          [[q \in Proc |-> Access(call[q])] EXCEPT ![p] = Access(c)]
    BY <1>b, <2>1
  <2>6. got' = [got EXCEPT ![p] = NoStrategy]
    BY <1>b, <2>3
  <2>7. Phase(p) = "idle"
    BY <2>3 DEF Phase
  <2>8. Atomic!Start(p)
    BY <1>c, <2>2, <2>3, <2>4, <2>5, <2>6, <2>7 DEF Atomic!Start
  <2>. QED
    BY <2>8 DEF Atomic!Next
<1>2. CASE EndWrite(p)
  <2>1. OthersWriting(p) = {}
    BY <1>a, <1>2, InvRaceFree DEF RaceFree, OthersWriting, EndWrite, Goto
  <2>2. /\ pc[p] = "writing" /\ pc' = [pc EXCEPT ![p] = "Unlock"]
        /\ m' = [m EXCEPT ![call[p].key] = call[p].s]
        /\ UNCHANGED <<call, got>>
    BY <1>2, <2>1 DEF EndWrite, Goto
  <2>3. Writes(call[p])
    BY <1>a, <2>2 DEF IInv, CallInv
  <2>4. [q \in Proc |-> Phase(q)]' =
          [[q \in Proc |-> Phase(q)] EXCEPT ![p] = "done"]
    BY <1>b, <2>2 DEF Phase
  <2>5. Phase(p) = "called"
    BY <2>2 DEF Phase
  <2>6. Atomic!Effect(p)
    BY <1>b, <2>2, <2>3, <2>4, <2>5 DEF Atomic!Effect, Access
  <2>. QED
    BY <2>6 DEF Atomic!Next
<1>3. CASE Read(p)
  <2>1. OthersWriting(p) = {}
    BY <1>a, <1>3, InvRaceFree DEF RaceFree, OthersWriting, Read, Goto
  <2>2. /\ pc[p] = "read" /\ pc' = [pc EXCEPT ![p] = "RUnlock"]
        /\ got' = [got EXCEPT ![p] = m[call[p].key]]
        /\ UNCHANGED <<call, m>>
    BY <1>3, <2>1 DEF Read, Goto
  <2>3. ~Writes(call[p])
    BY <1>a, <2>2 DEF IInv, CallInv
  <2>4. [q \in Proc |-> Phase(q)]' =
          [[q \in Proc |-> Phase(q)] EXCEPT ![p] = "done"]
    BY <1>b, <2>2 DEF Phase
  <2>5. Phase(p) = "called"
    BY <2>2 DEF Phase
  <2>6. Atomic!Effect(p)
    BY <1>b, <2>2, <2>3, <2>4, <2>5 DEF Atomic!Effect, Access
  <2>. QED
    BY <2>6 DEF Atomic!Next
<1>4. CASE Return(p)
  <2>1. /\ pc[p] = "return" /\ pc' = [pc EXCEPT ![p] = "idle"]
        /\ call' = [call EXCEPT ![p] = NoCall]
        /\ got' = [got EXCEPT ![p] = NoStrategy]
        /\ m' = m
    BY <1>4 DEF Return, Goto
  <2>2. [q \in Proc |-> Phase(q)]' =
          [[q \in Proc |-> Phase(q)] EXCEPT ![p] = "idle"]
    BY <1>b, <2>1 DEF Phase
  <2>3. [q \in Proc |-> Access(call[q])]' =
          [[q \in Proc |-> Access(call[q])] EXCEPT ![p] = Access(NoCall)]
    BY <1>b, <2>1
  <2>4. Phase(p) = "done"
    BY <2>1 DEF Phase
  <2>5. Atomic!Finish(p)
    BY <1>c, NoCallIsCall, <2>1, <2>2, <2>3, <2>4 DEF Atomic!Finish
  <2>. QED
    BY <2>5 DEF Atomic!Next
<1>5. CASE Lock(p) \/ Drained(p) \/ BeginWrite(p) \/ Unlock(p)
  BY <1>a, <1>5, Stutter
     DEF Lock, Drained, BeginWrite, Unlock, Goto, Locations
<1>6. CASE RLock(p) \/ RLockBlocks(p) \/ RLockResumes(p) \/ RunStrategy(p)
  BY <1>a, <1>6, Stutter
     DEF RLock, RLockBlocks, RLockResumes, RunStrategy, Goto, Locations
<1>7. CASE RUnlock(p) \/ GuardTree(p)
  BY <1>a, <1>7, Stutter DEF RUnlock, GuardTree, Locations
<1>. QED
  BY <1>d, <1>1, <1>2, <1>3, <1>4, <1>5, <1>6, <1>7 DEF Step

\* The concurrent Registry implements the atomic one.
THEOREM RegistryIsLinearizable == Spec => Linearizable
<1>1. Init => Atomic!Init
  BY AbsInit
<1>2. IInv /\ IInv' /\ [Next]_vars => [Atomic!Next]_Atomic!vars
  BY AbsStep
<1>. QED
  BY <1>1, <1>2, Inductive, PTL DEF Spec, Linearizable, Atomic!Spec

-----------------------------------------------------------------------------
(* The depth guard and the walk behind it                                  *)

\* A stack without its top.
LEMMA PopSeq ==
  ASSUME NEW S, NEW s \in Seq(S), s # << >>
  PROVE  /\ SubSeq(s, 1, Len(s) - 1) \in Seq(S)
         /\ Len(SubSeq(s, 1, Len(s) - 1)) = Len(s) - 1
         /\ \A k \in 1 .. Len(s) - 1 : SubSeq(s, 1, Len(s) - 1)[k] = s[k]
<1> DEFINE j == Len(s) - 1
<1>1. j \in Nat /\ Len(s) = j + 1 /\ \A i \in 1 .. j : s[i] \in S
  OBVIOUS
<1> HIDE DEF j
<1>2. /\ SubSeq(s, 1, j) \in Seq(S)
      /\ Len(SubSeq(s, 1, j)) = IF 1 <= j THEN j - 1 + 1 ELSE 0
      /\ \A k \in 1 .. j - 1 + 1 : SubSeq(s, 1, j)[k] = s[1 + k - 1]
  BY <1>1, SubSeqProperties
<1>3. /\ Len(SubSeq(s, 1, j)) = j
      /\ \A k \in 1 .. j : SubSeq(s, 1, j)[k] = s[k]
  BY <1>1, <1>2
<1>. QED
  BY <1>2, <1>3 DEF j

LEMMA SeqElement ==
  ASSUME NEW S, NEW s \in Seq(S), NEW k \in 1 .. Len(s)
  PROVE  s[k] \in S
  OBVIOUS

\* The sibling after a subtree that ends at s is the node after s, if that is
\* of the level of its root.
LEMMA SiblingAfter ==
  ASSUME NEW t, IsTree(t), NEW c \in Nodes(t), NEW s \in Nodes(t),
         InSubtree(t, c, s), s = Len(t) \/ t[s + 1] <= t[c]
  PROVE  NextSibling(t, c) = IF s # Len(t) /\ t[s + 1] = t[c] THEN s + 1 ELSE 0
<1>1. /\ c \in Nat /\ s \in Nat /\ Len(t) \in Nat /\ c <= s /\ s <= Len(t)
      /\ \A k \in 1 .. Len(t) : t[k] \in Nat
      /\ 1 <= c
  BY TreeShape DEF Nodes, InSubtree
<1>2. \A j \in Nodes(t) :
        IsNextSibling(t, c, j) => j = s + 1 /\ s # Len(t) /\ t[s + 1] = t[c]
  <2> SUFFICES ASSUME NEW j \in Nodes(t), IsNextSibling(t, c, j)
               PROVE  j = s + 1 /\ s # Len(t) /\ t[s + 1] = t[c]
    OBVIOUS
  <2>1. /\ j \in Nat /\ c < j /\ j <= Len(t) /\ t[j] = t[c]
        /\ t[j] \in Nat /\ t[c] \in Nat
    BY <1>1 DEF IsNextSibling, Nodes
  <2>2. ~(j <= s)
    <3> SUFFICES ASSUME j <= s PROVE FALSE
      OBVIOUS
    <3>1. j \in c + 1 .. s
      BY <1>1, <2>1
    <3>. QED
      BY <2>1, <3>1 DEF InSubtree
  <2>3. ~(j > s + 1)
    <3> SUFFICES ASSUME j > s + 1 PROVE FALSE
      OBVIOUS
    <3>1. s + 1 \in c + 1 .. j - 1 /\ s # Len(t) /\ s + 1 \in 1 .. Len(t)
      BY <1>1, <2>1
    <3>2. t[s + 1] > t[c] /\ t[s + 1] \in Nat
      BY <1>1, <3>1 DEF IsNextSibling
    <3>. QED
      BY <2>1, <3>1, <3>2
  <2>4. j = s + 1
    BY <1>1, <2>1, <2>2, <2>3
  <2>. QED
    BY <1>1, <2>1, <2>4
<1>3. s # Len(t) /\ t[s + 1] = t[c] =>
        s + 1 \in Nodes(t) /\ IsNextSibling(t, c, s + 1)
  BY <1>1 DEF IsNextSibling, InSubtree, Nodes
<1>. QED
  BY <1>2, <1>3 DEF NextSibling

\* The part of the invariant about levels; the other is the walk's order.
Levels == DepthTypeOK /\ GuardInv /\ WalkInv

LEMMA InitLevels == DepthInit => Levels
  BY DepthAssumption
     DEF DepthInit, Levels, DepthTypeOK, GuardInv, VerdictExact, WalkInv, NilTree

LEMMA GuardStep == Levels /\ Guard => Levels'
<1>a. SUFFICES ASSUME Levels, Guard PROVE Levels'
  OBVIOUS
<1>b. MaxASTDepth \in Nat
  BY DepthAssumption
<1>c. tree # NilTree => IsTree(tree)
  BY <1>a, DepthAssumption DEF Levels, DepthTypeOK
<1>0. DepthTypeOK /\ GuardInv /\ WalkInv
  BY <1>a DEF Levels
<1>1. CASE GuardNilTree
  BY <1>0, <1>b, <1>1
     DEF Levels, DepthTypeOK, GuardNilTree, GuardInv, WalkInv, VerdictExact, NilTree,
         Nodes, walkVars
<1>2. CASE GuardStart
  <2>1. IsTree(tree)
    BY <1>c, <1>2 DEF GuardStart
  <2>2. tree[1] = 0 /\ 1 \in Nodes(tree)
    BY <2>1, TreeShape DEF Nodes
  <2>3. \A k \in 1 .. 1 : tree[k] <= MaxASTDepth
    BY <2>2, <1>b
  <2>. QED
    BY <2>2, <2>3, <1>0, <1>2
       DEF Levels, DepthTypeOK, GuardStart, GuardInv, WalkInv, VerdictExact, Nodes,
           walkVars
<1>3. CASE Descend
  <2>1. IsTree(tree) /\ at \in Nodes(tree) /\ depth = tree[at]
    BY <1>0, <1>c, <1>3 DEF Descend, GuardInv
  <2>2. /\ at' = at + 1
        /\ at + 1 \in Nodes(tree)
        /\ tree[at + 1] = tree[at] + 1
    BY <2>1, <1>3, FirstChildLevel DEF Descend
  <2>3. depth' = tree[at'] /\ depth' \in Int
    BY <2>1, <2>2, <1>3, TreeShape DEF Descend, Nodes
  <2>4. \A k \in 1 .. at : tree[k] <= MaxASTDepth
    BY <1>0, <1>3 DEF Descend, GuardInv
  <2>5. verdict' = "walking" => \A k \in 1 .. at' : tree[k] <= MaxASTDepth
    BY <2>1, <2>2, <2>3, <2>4, <1>b, <1>3, TreeShape DEF Descend, Nodes
  <2>6. verdict' = "deep" => tree[at'] > MaxASTDepth
    BY <2>3, <1>3 DEF Descend
  <2>. QED
    BY <2>1, <2>2, <2>3, <2>5, <2>6, <1>0, <1>3
       DEF Levels, DepthTypeOK, Descend, GuardInv, WalkInv, VerdictExact, Nodes,
           walkVars
<1>4. CASE TurnAcross
  <2>1. IsTree(tree) /\ at \in Nodes(tree)
    BY <1>0, <1>c, <1>4 DEF TurnAcross, GuardInv
  <2>2. at = Len(tree) \/ tree[at + 1] <= tree[at]
    BY <2>1, <1>4, LeafEnds DEF TurnAcross
  <2>3. InSubtree(tree, at, at)
    BY <2>1, TreeShape DEF InSubtree, Nodes
  <2>4. /\ at \in at .. Len(tree)
        /\ \A k \in 1 .. at : tree[k] <= MaxASTDepth
    BY <2>1, <1>0, <1>4, TreeShape DEF TurnAcross, GuardInv, Nodes
  <2>5. CheckedThrough(at)
    BY <2>2, <2>3, <2>4 DEF CheckedThrough
  <2>6. CheckedThrough(at)'
    BY <2>5, <1>4 DEF CheckedThrough, InSubtree, TurnAcross
  <2>. QED
    BY <2>6, <1>0, <1>4
       DEF Levels, DepthTypeOK, TurnAcross, GuardInv, WalkInv, VerdictExact, Nodes,
           walkVars
<1>5. CASE ToSibling
  <2>1. IsTree(tree) /\ at \in Nodes(tree) /\ depth = tree[at]
    BY <1>0, <1>c, <1>5 DEF ToSibling, GuardInv
  <2>2. PICK j \in Nodes(tree) : IsNextSibling(tree, at, j) /\ at' = j
    BY <1>5 DEF ToSibling
  <2>3. PICK s \in at .. Len(tree) :
          /\ InSubtree(tree, at, s)
          /\ s = Len(tree) \/ tree[s + 1] <= tree[at]
          /\ \A k \in 1 .. s : tree[k] <= MaxASTDepth
    BY <1>0, <1>5 DEF ToSibling, GuardInv, CheckedThrough
  <2>4. tree[j] = tree[at] /\ at < j
    BY <2>2 DEF IsNextSibling
  <2>5. at \in Nat /\ j \in Nat /\ s \in Nat /\ Len(tree) \in Nat
    BY <2>1, TreeShape DEF Nodes
  <2>6. j <= s + 1
    \* Past s the walk would have met a node no deeper than at.
    <3> SUFFICES ASSUME s + 1 < j PROVE FALSE
      BY <2>5
    <3>1. s + 1 \in at + 1 .. j - 1 /\ s # Len(tree) /\ s + 1 \in 1 .. Len(tree)
      BY <2>5 DEF Nodes
    <3>2. tree[s + 1] > tree[at]
      BY <3>1, <2>2 DEF IsNextSibling
    <3>3. tree[s + 1] \in Nat /\ tree[at] \in Nat
      BY <3>1, <2>1, TreeShape DEF Nodes
    <3>. QED
      BY <3>1, <3>2, <3>3, <2>3
  <2>7. \A k \in 1 .. j : tree[k] <= MaxASTDepth
    <3> TAKE k \in 1 .. j
    <3>1. CASE k <= s
      BY <3>1, <2>3, <2>5
    <3>2. CASE k > s
      <4>1. k = j /\ at \in 1 .. s
        BY <3>2, <2>1, <2>5, <2>6 DEF Nodes
      <4>. QED
        BY <4>1, <2>3, <2>4
    <3>. QED
      BY <3>1, <3>2, <2>5
  <2>. QED
    BY <2>1, <2>2, <2>4, <2>5, <2>7, <1>0, <1>5
       DEF Levels, DepthTypeOK, ToSibling, GuardInv, WalkInv, VerdictExact, Nodes,
           walkVars
<1>6. CASE ToParent
  <2>1. IsTree(tree) /\ at \in Nodes(tree) /\ depth = tree[at]
    BY <1>0, <1>c, <1>6 DEF ToParent, GuardInv
  <2>2. PICK p \in Nodes(tree) : IsParent(tree, at, p) /\ at' = p
    BY <1>6 DEF ToParent
  <2>3. PICK s \in at .. Len(tree) :
          /\ InSubtree(tree, at, s)
          /\ s = Len(tree) \/ tree[s + 1] <= tree[at]
          /\ \A k \in 1 .. s : tree[k] <= MaxASTDepth
    BY <1>0, <1>6 DEF ToParent, GuardInv, CheckedThrough
  <2>4. tree[p] = tree[at] - 1 /\ p < at
    BY <2>2 DEF IsParent
  <2>5. /\ at \in Nat /\ p \in Nat /\ s \in Nat /\ Len(tree) \in Nat
        /\ tree[at] \in Nat /\ tree[p] \in Nat
    BY <2>1, TreeShape DEF Nodes
  <2>6. s = Len(tree) \/ tree[s + 1] <= tree[p]
    \* Otherwise s + 1 would be a sibling of at.
    <3> SUFFICES ASSUME s # Len(tree), ~(tree[s + 1] <= tree[p]) PROVE FALSE
      OBVIOUS
    <3>1. s + 1 \in Nodes(tree) /\ tree[s + 1] \in Nat
      BY <2>1, <2>5, TreeShape DEF Nodes
    <3>2. tree[s + 1] = tree[at]
      BY <3>1, <2>3, <2>4, <2>5
    <3>3. IsNextSibling(tree, at, s + 1)
      BY <3>2, <2>3, <2>5 DEF IsNextSibling, InSubtree
    <3>. QED
      BY <3>1, <3>3, <1>6 DEF ToParent, NoSibling
  <2>7. InSubtree(tree, p, s)
    <3>1. \A k \in p + 1 .. s : tree[k] > tree[p]
      <4> TAKE k \in p + 1 .. s
      <4>1. CASE k <= at
        BY <4>1, <2>2, <2>5 DEF IsParent
      <4>2. CASE k > at
        <5>1. k \in at + 1 .. s /\ tree[k] \in Nat
          BY <4>2, <2>1, <2>5, TreeShape
        <5>. QED
          BY <5>1, <2>3, <2>4, <2>5 DEF InSubtree
      <4>. QED
        BY <4>1, <4>2, <2>5
    <3>. QED
      BY <3>1, <2>4, <2>5 DEF InSubtree
  <2>8. CheckedThrough(p)
    BY <2>3, <2>4, <2>5, <2>6, <2>7 DEF CheckedThrough
  <2>9. CheckedThrough(at)'
    BY <2>2, <2>8, <1>6 DEF ToParent, CheckedThrough, InSubtree
  <2>. QED
    BY <2>1, <2>2, <2>4, <2>5, <2>9, <1>0, <1>6
       DEF Levels, DepthTypeOK, ToParent, GuardInv, WalkInv, VerdictExact, Nodes,
           walkVars
<1>7. CASE GuardDone
  <2>1. IsTree(tree)
    BY <1>0, <1>c, <1>7 DEF GuardDone, GuardInv
  <2>2. PICK s \in 1 .. Len(tree) :
          /\ s = Len(tree) \/ tree[s + 1] <= tree[1]
          /\ \A k \in 1 .. s : tree[k] <= MaxASTDepth
    BY <1>0, <1>7 DEF GuardDone, GuardInv, CheckedThrough
  <2>3. s = Len(tree)
    <3> SUFFICES ASSUME s # Len(tree) PROVE FALSE
      OBVIOUS
    <3>1. s + 1 \in 2 .. Len(tree)
      BY <2>1, TreeShape
    <3>. QED
      BY <3>1, <2>1, <2>2, TreeShape
  <2>. QED
    BY <2>2, <2>3, <1>0, <1>7
       DEF Levels, DepthTypeOK, GuardDone, GuardInv, WalkInv, VerdictExact, Nodes,
           walkVars
<1>. QED
  BY <1>a, <1>1, <1>2, <1>3, <1>4, <1>5, <1>6, <1>7 DEF Guard

\* A step of the extraction leaves the guard's state alone.
LEMMA GuardKept == GuardInv /\ UNCHANGED guardVars => GuardInv'
  BY DEF GuardInv, VerdictExact, CheckedThrough, InSubtree, guardVars, Nodes

LEMMA WalkStep == Levels /\ WalkTree => Levels'
<1>a. SUFFICES ASSUME Levels, WalkTree PROVE Levels'
  OBVIOUS
<1>0. DepthTypeOK /\ GuardInv /\ WalkInv
  BY <1>a DEF Levels
<1>g. UNCHANGED guardVars
  BY <1>a DEF WalkTree, WalkRoot, WalkChild, WalkReturn
<1>v. GuardInv'
  BY <1>0, <1>g, GuardKept
<1>t. tree # NilTree => IsTree(tree)
  BY <1>0, DepthAssumption DEF DepthTypeOK
<1>1. CASE WalkRoot
  <2>1. IsTree(tree) /\ 1 \in Nodes(tree) /\ tree[1] = 0 /\ verdict = "ok"
    BY <1>1, <1>t, TreeShape DEF WalkRoot, Nodes
  <2>2. /\ Frame(1) \in [node : Nat, next : Nat]
        /\ Frame(1).node = 1
        /\ Frame(1).next # 0 =>
             Frame(1).next \in Nodes(tree) /\ tree[Frame(1).next] = 1
    BY <2>1, FirstChildLevel DEF Frame, Nodes
  <2>3. frames' = <<Frame(1)>> /\ visited' = <<1>>
    BY <1>1 DEF WalkRoot
  <2>. QED
    BY <2>1, <2>2, <2>3, <1>0, <1>g, <1>v
       DEF Levels, DepthTypeOK, WalkInv, guardVars, Nodes
<1>2. CASE WalkChild
  <2> DEFINE n == Len(frames)
             top == frames[n]
             below == [frames EXCEPT ![n].next = NextSibling(tree, top.next)]
  <2>1. frames \in Seq([node : Nat, next : Nat]) /\ n \in Nat \ {0} /\ top.next # 0
    BY <1>0, <1>2 DEF WalkChild, DepthTypeOK
  <2>2. /\ top \in [node : Nat, next : Nat]
        /\ top.next \in Nodes(tree)
        /\ tree[top.next] = n
    <3>1. n \in 1 .. Len(frames)
      BY <2>1
    <3>2. top \in [node : Nat, next : Nat]
      BY <2>1, <3>1, SeqElement
    <3>3. top.next # 0 => top.next \in Nodes(tree) /\ tree[top.next] = n
      BY <3>1, <1>0 DEF WalkInv
    <3>. QED
      BY <2>1, <3>2, <3>3
  <2>3. verdict = "ok" /\ visited # << >> /\ tree # NilTree
    <3>1. tree # NilTree
      BY <2>2 DEF Nodes, NilTree
    <3>2. frames # << >>
      BY <1>2 DEF WalkChild
    <3>. QED
      BY <3>1, <3>2, <1>0 DEF WalkInv
  <2>4. NextSibling(tree, top.next) = 0 \/
          /\ NextSibling(tree, top.next) \in Nodes(tree)
          /\ tree[NextSibling(tree, top.next)] = n
    BY <2>2, <2>3, <1>t, NextSiblingLevel
  <2>5. /\ Frame(top.next) \in [node : Nat, next : Nat]
        /\ Frame(top.next).node = top.next
        /\ Frame(top.next).next # 0 =>
             /\ Frame(top.next).next \in Nodes(tree)
             /\ tree[Frame(top.next).next] = n + 1
    BY <2>2, <2>3, <1>t, FirstChildLevel DEF Frame, Nodes
  <2>6. NextSibling(tree, top.next) \in Nat
    BY <2>4 DEF Nodes
  <2>7. /\ below \in Seq([node : Nat, next : Nat])
        /\ Len(below) = n
    BY <2>1, <2>2, <2>6
  <2>8. \A k \in 1 .. n :
          /\ below[k].node = frames[k].node
          /\ below[k].next = IF k = n THEN NextSibling(tree, top.next)
                                      ELSE frames[k].next
    BY <2>1, <2>2
  <2>9. frames' = Append(below, Frame(top.next))
    BY <1>2 DEF WalkChild
  <2> HIDE DEF below
  <2>10. /\ frames' \in Seq([node : Nat, next : Nat])
         /\ Len(frames') = n + 1
         /\ frames'[n + 1] = Frame(top.next)
         /\ \A k \in 1 .. n : frames'[k] = below[k]
    BY <2>1, <2>5, <2>7, <2>9
  <2>11. \A k \in 1 .. n + 1 :
           /\ frames'[k].node \in Nodes(tree)
           /\ tree[frames'[k].node] = k - 1
           /\ frames'[k].next # 0 =>
                frames'[k].next \in Nodes(tree) /\ tree[frames'[k].next] = k
    <3> TAKE k \in 1 .. n + 1
    <3>1. CASE k = n + 1
      <4>1. frames'[k] = Frame(top.next) /\ k - 1 = n
        BY <3>1, <2>1, <2>10
      <4>2. /\ frames'[k].node = top.next
            /\ frames'[k].next = Frame(top.next).next
        BY <4>1, <2>5
      <4>3. frames'[k].node \in Nodes(tree) /\ tree[frames'[k].node] = k - 1
        BY <4>1, <4>2, <2>2
      <4>. QED
        BY <3>1, <4>2, <4>3, <2>5
    <3>2. CASE k # n + 1
      <4>0. k \in 1 .. n
        <5> HIDE DEF n
        <5>. QED
          BY <3>2, <2>1
      <4>1. k \in 1 .. n /\ frames'[k] = below[k]
        BY <4>0, <2>10
      <4>2. /\ frames[k].node \in Nodes(tree)
            /\ tree[frames[k].node] = k - 1
            /\ frames[k].next # 0 =>
                 frames[k].next \in Nodes(tree) /\ tree[frames[k].next] = k
        BY <4>1, <1>0 DEF WalkInv
      <4>3. /\ frames'[k].node = frames[k].node
            /\ frames'[k].next = IF k = n THEN NextSibling(tree, top.next)
                                          ELSE frames[k].next
        BY <4>1, <2>8
      <4>4. CASE k = n
        BY <4>2, <4>3, <4>4, <2>4
      <4>5. CASE k # n
        BY <4>2, <4>3, <4>5
      <4>. QED
        BY <4>4, <4>5
    <3>. QED
      BY <3>1, <3>2
  <2>12. visited' \in Seq(Nat) /\ visited' # << >>
    <3>1. visited' = Append(visited, top.next)
      BY <1>2 DEF WalkChild
    <3>2. visited \in Seq(Nat) /\ top.next \in Nat
      BY <2>2, <1>0 DEF DepthTypeOK, Nodes
    <3> HIDE DEF top
    <3>. QED
      BY <3>1, <3>2
  <2>13. DepthTypeOK'
    BY <2>10, <2>12, <1>0, <1>g DEF DepthTypeOK, guardVars
  <2>14. WalkInv'
    BY <2>3, <2>10, <2>11, <2>12, <1>g DEF WalkInv, guardVars, Nodes
  <2>. QED
    BY <2>13, <2>14, <1>v DEF Levels
<1>3. CASE WalkReturn
  <2>0. frames \in Seq([node : Nat, next : Nat]) /\ Len(frames) \in Nat \ {0}
    BY <1>0, <1>3 DEF WalkReturn, DepthTypeOK
  <2>1. frames' \in Seq([node : Nat, next : Nat])
    BY <2>0, <1>3, PopSeq DEF WalkReturn
  <2>5. /\ Len(frames') = Len(frames) - 1
        /\ \A k \in 1 .. Len(frames') : frames'[k] = frames[k]
    <3>1. /\ SubSeq(frames, 1, Len(frames) - 1) \in Seq([node : Nat, next : Nat])
          /\ Len(SubSeq(frames, 1, Len(frames) - 1)) = Len(frames) - 1
          /\ \A k \in 1 .. Len(frames) - 1 :
               SubSeq(frames, 1, Len(frames) - 1)[k] = frames[k]
      BY <2>0, <1>3, PopSeq DEF WalkReturn
    <3>. QED
      BY <3>1, <1>3 DEF WalkReturn
  <2>2. frames # << >> /\ visited' = visited
    BY <1>3 DEF WalkReturn
  <2>3. DepthTypeOK'
    BY <2>1, <2>2, <1>0, <1>g DEF DepthTypeOK, guardVars
  <2>4. WalkInv'
    <3>0. Len(frames) \in Nat
      BY <2>0
    <3>1. \A k \in 1 .. Len(frames') :
            /\ k \in 1 .. Len(frames)
            /\ frames'[k] = frames[k]
      BY <3>0, <2>5
    <3>2. UNCHANGED <<tree, verdict>>
      BY <1>g DEF guardVars
    <3>3. visited' # << >> => verdict' = "ok"
      BY <2>2, <3>2, <1>0 DEF WalkInv
    <3>4. frames' # << >> => visited' # << >>
      BY <2>2, <1>0 DEF WalkInv
    <3>5. \A k \in 1 .. Len(frames') :
            /\ frames[k].node \in Nodes(tree)
            /\ tree[frames[k].node] = k - 1
            /\ frames[k].next # 0 =>
                 frames[k].next \in Nodes(tree) /\ tree[frames[k].next] = k
      BY <3>1, <1>0 DEF WalkInv
    <3>. QED
      BY <3>1, <3>2, <3>3, <3>4, <3>5 DEF WalkInv, Nodes
  <2>. QED
    BY <2>3, <2>4, <1>v DEF Levels
<1>. QED
  BY <1>a, <1>1, <1>2, <1>3 DEF WalkTree

\* While the guard runs, the extraction has not begun.
LEMMA GuardOrder ==
  ASSUME Levels, WalkOrder, Guard PROVE WalkOrder'
<1>1. verdict # "ok" /\ UNCHANGED <<tree, frames, visited>>
  BY DEF Guard, GuardNilTree, GuardStart, Descend, TurnAcross, ToSibling,
         ToParent, GuardDone, walkVars
<1>. QED
  BY <1>1 DEF WalkOrder, InSubtree

LEMMA WalkOrderStep ==
  ASSUME Levels, WalkOrder, WalkTree PROVE WalkOrder'
<1> DEFINE n == Len(frames)
           v == Len(visited)
<1>0. /\ frames \in Seq([node : Nat, next : Nat])
      /\ visited \in Seq(Nat)
      /\ n \in Nat /\ v \in Nat
      /\ frames = << >> <=> n = 0
      /\ visited = << >> <=> v = 0
  BY DEF Levels, DepthTypeOK
<1>g. tree' = tree
  BY DEF WalkTree, WalkRoot, WalkChild, WalkReturn, guardVars
<1>t. tree # NilTree => IsTree(tree)
  BY DepthAssumption DEF Levels, DepthTypeOK
<1>n. \A k \in 1 .. n : frames[k].node \in Nodes(tree) /\ tree[frames[k].node] = k - 1
  BY DEF Levels, WalkInv
<1>o. /\ v <= Len(tree)
      /\ \A i \in 1 .. v : visited[i] = i
      /\ \A k \in 1 .. n : InSubtree(tree, frames[k].node, v)
      /\ \A k \in 1 .. n - 1 :
           frames[k].next = NextSibling(tree, frames[k + 1].node)
      /\ n > 0 =>
           IF frames[n].next = 0
           THEN v = Len(tree) \/ tree[v + 1] <= tree[frames[n].node]
           ELSE frames[n].next = v + 1
  BY DEF WalkOrder
<1>f. ASSUME NEW c \in Nodes(tree), IsTree(tree)
      PROVE  IF Frame(c).next = 0
             THEN c = Len(tree) \/ tree[c + 1] <= tree[c]
             ELSE Frame(c).next = c + 1
  BY <1>f, LeafEnds, FirstChildLevel DEF Frame
<1>1. CASE WalkRoot
  <2>1. IsTree(tree) /\ 1 \in Nodes(tree) /\ Len(tree) \in Nat /\ 1 <= Len(tree)
    BY <1>1, <1>t, TreeShape DEF WalkRoot, Nodes
  <2>2. InSubtree(tree, 1, 1)
    BY DEF InSubtree
  <2>3. frames' = <<Frame(1)>> /\ visited' = <<1>> /\ Frame(1).node = 1
    BY <1>1 DEF WalkRoot, Frame
  <2>4. IF Frame(1).next = 0
        THEN 1 = Len(tree) \/ tree[1 + 1] <= tree[1]
        ELSE Frame(1).next = 1 + 1
    BY <1>f, <2>1
  <2>5. /\ Len(frames') = 1 /\ frames'[1] = Frame(1)
        /\ Len(visited') = 1 /\ visited'[1] = 1
    BY <2>3
  <2>. QED
    BY <2>1, <2>2, <2>3, <2>4, <2>5, <1>g DEF WalkOrder
<1>2. CASE WalkChild
  <2> DEFINE c == v + 1
             below == [frames EXCEPT ![n].next = NextSibling(tree, frames[n].next)]
  <2>1. n > 0 /\ n \in 1 .. n /\ frames[n].next # 0
    BY <1>0, <1>2 DEF WalkChild
  <2>2. frames[n].next = c
    BY <2>1, <1>o
  <2>3. c \in Nodes(tree) /\ tree[c] = n
    BY <2>1, <2>2 DEF Levels, WalkInv
  <2>4. IsTree(tree) /\ Len(tree) \in Nat /\ c <= Len(tree)
    BY <2>3, <1>t, TreeShape DEF Nodes, NilTree
  <2>5. /\ Len(below) = n /\ below \in Seq([node : Nat, next : Nat])
        /\ \A k \in 1 .. n :
             /\ below[k].node = frames[k].node
             /\ below[k].next = IF k = n THEN NextSibling(tree, c)
                                          ELSE frames[k].next
    <3>1. NextSibling(tree, c) \in Nat
      BY <2>3, <2>4, NextSiblingLevel DEF Nodes
    <3>2. frames[n] \in [node : Nat, next : Nat]
      BY <2>1, <1>0, SeqElement
    <3> DEFINE g == [frames[n] EXCEPT !.next = NextSibling(tree, c)]
    <3>3. /\ g \in [node : Nat, next : Nat]
          /\ g.node = frames[n].node
          /\ g.next = NextSibling(tree, c)
      BY <3>1, <3>2
    <3>4. below = [frames EXCEPT ![n] = g]
      BY <2>2
    <3> HIDE DEF g, below, c
    <3>5. /\ Len(below) = n /\ below \in Seq([node : Nat, next : Nat])
          /\ \A k \in 1 .. n : below[k] = IF k = n THEN g ELSE frames[k]
      BY <3>3, <3>4, <1>0, <2>1
    <3>. QED
      BY <3>3, <3>5
  <2>6. frames' = Append(below, Frame(c)) /\ visited' = Append(visited, c)
    BY <1>2, <2>2 DEF WalkChild
  <2> HIDE DEF below
  <2>7. /\ Len(frames') = n + 1
        /\ frames'[n + 1] = Frame(c)
        /\ \A k \in 1 .. n : frames'[k] = below[k]
    BY <2>5, <2>6, <1>0
  <2>8. Len(visited') = c /\ \A i \in 1 .. c : visited'[i] = i
    BY <2>6, <1>0, <1>o
  <2>9. Frame(c).node = c
    BY DEF Frame
  <2>10. \A k \in 1 .. n + 1 : InSubtree(tree, frames'[k].node, c)
    <3> TAKE k \in 1 .. n + 1
    <3>1. CASE k = n + 1
      BY <3>1, <2>7, <2>9, <1>0 DEF InSubtree
    <3>2. CASE k # n + 1
      <4>0. k \in 1 .. n
        <5> HIDE DEF n
        <5>. QED
          BY <3>2, <1>0
      <4>1. k \in 1 .. n /\ frames'[k].node = frames[k].node
        BY <4>0, <2>5, <2>7
      <4>2. /\ InSubtree(tree, frames[k].node, v)
            /\ tree[frames[k].node] = k - 1
            /\ frames[k].node \in Nat
        BY <4>1, <1>n, <1>o DEF Nodes
      <4>3. tree[c] > tree[frames[k].node]
        BY <4>1, <4>2, <2>3, <1>0
      <4>4. InSubtree(tree, frames[k].node, c)
        BY <4>2, <4>3, <1>0 DEF InSubtree
      <4>. QED
        BY <4>1, <4>4
    <3>. QED
      BY <3>1, <3>2
  <2>11. \A k \in 1 .. n : frames'[k].next = NextSibling(tree, frames'[k + 1].node)
    <3> TAKE k \in 1 .. n
    <3>1. CASE k = n
      BY <3>1, <2>5, <2>7, <2>9
    <3>2. CASE k # n
      <4>1. k \in 1 .. n - 1 /\ k + 1 \in 1 .. n
        BY <3>2, <1>0
      <4>2. frames'[k].next = frames[k].next /\ frames'[k + 1].node = frames[k + 1].node
        BY <4>1, <3>2, <2>5, <2>7
      <4>. QED
        BY <4>1, <4>2, <1>o
    <3>. QED
      BY <3>1, <3>2
  <2>12. IF frames'[n + 1].next = 0
         THEN c = Len(tree) \/ tree[c + 1] <= tree[frames'[n + 1].node]
         ELSE frames'[n + 1].next = c + 1
    BY <1>f, <2>3, <2>4, <2>7, <2>9
  <2> HIDE DEF c, n, v
  <2>. QED
    BY <1>0, <1>g, <2>4, <2>7, <2>8, <2>10, <2>11, <2>12 DEF WalkOrder
<1>3. CASE WalkReturn
  <2>1. /\ n > 0 /\ frames[n].next = 0 /\ visited' = visited
        /\ frames' = SubSeq(frames, 1, n - 1)
    BY <1>0, <1>3 DEF WalkReturn
  <2>2. /\ Len(frames') = n - 1
        /\ \A k \in 1 .. n - 1 : frames'[k] = frames[k]
    BY <2>1, <1>0, PopSeq
  <2>3. n \in 1 .. n /\ frames[n].node \in Nodes(tree) /\ tree[frames[n].node] = n - 1
    BY <2>1, <1>0, <1>n
  <2>4. /\ v = Len(tree) \/ tree[v + 1] <= n - 1
        /\ InSubtree(tree, frames[n].node, v)
    BY <2>1, <2>3, <1>o
  <2>5. /\ IsTree(tree) /\ Len(tree) \in Nat /\ v \in Nodes(tree)
        /\ \A k \in 1 .. Len(tree) : tree[k] \in Nat
        /\ \A k \in 2 .. Len(tree) : tree[k] >= 1
    <3>1. IsTree(tree)
      BY <2>3, <1>t DEF Nodes, NilTree
    <3>2. frames[n].node <= v /\ frames[n].node \in Nat /\ 1 <= frames[n].node
      BY <2>3, <2>4, <3>1, TreeShape DEF InSubtree, Nodes
    <3>3. Len(tree) \in Nat
      BY <3>1, TreeShape
    <3>4. v \in Nodes(tree)
      BY <3>2, <3>3, <1>0, <1>o DEF Nodes
    <3>. QED
      BY <3>1, <3>3, <3>4, TreeShape
  <2>6. n - 1 = 0 => v = Len(tree)
    <3> SUFFICES ASSUME n - 1 = 0, v # Len(tree) PROVE FALSE
      OBVIOUS
    <3> HIDE DEF n, v
    <3>1. v + 1 \in 2 .. Len(tree) /\ v + 1 \in 1 .. Len(tree)
      BY <2>5 DEF Nodes
    <3>2. tree[v + 1] \in Nat /\ tree[v + 1] >= 1 /\ tree[v + 1] <= 0
      BY <3>1, <2>4, <2>5
    <3>. QED
      BY <3>2
  <2>7. n - 1 > 0 =>
          IF frames'[n - 1].next = 0
          THEN v = Len(tree) \/ tree[v + 1] <= tree[frames'[n - 1].node]
          ELSE frames'[n - 1].next = v + 1
    <3> HIDE DEF n, v
    <3> SUFFICES ASSUME n - 1 > 0
                 PROVE  IF frames'[n - 1].next = 0
                        THEN v = Len(tree) \/ tree[v + 1] <= tree[frames'[n - 1].node]
                        ELSE frames'[n - 1].next = v + 1
      OBVIOUS
    <3>1. n - 1 \in 1 .. n - 1 /\ (n - 1) + 1 = n /\ n - 1 \in 1 .. n
      BY <1>0
    <3>0. frames'[n - 1] = frames[n - 1]
      BY <3>1, <2>2
    <3>2. frames[n - 1].next = NextSibling(tree, frames[n].node)
      BY <3>1, <1>o
    <3>3. tree[frames[n - 1].node] = n - 2
      BY <3>1, <1>n
    <3>4. NextSibling(tree, frames[n].node)
            = IF v # Len(tree) /\ tree[v + 1] = n - 1 THEN v + 1 ELSE 0
      BY <2>3, <2>4, <2>5, SiblingAfter
    <3>5. v # Len(tree) => tree[v + 1] \in Nat
      BY <2>5 DEF Nodes
    <3>6. tree[v + 1] \in Nat => (tree[v + 1] <= n - 1 /\ tree[v + 1] # n - 1 => tree[v + 1] <= n - 2)
      BY <1>0
    <3>7. CASE v # Len(tree) /\ tree[v + 1] = n - 1
      <4>1. frames'[n - 1].next = v + 1
        BY <3>0, <3>2, <3>4, <3>7
      <4>2. v + 1 # 0
        BY <1>0
      <4>. QED
        BY <4>1, <4>2
    <3>8. CASE ~(v # Len(tree) /\ tree[v + 1] = n - 1)
      <4>1. frames'[n - 1].next = 0
        BY <3>0, <3>2, <3>4, <3>8
      <4>2. v = Len(tree) \/ tree[v + 1] <= n - 2
        BY <3>5, <3>6, <3>8, <2>4
      <4>. QED
        BY <4>1, <4>2, <3>0, <3>3
    <3>. QED
      BY <3>7, <3>8
  <2>8. /\ \A k \in 1 .. n - 1 : InSubtree(tree, frames'[k].node, v)
        /\ \A k \in 1 .. (n - 1) - 1 :
             frames'[k].next = NextSibling(tree, frames'[k + 1].node)
    <3>1. \A k \in 1 .. n - 1 : k \in 1 .. n
      BY <1>0
    <3>2. \A k \in 1 .. (n - 1) - 1 : k \in 1 .. n - 1 /\ k + 1 \in 1 .. n - 1
      BY <1>0
    <3>. QED
      BY <3>1, <3>2, <2>2, <1>o
  <2>9. Len(visited') = v /\ \A i \in 1 .. v : visited'[i] = i
    BY <2>1, <1>o
  <2> HIDE DEF n, v
  <2>. QED
    BY <1>g, <1>o, <2>2, <2>6, <2>7, <2>8, <2>9 DEF WalkOrder
<1>. QED
  BY <1>1, <1>2, <1>3 DEF WalkTree

\* The inductive invariant: the guard knows the level of its node and that
\* everything up to the end of the subtree it leaves is within bounds; the
\* extraction's k-th frame stands on level k - 1 of the path to the last node
\* visited, whose next sibling or ancestor's sibling is the next node.
THEOREM DepthInductive == DepthSpec => []DepthInv
<1>1. DepthInit => DepthInv
  <2>1. DepthInit => WalkOrder
    <3> SUFFICES ASSUME DepthInit PROVE WalkOrder
      OBVIOUS
    <3>1. tree = NilTree \/ IsTree(tree)
      BY DepthAssumption DEF DepthInit
    <3>2. Len(tree) \in Nat
      BY <3>1, TreeShape DEF NilTree
    <3>. QED
      BY <3>2 DEF DepthInit, WalkOrder
  <2>. QED
    BY <2>1, InitLevels DEF DepthInv, Levels
<1>2. DepthInv /\ [DepthNext]_depthVars => DepthInv'
  <2> SUFFICES ASSUME DepthInv, [DepthNext]_depthVars PROVE DepthInv'
    OBVIOUS
  <2>0. Levels /\ WalkOrder
    BY DEF DepthInv, Levels
  <2>1. CASE Guard
    BY <2>0, <2>1, GuardStep, GuardOrder DEF DepthInv, Levels
  <2>2. CASE WalkTree
    BY <2>0, <2>2, WalkStep, WalkOrderStep DEF DepthInv, Levels
  <2>3. CASE UNCHANGED depthVars
    BY <2>3 DEF depthVars, DepthInv, DepthTypeOK, GuardInv, VerdictExact, CheckedThrough,
                InSubtree, WalkInv, WalkOrder
  <2>. QED
    BY <2>1, <2>2, <2>3 DEF DepthNext
<1>. QED
  BY <1>1, <1>2, PTL DEF DepthSpec

\* guardDepth (engine.go:262-288) accepts exactly the trees within the bound,
\* whatever the bound and whatever the tree.
THEOREM GuardIsExact == DepthSpec => []VerdictExact
<1>1. DepthInv => VerdictExact
  BY DEF DepthInv, GuardInv
<1>. QED
  BY <1>1, DepthInductive, PTL

\* No tree, however deep, makes the extraction hold more than MaxASTDepth + 1
\* frames, and none is walked before the guard accepted it.
THEOREM StackIsBounded == DepthSpec => []StackBounded
<1>1. DepthInv => StackBounded
  <2> SUFFICES ASSUME DepthInv PROVE StackBounded
    OBVIOUS
  <2>1. visited # << >> => verdict = "ok"
    BY DEF DepthInv, WalkInv
  <2>2. CASE frames = << >>
    BY <2>1, <2>2, DepthAssumption DEF StackBounded, DepthAssumption
  <2>3. CASE frames # << >>
    <3>1. Len(frames) \in Nat \ {0}
      BY <2>3 DEF DepthInv, DepthTypeOK
    <3>2. /\ frames[Len(frames)].node \in Nodes(tree)
          /\ tree[frames[Len(frames)].node] = Len(frames) - 1
      BY <3>1 DEF DepthInv, WalkInv
    <3>3. \A n \in Nodes(tree) : tree[n] <= MaxASTDepth
      BY <2>3 DEF DepthInv, WalkInv, GuardInv, VerdictExact
    <3>. QED
      BY <2>1, <3>1, <3>2, <3>3, DepthAssumption
         DEF StackBounded, DepthAssumption
  <2>. QED
    BY <2>2, <2>3
<1>. QED
  BY <1>1, DepthInductive, PTL

\* WalkTree (helpers.go:29-42) calls fn on the nodes of every tree in document
\* order, and on all of them by the time its outermost call returns.
THEOREM OrderIsDocumentOrder == DepthSpec => []DocumentOrder
<1>1. DepthInv => DocumentOrder
  BY DEF DepthInv, DepthTypeOK, WalkOrder, DocumentOrder
<1>. QED
  BY <1>1, DepthInductive, PTL
=============================================================================
