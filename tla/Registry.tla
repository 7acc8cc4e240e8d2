------------------------------ MODULE Registry ------------------------------
(***************************************************************************)
(* astkit.Registry (engine.go:180-246) under concurrent callers.           *)
(*                                                                         *)
(* Register and RegisterAs write the map under mu.Lock; Get, and through   *)
(* it TextCapable, Extract and ExtractImports, read it under mu.RLock and  *)
(* work on the strategy they found after the lock is released.  A map      *)
(* write is two steps here, because a Go map is in no defined state while  *)
(* it is being written: a read that overlaps it returns anything, and a    *)
(* write that overlaps another leaves the map in any state.                *)
(*                                                                         *)
(* sync.RWMutex is external: `holder` is its writer mutex, `announced`     *)
(* the pending-writer mark that makes new readers wait, `readers` its      *)
(* active readers and `blocked` the readers waiting for the writer.        *)
(***************************************************************************)
EXTENDS FiniteSets

CONSTANTS Proc,            \* goroutines
          Lang,            \* language keys
          Strategy,        \* strategies
          NoStrategy,      \* the nil Strategy of an absent key
          Language,        \* Language[s]: what s.Language() returns
          TextStrategies,  \* those whose ExtractsFromText() is true
          Tree,            \* arguments of Extract
          DeepTrees,       \* those guardDepth refuses (module DepthGuard)
          Nobody,          \* no goroutine
          Workload         \* Workload[p]: the calls goroutine p makes

ASSUME RegistryAssumption ==
  /\ Lang # {}
  /\ Language \in [Strategy -> Lang]
  /\ NoStrategy \notin Strategy
  /\ TextStrategies \subseteq Strategy
  /\ DeepTrees \subseteq Tree
  /\ Nobody \notin Proc

VARIABLES m,          \* the map
          holder, announced, readers, blocked,   \* mu
          pc,         \* where each goroutine is
          call,       \* its operation and arguments
          got,        \* the local s of Get and its callers
          outcome     \* what the operation returns

muVars == <<holder, announced, readers, blocked>>
vars == <<m, muVars, pc, call, got, outcome>>

Stored == Strategy \cup {NoStrategy}

\* Register's key is its argument's language.
Calls ==
  {[op |-> "Register", key |-> Language[s], s |-> s, tree |-> Nobody] :
     s \in Strategy} \cup
  [op : {"RegisterAs"}, key : Lang, s : Strategy, tree : {Nobody}] \cup
  [op : {"Get", "TextCapable"}, key : Lang, s : {NoStrategy}, tree : {Nobody}] \cup
  [op : {"Extract", "ExtractImports"}, key : Lang, s : {NoStrategy}, tree : Tree]

ASSUME WorkloadAssumption == Workload \in [Proc -> SUBSET Calls]

Writes(c) == c.op \in {"Register", "RegisterAs"}

Outcomes == {"none", "done", "nil", "true", "false", "error", "result"}

\* The locals of a goroutine that is in no call.
NoCall == CHOOSE c \in Calls : TRUE

Goto(p, from, to) ==
  /\ pc[p] = from
  /\ pc' = [pc EXCEPT ![p] = to]

Init ==
  /\ m = [l \in Lang |-> NoStrategy]
  /\ holder = Nobody /\ announced = FALSE /\ readers = {} /\ blocked = {}
  /\ pc = [p \in Proc |-> "idle"]
  /\ call = [p \in Proc |-> NoCall]
  /\ got = [p \in Proc |-> NoStrategy]
  /\ outcome = [p \in Proc |-> "none"]

\* Fault: Get reads the map without taking mu.
BeginUnlockedGet(p) ==
  /\ pc[p] = "idle"
  /\ \E c \in Workload[p] :
       /\ call' = [call EXCEPT ![p] = c]
       /\ pc' = [pc EXCEPT ![p] = IF Writes(c) THEN "Lock" ELSE "read"]
  /\ UNCHANGED <<m, muVars, got, outcome>>

\* A goroutine calls one of the registry's operations.
Begin(p) ==
  /\ pc[p] = "idle"
  /\ \E c \in Workload[p] :
       /\ call' = [call EXCEPT ![p] = c]
       /\ pc' = [pc EXCEPT ![p] = IF Writes(c) THEN "Lock" ELSE "RLock"]
  /\ UNCHANGED <<m, muVars, got, outcome>>

-----------------------------------------------------------------------------
(* Register, RegisterAs *)

\* mu.Lock: first the writer mutex, then every new reader is held back.
Lock(p) ==
  /\ Goto(p, "Lock", "drain")
  /\ holder = Nobody
  /\ holder' = p
  /\ announced' = TRUE
  /\ UNCHANGED <<m, readers, blocked, call, got, outcome>>

\* ... and then the readers already inside leave.
Drained(p) ==
  /\ Goto(p, "drain", "write")
  /\ readers = {}
  /\ UNCHANGED <<m, muVars, call, got, outcome>>

BeginWrite(p) ==
  /\ Goto(p, "write", "writing")
  /\ UNCHANGED <<m, muVars, call, got, outcome>>

OthersWriting(p) == {q \in Proc \ {p} : pc[q] = "writing"}

\* r.m[key] = s
EndWrite(p) ==
  /\ Goto(p, "writing", "Unlock")
  /\ IF OthersWriting(p) = {}
     THEN m' = [m EXCEPT ![call[p].key] = call[p].s]
     ELSE m' \in [Lang -> Stored]
  /\ UNCHANGED <<muVars, call, got, outcome>>

\* The deferred mu.Unlock lets the blocked readers in before another writer.
Unlock(p) ==
  /\ Goto(p, "Unlock", "return")
  /\ announced' = FALSE
  /\ readers' = readers \cup blocked
  /\ blocked' = {}
  /\ holder' = Nobody
  /\ outcome' = [outcome EXCEPT ![p] = "done"]
  /\ UNCHANGED <<m, call, got>>

-----------------------------------------------------------------------------
(* Get, and the operations that start with it *)

RLock(p) ==
  /\ ~announced
  /\ Goto(p, "RLock", "read")
  /\ readers' = readers \cup {p}
  /\ UNCHANGED <<m, holder, announced, blocked, call, got, outcome>>

RLockBlocks(p) ==
  /\ announced
  /\ Goto(p, "RLock", "blocked")
  /\ blocked' = blocked \cup {p}
  /\ UNCHANGED <<m, holder, announced, readers, call, got, outcome>>

RLockResumes(p) ==
  /\ p \in readers
  /\ Goto(p, "blocked", "read")
  /\ UNCHANGED <<m, muVars, call, got, outcome>>

\* r.m[lang]
Read(p) ==
  /\ Goto(p, "read", "RUnlock")
  /\ \E s \in IF OthersWriting(p) = {} THEN {m[call[p].key]} ELSE Stored :
       got' = [got EXCEPT ![p] = s]
  /\ UNCHANGED <<m, muVars, call, outcome>>

\* Fault: Get returns without releasing the read lock.
RUnlockForgotten(p) ==
  /\ pc[p] = "RUnlock"
  /\ IF call[p].op \in {"Extract", "ExtractImports"} /\ got[p] # NoStrategy
     THEN /\ pc' = [pc EXCEPT ![p] = "guard"]
          /\ UNCHANGED outcome
     ELSE /\ pc' = [pc EXCEPT ![p] = "return"]
          /\ outcome' = [outcome EXCEPT ![p] = "nil"]
  /\ UNCHANGED <<m, muVars, call, got>>

\* The deferred mu.RUnlock; then TextCapable's type assertion, or the early
\* return of Extract and ExtractImports when nothing is registered.
RUnlock(p) ==
  /\ pc[p] = "RUnlock"
  /\ readers' = readers \ {p}
  /\ IF call[p].op \in {"Extract", "ExtractImports"} /\ got[p] # NoStrategy
     THEN /\ pc' = [pc EXCEPT ![p] = "guard"]
          /\ UNCHANGED outcome
     ELSE /\ pc' = [pc EXCEPT ![p] = "return"]
          /\ outcome' = [outcome EXCEPT ![p] =
               IF call[p].op = "TextCapable"
               THEN IF got[p] \in TextStrategies THEN "true" ELSE "false"
               ELSE IF got[p] = NoStrategy THEN "nil" ELSE "result"]
  /\ UNCHANGED <<m, holder, announced, blocked, call, got>>

\* Fault: a strategy is run whatever guardDepth said.
GuardIgnored(p) ==
  /\ pc[p] = "guard"
  /\ pc' = [pc EXCEPT ![p] = "strategy"]
  /\ UNCHANGED <<m, muVars, call, got, outcome>>

\* guardDepth(tree): an error ends the call before the strategy sees the tree.
GuardTree(p) ==
  /\ pc[p] = "guard"
  /\ IF call[p].tree \in DeepTrees
     THEN /\ pc' = [pc EXCEPT ![p] = "return"]
          /\ outcome' = [outcome EXCEPT ![p] = "error"]
     ELSE /\ pc' = [pc EXCEPT ![p] = "strategy"]
          /\ UNCHANGED outcome
  /\ UNCHANGED <<m, muVars, call, got>>

\* s.Extract or s.ExtractImports, which may fail; Extract's symbols then get
\* their call columns (module CallColumns).
RunStrategy(p) ==
  /\ Goto(p, "strategy", "return")
  /\ \E r \in {"error", "result"} : outcome' = [outcome EXCEPT ![p] = r]
  /\ UNCHANGED <<m, muVars, call, got>>

Return(p) ==
  /\ Goto(p, "return", "idle")
  /\ call' = [call EXCEPT ![p] = NoCall]
  /\ got' = [got EXCEPT ![p] = NoStrategy]
  /\ outcome' = [outcome EXCEPT ![p] = "none"]
  /\ UNCHANGED <<m, muVars>>

Step(p) ==
  \/ Lock(p) \/ Drained(p) \/ BeginWrite(p) \/ EndWrite(p) \/ Unlock(p)
  \/ RLock(p) \/ RLockBlocks(p) \/ RLockResumes(p) \/ Read(p) \/ RUnlock(p)
  \/ GuardTree(p) \/ RunStrategy(p) \/ Return(p)

Next == \E p \in Proc : Begin(p) \/ Step(p)

Spec == Init /\ [][Next]_vars

\* Goroutines inside a call are scheduled; sync.Mutex is starvation-free, so
\* a writer that keeps asking for the writer mutex gets it.
FairSpec ==
  /\ Spec
  /\ \A p \in Proc : WF_vars(Step(p)) /\ SF_vars(Lock(p))

-----------------------------------------------------------------------------
Locations ==
  {"idle", "Lock", "drain", "write", "writing", "Unlock", "RLock", "blocked",
   "read", "RUnlock", "guard", "strategy", "return"}

TypeOK ==
  /\ m \in [Lang -> Stored]
  /\ holder \in Proc \cup {Nobody}
  /\ announced \in BOOLEAN
  /\ readers \subseteq Proc
  /\ blocked \subseteq Proc
  /\ pc \in [Proc -> Locations]
  /\ call \in [Proc -> Calls]
  /\ got \in [Proc -> Stored]
  /\ outcome \in [Proc -> Outcomes]

\* No goroutine touches the map while another writes it (the Registry is
\* documented thread-safe, engine.go:180): whatever mix of registrations and
\* lookups runs, mu covers every access.
RaceFree ==
  \A p, q \in Proc :
    p # q /\ pc[p] = "writing" => pc[q] \notin {"writing", "read"}

\* Every call returns: writers are not starved by a stream of lookups, nor
\* lookups by a stream of registrations.
EveryCallReturns == \A p \in Proc : pc[p] # "idle" ~> pc[p] = "idle"

\* A call has taken effect once its map access is over.
Phase(p) ==
  CASE pc[p] = "idle" -> "idle"
    [] pc[p] \in {"Lock", "drain", "write", "writing",
                  "RLock", "blocked", "read"} -> "called"
    [] OTHER -> "done"

Access(c) == [store |-> Writes(c), lang |-> c.key, value |-> c.s]

\* Each call is one atomic access to the entry it is about, between its
\* start and its return (module RegistryObject).
Atomic == INSTANCE RegistryObject WITH
  entry <- m,
  found <- got,
  arg <- [p \in Proc |-> Access(call[p])],
  phase <- [p \in Proc |-> Phase(p)]

\* A lookup that starts after a registration returned finds it or a later
\* one; no lookup ever answers with a value that was never stored there.
Linearizable == Atomic!Spec

-----------------------------------------------------------------------------
\* What mu guarantees at each location of a goroutine.
LockInv ==
  /\ \A p \in Proc : holder = p <=> pc[p] \in {"drain", "write", "writing", "Unlock"}
  /\ announced <=> holder # Nobody
  /\ \A p \in Proc : pc[p] \in {"read", "RUnlock"} => p \in readers
  /\ \A p \in Proc : pc[p] = "blocked" => p \in readers \cup blocked
  /\ \A p \in readers : pc[p] \in {"read", "RUnlock", "blocked"}
  /\ \A p \in blocked : pc[p] = "blocked"
  /\ readers \cap blocked = {}
  /\ \A p \in Proc : pc[p] \in {"write", "writing", "Unlock"} => readers = {}

\* A goroutine's location fits its operation and what it has read: in
\* particular the strategy that runs is one that was registered, and it is
\* handed no tree that the depth guard refused (engine.go:222-229).
CallInv ==
  \A p \in Proc :
    /\ pc[p] = "idle" => got[p] = NoStrategy
    /\ pc[p] \in {"Lock", "drain", "write", "writing"} => Writes(call[p])
    /\ pc[p] \in {"RLock", "blocked", "read"} => ~Writes(call[p])
    /\ pc[p] \in {"guard", "strategy"} => got[p] # NoStrategy
    /\ pc[p] = "strategy" => call[p].tree \notin DeepTrees

IInv == TypeOK /\ LockInv /\ CallInv
=============================================================================
