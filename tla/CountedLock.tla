----------------------------- MODULE CountedLock -----------------------------
(***************************************************************************)
(* CountedLock of src/bbtty/guac/counted_lock.go: a mutex with a counter   *)
(* beside it, which SimpleTunnel (tunnel_pipe.go) keeps for the readers    *)
(* and for the writers of a tunnel.  Lock and Unlock touch the counter and *)
(* the mutex in two steps, and HasQueued reads the counter alone.          *)
(***************************************************************************)
EXTENDS Integers, FiniteSets

CONSTANT Goroutine  \* the goroutines that acquire the reader, or the writer

ASSUME GoroutineAssumption == IsFiniteSet(Goroutine)

VARIABLES
  numLocks,  \* CountedLock.numLocks
  core,      \* the goroutines that hold CountedLock.core
  pc         \* where each goroutine is in Lock and Unlock

vars == <<numLocks, core, pc>>

Init ==
  /\ numLocks = 0
  /\ core = {}
  /\ pc = [g \in Goroutine |-> "out"]

Goto(g, l) == pc' = [pc EXCEPT ![g] = l]

(* Mutants: Unlock does not count; it never lets go.                       *)
BugNoCount(g) ==
  /\ pc[g] = "holds"
  /\ Goto(g, "unlocks")
  /\ UNCHANGED <<numLocks, core>>

BugKeep(g) == pc[g] = "unlocks" /\ UNCHANGED vars

(* Lock: the counter, then the mutex, for which the goroutine may wait.    *)
Lock(g) ==
  /\ pc[g] = "out"
  /\ numLocks' = numLocks + 1
  /\ Goto(g, "waits")
  /\ UNCHANGED core

LockCore(g) ==
  /\ pc[g] = "waits" /\ core = {}
  /\ core' = {g}
  /\ Goto(g, "holds")
  /\ UNCHANGED numLocks

(* Unlock: the counter, then the mutex.                                    *)
Unlock(g) ==
  /\ pc[g] = "holds"
  /\ numLocks' = numLocks - 1
  /\ Goto(g, "unlocks")
  /\ UNCHANGED core

UnlockCore(g) ==
  /\ pc[g] = "unlocks"
  /\ core' = core \ {g}
  /\ Goto(g, "out")
  /\ UNCHANGED numLocks

HasQueued == numLocks > 1

Next == \E g \in Goroutine : Lock(g) \/ LockCore(g) \/ Unlock(g) \/ UnlockCore(g)

Spec == Init /\ [][Next]_vars

(* A goroutine in Unlock goes on, one that holds the lock releases it, and *)
(* sync.Mutex hands itself to one that has waited for a millisecond, so    *)
(* that none of them is passed over for ever.                              *)
Fairness ==
  \A g \in Goroutine :
    SF_vars(LockCore(g)) /\ WF_vars(Unlock(g)) /\ WF_vars(UnlockCore(g))

FairSpec == Spec /\ Fairness

-----------------------------------------------------------------------------
(* Properties.                                                             *)

Inside == {g \in Goroutine : pc[g] \in {"waits", "holds"}}

TypeOK ==
  /\ numLocks \in Nat
  /\ core \in SUBSET Goroutine
  /\ pc \in [Goroutine -> {"out", "waits", "holds", "unlocks"}]

(* The reader, or the writer, is acquired by one goroutine at a time, up   *)
(* to the end of its Unlock.                                               *)
OneHolder == core = {g \in Goroutine : pc[g] \in {"holds", "unlocks"}} /\ Cardinality(core) <= 1

(* No increment and no decrement is lost: the counter is the number of     *)
(* goroutines that are between the start of Lock and the start of Unlock.  *)
CountIsExact == numLocks = Cardinality(Inside)

(* HasQueued is never a false alarm: when it is true, some goroutine waits *)
(* and does not hold the lock.                                             *)
QueuedWaits == HasQueued => \E g \in Goroutine : pc[g] = "waits"

(* All of it.                                                              *)
LockInv == TypeOK /\ OneHolder /\ CountIsExact /\ QueuedWaits

(* Every goroutine that calls Lock gets the lock.                          *)
WaiterServed == \A g \in Goroutine : pc[g] = "waits" ~> pc[g] = "holds"

=============================================================================
