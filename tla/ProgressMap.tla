---------------------------- MODULE ProgressMap -----------------------------
(***************************************************************************)
(* SafeMap, src/utils/safe_map/safe_map.go: the progress of a task, a      *)
(* slice of three counters (total, success, fail) in a map.  The methods   *)
(* that add and CheckFinish hold the mutex; Store, Delete, Reset and       *)
(* GetCutProcess do not, so that they come between any two steps of the    *)
(* others.  The map holds references to slices: an Add changes the slice   *)
(* it has loaded in place and stores its reference again.  One key.        *)
(***************************************************************************)
EXTENDS Integers, Sequences

CONSTANTS
  Worker,    \* goroutines that report progress
  MaxCells,  \* bound: the slices made by Reset and Store
  MaxCount   \* bound: the counters

Field == 1..3
NoCell == 0

VARIABLES
  entry,   \* the slice the map holds for the key, or NoCell
  cells,   \* the slices made so far
  added,   \* per slice, what the calls that returned nil have added
  mux,     \* whether the mutex is held
  worker   \* where each call is: pc, the slice, the field, the value read

shared == <<entry, cells, added, mux>>
mapVars == <<shared, worker>>

Call(pc, cell, f, v) == [pc |-> pc, cell |-> cell, field |-> f, v |-> v]
NoCall == Call("out", NoCell, 1, 0)

Init ==
  /\ entry = NoCell /\ cells = <<>> /\ added = <<>> /\ mux = FALSE
  /\ worker = [w \in Worker |-> NoCall]

-----------------------------------------------------------------------------
(* The calls without the mutex.                                            *)

(* Reset, and Store or LoadOrStore of a new slice.                         *)
Reset ==
  /\ Len(cells) < MaxCells
  /\ cells' = Append(cells, <<0, 0, 0>>) /\ added' = Append(added, <<0, 0, 0>>)
  /\ entry' = Len(cells) + 1
  /\ UNCHANGED <<mux, worker>>

Delete ==
  /\ entry # NoCell
  /\ entry' = NoCell
  /\ UNCHANGED <<cells, added, mux, worker>>

-----------------------------------------------------------------------------
(* AddTotalSyncMap, AddSuccessSyncMap, AddFailSyncMap and CheckFinish.     *)

At(w, pc) == worker[w].pc = pc
Goes(w, call) == worker' = [worker EXCEPT ![w] = call]

(* Mutant: the mutex is not waited for.                                    *)
BugNoLock(w) ==
  /\ At(w, "out")
  /\ mux' = TRUE
  /\ \E f \in Field : Goes(w, Call("load", NoCell, f, 0))
  /\ UNCHANGED <<entry, cells, added>>

Lock(w) ==
  /\ At(w, "out") /\ ~mux
  /\ mux' = TRUE
  /\ \E f \in Field : Goes(w, Call("load", NoCell, f, 0))
  /\ UNCHANGED <<entry, cells, added>>

(* Load tries three times; v counts the tries.                             *)
Load(w) ==
  /\ At(w, "load")
  /\ \/ entry # NoCell /\ Goes(w, Call("read", entry, worker[w].field, 0))
     \/ /\ entry = NoCell
        /\ Goes(w, IF worker[w].v = 2 THEN Call("unlock", NoCell, 1, 0)
                   ELSE [worker[w] EXCEPT !.v = @ + 1])
  /\ UNCHANGED shared

(* CheckFinish reads the three counters and returns; an Add goes on.       *)
Read(w) ==
  /\ At(w, "read")
  /\ LET call == worker[w]  cell == cells[call.cell] IN
     \/ Goes(w, Call("unlock", NoCell, 1, 0))
     \/ /\ cell[call.field] < MaxCount
        /\ Goes(w, [call EXCEPT !.pc = "write", !.v = cell[call.field]])
  /\ UNCHANGED shared

Write(w) ==
  /\ At(w, "write")
  /\ LET call == worker[w] IN
     /\ cells' = [cells EXCEPT ![call.cell][call.field] = call.v + 1]
     /\ Goes(w, [call EXCEPT !.pc = "store"])
  /\ UNCHANGED <<entry, added, mux>>

(* What was reset or deleted since the Load comes back.                    *)
Store(w) ==
  /\ At(w, "store")
  /\ LET call == worker[w] IN
     /\ entry' = call.cell
     /\ added' = [added EXCEPT ![call.cell][call.field] = @ + 1]
  /\ Goes(w, Call("unlock", NoCell, 1, 0))
  /\ UNCHANGED <<cells, mux>>

(* The deferred Unlock.                                                    *)
Unlock(w) ==
  /\ At(w, "unlock")
  /\ mux' = FALSE
  /\ Goes(w, NoCall)
  /\ UNCHANGED <<entry, cells, added>>

InCall(w) == Load(w) \/ Read(w) \/ Write(w) \/ Store(w) \/ Unlock(w)

Next == Reset \/ Delete \/ \E w \in Worker : Lock(w) \/ InCall(w)

Spec == Init /\ [][Next]_mapVars

-----------------------------------------------------------------------------
(* Properties.                                                             *)

(* The number of calls that have changed the slice and not returned.       *)
UnderWay(cell, f) ==
  IF \E w \in Worker : At(w, "store") /\ worker[w].cell = cell /\ worker[w].field = f
  THEN 1 ELSE 0

(* No report is lost: every counter of every slice is the number of calls  *)
(* that have added to it, whatever is reset or deleted meanwhile.          *)
CountsKept ==
  /\ entry \in 0..Len(cells) /\ mux \in BOOLEAN
  /\ \A cell \in DOMAIN cells : \A f \in Field :
       cells[cell][f] = added[cell][f] + UnderWay(cell, f)
=============================================================================
