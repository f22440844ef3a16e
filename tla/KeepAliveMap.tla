---------------------------- MODULE KeepAliveMap ----------------------------
(***************************************************************************)
(* What a keep-alive registry of package bbtty promises to its users.      *)
(*                                                                         *)
(* Both AllSlaves (local_command.go) and AllWebTTY (webtty.go) are maps    *)
(* from a unique key to a live object, with a time of last activity per    *)
(* key and one background goroutine per registration that drops the entry  *)
(* when it has been idle for the object's keepAlive seconds.  Seen from    *)
(* outside there are no goroutines: an entry is added, touched, dropped on *)
(* request or because it expired, and it is never idle for longer than     *)
(* Window(keepAlive) + Slack seconds.                                      *)
(*                                                                         *)
(* SlaveRegistry and TtyRegistry are shown to implement this module.       *)
(***************************************************************************)
EXTENDS Integers

CONSTANTS
  Key,        \* the unique keys
  Val,        \* the registered objects
  KeepAlive,  \* the values of keepAlive, in seconds
  Slack,      \* the seconds a runnable goroutine may wait for the processor
  None        \* a nil pointer, an absent entry

VARIABLES
  entry,  \* Key -> Val or None
  idle,   \* Key -> seconds since the last activity, Absent if there is no entry
  keep    \* Val -> its keepAlive

vars == <<entry, idle, keep>>

Absent == -1

(* The worst delay of a recycler that looks once every K seconds: it just  *)
(* misses an entry that is K-1 seconds idle and comes back K seconds later.*)
Window(K) == IF K = 0 THEN 0 ELSE 2 * K - 1

Init ==
  /\ entry = [k \in Key |-> None]
  /\ idle = [k \in Key |-> Absent]
  /\ keep \in [Val -> KeepAlive]

(* The object is built with its keepAlive before it is registered.         *)
Configure(v, K) ==
  /\ \A k \in Key : entry[k] # v
  /\ keep' = [keep EXCEPT ![v] = K]
  /\ UNCHANGED <<entry, idle>>

(* Built and registered in one step.  A key that has an entry keeps it.    *)
Add(k, v, K) ==
  /\ entry[k] = None
  /\ \A kk \in Key : entry[kk] # v
  /\ entry' = [entry EXCEPT ![k] = v]
  /\ idle' = [idle EXCEPT ![k] = 0]
  /\ keep' = [keep EXCEPT ![v] = K]

Touch(k) ==
  /\ entry[k] # None
  /\ idle' = [idle EXCEPT ![k] = 0]
  /\ UNCHANGED <<entry, keep>>

Drop(k) ==
  /\ entry[k] # None
  /\ entry' = [entry EXCEPT ![k] = None]
  /\ idle' = [idle EXCEPT ![k] = Absent]
  /\ UNCHANGED keep

(* A second passes; it may not carry an entry past its time.               *)
Tick ==
  /\ \A k \in Key : entry[k] # None => idle[k] < Window(keep[entry[k]]) + Slack
  /\ idle' = [k \in Key |-> IF entry[k] = None THEN Absent ELSE idle[k] + 1]
  /\ UNCHANGED <<entry, keep>>

Next ==
  \/ \E v \in Val, K \in KeepAlive : Configure(v, K)
  \/ \E k \in Key, v \in Val, K \in KeepAlive : Add(k, v, K)
  \/ \E k \in Key : Touch(k) \/ Drop(k)
  \/ Tick

Spec == Init /\ [][Next]_vars
=============================================================================
