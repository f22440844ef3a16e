---------------------------- MODULE EtcdServices ----------------------------
(***************************************************************************)
(* Service registration and discovery over etcd, src/bbetcd.               *)
(*                                                                         *)
(* A service instance puts its key under a lease and keeps the lease alive *)
(* (registry.go).  A client reads the keys it is interested in, then       *)
(* watches them and applies what changes to its serverList (discovery.go). *)
(*                                                                         *)
(* etcd is external: its history is a log of events, whose length is the   *)
(* store's revision; a key's value is the revision of its last put, or 0.  *)
(* A lease that ends deletes the keys attached to it.  A watch without a   *)
(* revision sees the events after the one etcd starts it at.               *)
(***************************************************************************)
EXTENDS Integers, Sequences, FiniteSets

CONSTANTS
  Service,    \* service instances: name, host and port, one key each
  Watcher,    \* the call of NewClientService, with its watch
  MaxLeases   \* bound: the registrations of an instance

ASSUME LeaseAssumption == MaxLeases \in Nat

(* setServiceList and deleteServiceList write the map under the read lock: *)
(* with a second watcher its writes race.  One writes alone.               *)
ASSUME WatcherAssumption == IsFiniteSet(Watcher) /\ Cardinality(Watcher) = 1

VARIABLES
  log,       \* the events of the store: [key, put]
  kv,        \* the revision of each key's value, 0 if it has none
  owner,     \* the lease of its instance a key is attached to, 0 if none
  live,      \* the leases of each instance that have not ended
  alive,     \* whether the instance's process runs
  register,  \* the progress of the instance's Register
  lease,     \* bbServiceRegistry.leaseID, numbered per instance
  kept,      \* the leases that have a goroutine ranging over their channel
  list,      \* bbServiceDiscovery.serverList
  watcher    \* the progress of each NewClientService and its watcher

store == <<log, kv, owner, live>>
registry == <<alive, register, lease, kept>>
discovery == <<list, watcher>>
vars == <<store, registry, discovery>>

NoWatcher == [pc |-> "none", todo |-> [s \in Service |-> 0], read |-> 0, from |-> 0, pos |-> 0]

Init ==
  /\ log = <<>>
  /\ kv = [s \in Service |-> 0] /\ owner = [s \in Service |-> 0]
  /\ live = [s \in Service |-> {}]
  /\ alive = [s \in Service |-> TRUE]
  /\ register = [s \in Service |-> "none"]
  /\ lease = [s \in Service |-> 0]
  /\ kept = [s \in Service |-> {}]
  /\ list = [s \in Service |-> 0]
  /\ watcher = [w \in Watcher |-> NoWatcher]

-----------------------------------------------------------------------------
(* etcd.                                                                   *)

Revision == Len(log)

PutKey(s, n) ==
  /\ log' = Append(log, [key |-> s, put |-> TRUE])
  /\ kv' = [kv EXCEPT ![s] = Revision + 1]
  /\ owner' = [owner EXCEPT ![s] = n]
  /\ UNCHANGED live

EndLease(s, n) ==
  /\ live' = [live EXCEPT ![s] = @ \ {n}]
  /\ IF owner[s] = n
     THEN /\ log' = Append(log, [key |-> s, put |-> FALSE])
          /\ kv' = [kv EXCEPT ![s] = 0]
          /\ owner' = [owner EXCEPT ![s] = 0]
     ELSE UNCHANGED <<log, kv, owner>>

(* After 15 seconds without a renewal that etcd has seen: the process is   *)
(* gone, Register has not come to KeepAlive, or the network is down.       *)
Expire(s, n) ==
  /\ n \in live[s]
  /\ EndLease(s, n)
  /\ UNCHANGED <<registry, discovery>>

-----------------------------------------------------------------------------
(* registry.go: Register is three calls of etcd.                           *)

Grant(s) ==
  /\ alive[s] /\ register[s] \in {"none", "up"}
  /\ lease[s] < MaxLeases
  /\ lease' = [lease EXCEPT ![s] = @ + 1]
  /\ live' = [live EXCEPT ![s] = @ \cup {lease[s] + 1}]
  /\ register' = [register EXCEPT ![s] = "put"]
  /\ UNCHANGED <<log, kv, owner, alive, kept, discovery>>

(* Mutant: the key is put without a lease.                                 *)
BugNoLease(s) ==
  /\ alive[s] /\ register[s] = "put"
  /\ PutKey(s, 0)
  /\ register' = [register EXCEPT ![s] = "keepalive"]
  /\ UNCHANGED <<alive, lease, kept, discovery>>

(* An answer that is lost is an error to Register, though the key is set.  *)
Put(s) ==
  /\ alive[s] /\ register[s] = "put"
  /\ lease[s] \in live[s]
  /\ PutKey(s, lease[s])
  /\ \E next \in {"keepalive", "none"} : register' = [register EXCEPT ![s] = next]
  /\ UNCHANGED <<alive, lease, kept, discovery>>

KeepAlive(s) ==
  /\ alive[s] /\ register[s] = "keepalive"
  /\ kept' = [kept EXCEPT ![s] = @ \cup {lease[s]}]
  /\ register' = [register EXCEPT ![s] = "up"]
  /\ UNCHANGED <<store, alive, lease, discovery>>

(* Put, always when its lease has ended, or KeepAlive returns an error     *)
(* without having had an effect: Register returns it and undoes nothing.   *)
CallFails(s) ==
  /\ alive[s] /\ register[s] \in {"put", "keepalive"}
  /\ register' = [register EXCEPT ![s] = "none"]
  /\ UNCHANGED <<store, alive, lease, kept, discovery>>

(* etcd's client closes the channel of a lease that has ended.  The range  *)
(* ends with it; ka is never nil, so the functions are not called.         *)
KeepAliveEnds(s, n) ==
  /\ alive[s]
  /\ n \in kept[s] \ live[s]
  /\ kept' = [kept EXCEPT ![s] = @ \ {n}]
  /\ UNCHANGED <<store, alive, register, lease, discovery>>

(* Called between two Registers, whether the last one failed or not.       *)
Revoke(s) ==
  /\ alive[s] /\ register[s] \in {"none", "up"}
  /\ lease[s] \in live[s]
  /\ EndLease(s, lease[s])
  /\ UNCHANGED <<registry, discovery>>

Crash(s) ==
  /\ alive[s]
  /\ alive' = [alive EXCEPT ![s] = FALSE]
  /\ kept' = [kept EXCEPT ![s] = {}]
  /\ UNCHANGED <<store, register, lease, discovery>>

-----------------------------------------------------------------------------
(* discovery.go.                                                           *)

(* watchService: Get, and the keys found to be set.                        *)
Get(w) ==
  /\ watcher[w].pc = "none"
  /\ watcher' = [watcher EXCEPT ![w] =
                   [pc |-> "fill", todo |-> kv, read |-> Revision, from |-> 0, pos |-> 0]]
  /\ UNCHANGED <<store, registry, list>>

(* Mutant: a delete is ignored.                                            *)
BugIgnored(s) == UNCHANGED list

setServiceList(s, rev) == list' = [list EXCEPT ![s] = rev]

deleteServiceList(s) == list' = [list EXCEPT ![s] = 0]

Fill(w, s) ==
  /\ watcher[w].pc = "fill" /\ watcher[w].todo[s] # 0
  /\ setServiceList(s, watcher[w].todo[s])
  /\ watcher' = [watcher EXCEPT ![w].todo[s] = 0]
  /\ UNCHANGED <<store, registry>>

(* The goroutine of the watcher asks etcd for the watch; it begins with    *)
(* the store's revision at that time.                                      *)
Watch(w) ==
  /\ watcher[w].pc = "fill"
  /\ \A s \in Service : watcher[w].todo[s] = 0
  /\ watcher' = [watcher EXCEPT ![w] =
                   [pc |-> "watch", todo |-> @.todo, read |-> @.read,
                    from |-> Revision, pos |-> Revision]]
  /\ UNCHANGED <<store, registry, list>>

Event(w) ==
  LET next == watcher[w].pos + 1 IN
  /\ watcher[w].pc = "watch"
  /\ next <= Revision
  /\ IF log[next].put THEN setServiceList(log[next].key, next)
     ELSE deleteServiceList(log[next].key)
  /\ watcher' = [watcher EXCEPT ![w].pos = next]
  /\ UNCHANGED <<store, registry>>

(* The watch is canceled by etcd, or the client is closed.                 *)
WatchEnds(w) ==
  /\ watcher[w].pc = "watch"
  /\ watcher' = [watcher EXCEPT ![w].pc = "ended"]
  /\ UNCHANGED <<store, registry, list>>

-----------------------------------------------------------------------------
Registering(s) ==
  \/ Put(s) \/ KeepAlive(s) \/ CallFails(s)
  \/ \E n \in 1..MaxLeases : KeepAliveEnds(s, n)

Discovering(w) == Get(w) \/ (\E s \in Service : Fill(w, s)) \/ Watch(w) \/ Event(w)

Next ==
  \/ \E s \in Service : \/ Grant(s) \/ Registering(s) \/ Revoke(s) \/ Crash(s)
                        \/ \E n \in 1..MaxLeases : Expire(s, n)
  \/ \E w \in Watcher : Discovering(w) \/ WatchEnds(w)

Spec == Init /\ [][Next]_vars

(* Calls of etcd are answered and events arrive; instances need not start, *)
(* and a lease without renewal ends.                                       *)
Fairness ==
  /\ \A s \in Service : WF_vars(Registering(s))
  /\ \A s \in Service, n \in 1..MaxLeases : WF_vars(Expire(s, n) /\ ~alive[s])
  /\ \A w \in Watcher : WF_vars(Discovering(w))

FairSpec == Spec /\ Fairness

-----------------------------------------------------------------------------
(* Properties.                                                             *)

TypeOK ==
  /\ \A s \in Service :
       /\ kv[s] \in 0..Revision /\ list[s] \in 0..Revision
       /\ owner[s] \in 0..MaxLeases /\ lease[s] \in 0..MaxLeases
       /\ live[s] \subseteq 1..MaxLeases /\ kept[s] \subseteq 1..MaxLeases
       /\ register[s] \in {"none", "put", "keepalive", "up"}
  /\ \A w \in Watcher : watcher[w].pc \in {"none", "fill", "watch", "ended"}

(* A key is in the store only under a lease that has not ended, so that an *)
(* instance that crashes between two calls of Register leaves none behind. *)
KeyHasLease == \A s \in Service : kv[s] # 0 => owner[s] \in live[s]

Touched(s, from, to) == \E r \in (from + 1)..to : log[r].key = s

(* The value of a key at a revision.                                       *)
ValueAt(s, rev) ==
  LET revs == {r \in 1..rev : log[r].key = s}
      last == CHOOSE r \in revs : \A q \in revs : q <= r
  IN  IF revs = {} \/ ~log[last].put THEN 0 ELSE last

(* The only watcher of a client keeps its list at the store's state of the *)
(* revision it has come to, for every key that did not change between the  *)
(* Get and the start of the watch, or did change later.                    *)
ListFollows ==
  \A w \in Watcher : watcher[w].pc = "watch" =>
    \A s \in Service :
      LET v == watcher[w] IN
      (Touched(s, v.read, v.from) => Touched(s, v.from, v.pos))
        => list[s] = ValueAt(s, v.pos)

Safe == TypeOK /\ ListFollows

(* A client whose watch lasts drops an instance that goes away: no key     *)
(* that changes after the watch has begun stays stale for ever.            *)
EventuallyCurrent ==
  \A w \in Watcher :
    <>[](watcher[w].pc = "watch" =>
           \A s \in Service : Touched(s, watcher[w].from, Revision) => list[s] = kv[s])

(* An instance that crashes disappears from the store.                     *)
CrashedGoAway == \A s \in Service : [](~alive[s] => <>(kv[s] = 0))

=============================================================================
