-------------------------- MODULE EtcdServicesProofs --------------------------
(***************************************************************************)
(* Proofs about EtcdServices, for any services, any number of leases and   *)
(* any behaviour of etcd's clocks.                                         *)
(***************************************************************************)
EXTENDS EtcdServices, FiniteSetTheorems, TLAPS

(* The inductive invariant: KeyHasLease on a store of the right types.     *)
StoreOK ==
  /\ kv \in [Service -> Nat]
  /\ owner \in [Service -> Int]
  /\ live \in [Service -> SUBSET Int]
  /\ lease \in [Service -> Int]
  /\ log \in Seq([key : Service, put : BOOLEAN])

IInv == StoreOK /\ KeyHasLease

(* The store is empty at first.                                            *)
LEMMA InitInv == Init => IInv
BY DEF Init, IInv, StoreOK, KeyHasLease

(* A key that is put under a lease that has not ended has a lease.         *)
LEMMA PutInv ==
  ASSUME IInv, NEW s \in Service, Put(s)
  PROVE  IInv'
<1>1. Revision \in Nat
  BY DEF IInv, StoreOK, Revision
<1>2. StoreOK'
  BY <1>1 DEF IInv, StoreOK, Put, PutKey
<1>3. KeyHasLease'
  BY DEF IInv, StoreOK, KeyHasLease, Put, PutKey
<1> QED
  BY <1>2, <1>3 DEF IInv

(* The end of a lease takes the key attached to it away, and leaves a key  *)
(* that has been put under a later lease alone.                            *)
LEMMA EndLeaseInv ==
  ASSUME IInv, NEW s \in Service, NEW n, EndLease(s, n), UNCHANGED lease
  PROVE  IInv'
<1>1. live' \in [Service -> SUBSET Int] /\ lease' \in [Service -> Int]
  BY DEF IInv, StoreOK, EndLease
<1>2. CASE owner[s] = n
  <2>1. /\ live' = [live EXCEPT ![s] = @ \ {n}]
        /\ log' = Append(log, [key |-> s, put |-> FALSE])
        /\ kv' = [kv EXCEPT ![s] = 0]
        /\ owner' = [owner EXCEPT ![s] = 0]
    BY <1>2, Zenon DEF EndLease
  <2>2. kv' \in [Service -> Nat] /\ owner' \in [Service -> Int]
    BY <2>1 DEF IInv, StoreOK
  <2>3. [key |-> s, put |-> FALSE] \in [key : Service, put : BOOLEAN]
    OBVIOUS
  <2>4. log' \in Seq([key : Service, put : BOOLEAN])
    BY <2>1, <2>3 DEF IInv, StoreOK
  <2>5. KeyHasLease'
    BY <2>1 DEF IInv, StoreOK, KeyHasLease
  <2> QED
    BY <1>1, <2>2, <2>4, <2>5 DEF IInv, StoreOK
<1>3. CASE owner[s] # n
  <2>1. live' = [live EXCEPT ![s] = @ \ {n}] /\ UNCHANGED <<log, kv, owner>>
    BY <1>3, Zenon DEF EndLease
  <2>2. KeyHasLease'
    BY <1>3, <2>1 DEF IInv, StoreOK, KeyHasLease
  <2> QED
    BY <1>1, <2>1, <2>2 DEF IInv, StoreOK
<1> QED
  BY <1>2, <1>3

(* A new lease takes none away.                                            *)
LEMMA GrantInv ==
  ASSUME IInv, NEW s \in Service, Grant(s)
  PROVE  IInv'
<1>1. StoreOK'
  BY DEF IInv, StoreOK, Grant
<1>2. KeyHasLease'
  BY DEF IInv, StoreOK, KeyHasLease, Grant
<1> QED
  BY <1>1, <1>2 DEF IInv

(* Every step keeps the invariant.                                         *)
LEMMA NextInv == IInv /\ [Next]_vars => IInv'
<1> SUFFICES ASSUME IInv, [Next]_vars PROVE IInv'
  OBVIOUS
<1>1. ASSUME UNCHANGED <<store, lease>> PROVE IInv'
  BY <1>1 DEF IInv, StoreOK, KeyHasLease, store
<1>2. CASE UNCHANGED vars
  BY <1>1, <1>2 DEF vars, registry
<1>3. ASSUME NEW s \in Service, Grant(s) PROVE IInv'
  BY <1>3, GrantInv
<1>4. ASSUME NEW s \in Service, Registering(s) PROVE IInv'
  <2>1. CASE Put(s)
    BY <2>1, PutInv
  <2>2. CASE KeepAlive(s)
    BY <1>1, <2>2 DEF KeepAlive
  <2>3. CASE CallFails(s)
    BY <1>1, <2>3 DEF CallFails
  <2>4. ASSUME NEW n \in 1..MaxLeases, KeepAliveEnds(s, n) PROVE IInv'
    BY <1>1, <2>4 DEF KeepAliveEnds
  <2> QED
    BY <1>4, <2>1, <2>2, <2>3, <2>4 DEF Registering
<1>5. ASSUME NEW s \in Service, Revoke(s) PROVE IInv'
  BY <1>5, EndLeaseInv DEF Revoke, registry
<1>6. ASSUME NEW s \in Service, Crash(s) PROVE IInv'
  BY <1>1, <1>6 DEF Crash
<1>7. ASSUME NEW s \in Service, NEW n \in 1..MaxLeases, Expire(s, n) PROVE IInv'
  BY <1>7, EndLeaseInv DEF Expire, registry
<1>8. ASSUME NEW w \in Watcher, Discovering(w) \/ WatchEnds(w) PROVE IInv'
  <2>1. UNCHANGED <<store, registry>>
    BY <1>8 DEF Discovering, Get, Fill, Watch, Event, WatchEnds
  <2> QED
    BY <1>1, <2>1 DEF registry
<1> QED
  BY <1>2, <1>3, <1>4, <1>5, <1>6, <1>7, <1>8 DEF Next

(* Wherever instances crash or leases run out, a key in the store is       *)
(* attached to a lease that has not ended.                                 *)
THEOREM KeysHaveLeases == Spec => []KeyHasLease
<1>1. IInv => KeyHasLease
  BY DEF IInv
<1> QED
  BY <1>1, InitInv, NextInv, PTL DEF Spec

-----------------------------------------------------------------------------
(* The history of the store.  ValueIn is ValueAt on a log that is given,   *)
(* so that it can be compared on the logs before and after a step.         *)

Revs(l, s, rev) == {r \in 1..rev : l[r].key = s}

LastIn(revs) == CHOOSE r \in revs : \A q \in revs : q <= r

HasLast(revs) == revs = {} \/ \E r \in revs : \A q \in revs : q <= r

ValueIn(l, s, rev) ==
  IF Revs(l, s, rev) = {} \/ ~l[LastIn(Revs(l, s, rev))].put THEN 0
  ELSE LastIn(Revs(l, s, rev))

Logs == Seq([key : Service, put : BOOLEAN])

(* The inductive invariant of the watches, beside IInv: a key's revisions  *)
(* have a last one, the store's values are those of its log, and ...       *)
HistoryOK ==
  /\ \A s \in Service : \A rev \in 0..Revision : HasLast(Revs(log, s, rev))
  /\ \A s \in Service : kv[s] = ValueIn(log, s, Revision)

(* ... the list of the only watcher is empty until the Get, agrees with    *)
(* the revision of the Get on the keys that are set, and follows the log   *)
(* from there.                                                             *)
Follows(v, s) ==
  CASE v.pc = "none" -> list[s] = 0
    [] v.pc = "fill" -> IF v.todo[s] = 0 THEN list[s] = ValueIn(log, s, v.read)
                        ELSE v.todo[s] = ValueIn(log, s, v.read)
    [] v.pc = "watch" -> (Touched(s, v.read, v.from) => Touched(s, v.from, v.pos))
                            => list[s] = ValueIn(log, s, v.pos)
    [] OTHER -> TRUE

Place(v) ==
  CASE v.pc = "none" -> TRUE
    [] v.pc = "fill" -> v.read <= Revision
    [] v.pc = "watch" -> v.read <= v.from /\ v.from <= v.pos /\ v.pos <= Revision
    [] OTHER -> TRUE

Watchers == [pc : {"none", "fill", "watch", "ended"}, todo : [Service -> Nat], read : Nat,
             from : Nat, pos : Nat]

WatchOK ==
  /\ watcher \in [Watcher -> Watchers] /\ list \in [Service -> Nat]
  /\ \A w \in Watcher : Place(watcher[w]) /\ \A s \in Service : Follows(watcher[w], s)

(* What TypeOK says of revisions and leases: none is beyond its bound.     *)
BoundsOK ==
  /\ \A s \in Service : list[s] <= Revision
  /\ \A w \in Watcher : \A s \in Service : watcher[w].todo[s] <= Revision

LeasesOK ==
  /\ owner \in [Service -> 0..MaxLeases] /\ lease \in [Service -> 0..MaxLeases]
  /\ live \in [Service -> SUBSET (1..MaxLeases)] /\ kept \in [Service -> SUBSET (1..MaxLeases)]
  /\ register \in [Service -> {"none", "put", "keepalive", "up"}]
  /\ \A s \in Service : register[s] # "none" => lease[s] # 0

EtcdInv == IInv /\ HistoryOK /\ WatchOK /\ BoundsOK /\ LeasesOK

(* An event added to the log leaves the revisions before it as they are.   *)
LEMMA RevsStay ==
  ASSUME NEW l \in Logs, NEW e, NEW s, NEW rev \in 0..Len(l)
  PROVE  Revs(Append(l, e), s, rev) = Revs(l, s, rev)
<1>1. ASSUME NEW r \in 1..rev PROVE Append(l, e)[r] = l[r]
  BY DEF Logs
<1> QED
  BY <1>1 DEF Revs

LEMMA LastInRevs ==
  ASSUME NEW revs, HasLast(revs), revs # {}
  PROVE  LastIn(revs) \in revs /\ \A q \in revs : q <= LastIn(revs)
BY DEF HasLast, LastIn

LEMMA ValueStays ==
  ASSUME NEW l \in Logs, NEW e, NEW s, NEW rev \in 0..Len(l), HasLast(Revs(l, s, rev))
  PROVE  ValueIn(Append(l, e), s, rev) = ValueIn(l, s, rev)
<1> DEFINE revs == Revs(l, s, rev)
           last == LastIn(revs)
<1>1. Revs(Append(l, e), s, rev) = revs
  BY RevsStay
<1>2. CASE revs = {}
  BY <1>1, <1>2 DEF ValueIn
<1>3. CASE revs # {}
  <2>1. last \in 1..rev
    BY <1>3, LastInRevs DEF Revs
  <2>2. Append(l, e)[last] = l[last]
    <3> HIDE DEF last
    <3> QED
      BY <2>1 DEF Logs
  <2> QED
    BY <1>1, <2>2 DEF ValueIn
<1> QED
  BY <1>2, <1>3

(* The value of a key at the next revision: the event's, if it is about    *)
(* the key.                                                                *)
LEMMA RevsNext ==
  ASSUME NEW l, NEW s, NEW rev \in Nat
  PROVE  Revs(l, s, rev + 1) =
           IF l[rev + 1].key = s THEN Revs(l, s, rev) \cup {rev + 1} ELSE Revs(l, s, rev)
BY DEF Revs

LEMMA LastNext ==
  ASSUME NEW l, NEW s, NEW rev \in Nat, l[rev + 1].key = s
  PROVE  /\ LastIn(Revs(l, s, rev + 1)) = rev + 1
         /\ HasLast(Revs(l, s, rev + 1))
<1> DEFINE revs == Revs(l, s, rev + 1)
<1>1. rev + 1 \in revs /\ revs \subseteq 1..(rev + 1)
  BY DEF Revs
<1>2. \A r \in revs : (\A q \in revs : q <= r) <=> r = rev + 1
  <2> HIDE DEF revs
  <2> QED
    BY <1>1
<1> HIDE DEF revs
<1>3. LastIn(revs) = rev + 1
  BY <1>1, <1>2 DEF LastIn
<1>4. HasLast(revs)
  BY <1>1, <1>2 DEF HasLast
<1> QED
  BY <1>3, <1>4 DEF revs

LEMMA ValueNext ==
  ASSUME NEW l, NEW s, NEW rev \in Nat
  PROVE  ValueIn(l, s, rev + 1) =
           IF l[rev + 1].key = s THEN (IF l[rev + 1].put THEN rev + 1 ELSE 0)
           ELSE ValueIn(l, s, rev)
<1>1. CASE l[rev + 1].key = s
  <2>1. rev + 1 \in Revs(l, s, rev + 1)
    BY <1>1 DEF Revs
  <2>2. LastIn(Revs(l, s, rev + 1)) = rev + 1
    BY <1>1, LastNext
  <2> QED
    BY <1>1, <2>1, <2>2 DEF ValueIn
<1>2. CASE l[rev + 1].key # s
  <2>1. Revs(l, s, rev + 1) = Revs(l, s, rev)
    BY <1>2, RevsNext
  <2> QED
    BY <1>2, <2>1 DEF ValueIn
<1> QED
  BY <1>1, <1>2

(* A key keeps its value over revisions that do not touch it.              *)
LEMMA ValueKept ==
  ASSUME NEW l, NEW s, NEW a \in Nat, NEW b \in Nat, a <= b,
         \A r \in (a + 1)..b : l[r].key # s
  PROVE  ValueIn(l, s, b) = ValueIn(l, s, a)
<1>1. Revs(l, s, b) = Revs(l, s, a)
  BY DEF Revs
<1> QED
  BY <1>1 DEF ValueIn

LEMMA ValueBound ==
  ASSUME NEW l, NEW s, NEW rev \in Nat, HasLast(Revs(l, s, rev))
  PROVE  ValueIn(l, s, rev) \in 0..rev
<1>1. CASE Revs(l, s, rev) = {}
  BY <1>1 DEF ValueIn
<1>2. CASE Revs(l, s, rev) # {}
  <2>1. LastIn(Revs(l, s, rev)) \in 1..rev
    BY <1>2, LastInRevs DEF Revs
  <2> QED
    BY <2>1 DEF ValueIn
<1> QED
  BY <1>1, <1>2

(* The store's values are those of its log.                                *)
LEMMA ValuesAgree ==
  ASSUME NEW s, NEW rev
  PROVE  ValueAt(s, rev) = ValueIn(log, s, rev)
BY DEF ValueAt, ValueIn, Revs, LastIn

-----------------------------------------------------------------------------
(* The steps of the store.  Each adds an event and gives the key its value.*)

Records(k, put) ==
  /\ log' = Append(log, [key |-> k, put |-> put])
  /\ kv' = [kv EXCEPT ![k] = IF put THEN Revision + 1 ELSE 0]

LEMMA HistoryGrows ==
  ASSUME log \in Logs, kv \in [Service -> Nat], HistoryOK,
         NEW k \in Service, NEW put \in BOOLEAN,
         Records(k, put)
  PROVE  /\ Revision \in Nat /\ Revision' = Revision + 1
         /\ HistoryOK'
         /\ \A s \in Service : \A rev \in 0..Revision :
              ValueIn(log', s, rev) = ValueIn(log, s, rev)
<1>1. /\ Revision \in Nat /\ Revision' = Revision + 1
      /\ log'[Revision + 1].key = k /\ log'[Revision + 1].put = put
  BY DEF Logs, Revision, Records
<1>2. ASSUME NEW s \in Service, NEW rev \in 0..Revision
      PROVE  /\ Revs(log', s, rev) = Revs(log, s, rev)
             /\ ValueIn(log', s, rev) = ValueIn(log, s, rev)
  BY RevsStay, ValueStays DEF HistoryOK, Revision, Records
<1>3. ASSUME NEW s \in Service PROVE HasLast(Revs(log', s, Revision + 1))
  <2>1. CASE s = k
    <3>1. log'[Revision + 1].key = s
      BY <1>1, <2>1
    <3> QED
      BY <1>1, <3>1, LastNext
  <2>2. CASE s # k
    <3>1. Revs(log', s, Revision + 1) = Revs(log', s, Revision)
      BY <1>1, <2>2, RevsNext
    <3>2. Revs(log', s, Revision) = Revs(log, s, Revision)
      BY <1>1, <1>2
    <3>3. HasLast(Revs(log, s, Revision))
      BY <1>1 DEF HistoryOK
    <3> QED
      BY <3>1, <3>2, <3>3
  <2> QED
    BY <2>1, <2>2
<1>4. ASSUME NEW s \in Service, NEW rev \in 0..(Revision + 1)
      PROVE  HasLast(Revs(log', s, rev))
  <2>1. CASE rev = Revision + 1
    BY <1>3, <2>1
  <2>2. CASE rev # Revision + 1
    <3>1. rev \in 0..Revision
      BY <1>1, <2>2
    <3>2. HasLast(Revs(log, s, rev))
      BY <3>1 DEF HistoryOK
    <3> QED
      BY <1>2, <3>1, <3>2
  <2> QED
    BY <2>1, <2>2
<1>5. ASSUME NEW s \in Service PROVE kv'[s] = ValueIn(log', s, Revision + 1)
  <2>1. ValueIn(log', s, Revision + 1) =
          IF k = s THEN (IF put THEN Revision + 1 ELSE 0) ELSE ValueIn(log', s, Revision)
    BY <1>1, ValueNext
  <2>2. ValueIn(log', s, Revision) = kv[s]
    BY <1>1, <1>2 DEF HistoryOK
  <2>3. kv'[s] = IF k = s THEN (IF put THEN Revision + 1 ELSE 0) ELSE kv[s]
    BY DEF Records
  <2> QED
    BY <2>1, <2>2, <2>3
<1>6. HistoryOK'
  BY <1>1, <1>4, <1>5 DEF HistoryOK
<1> QED
  BY <1>1, <1>2, <1>6

(* What a watcher has seen stays as it was.                                *)
LEMMA WatchStays ==
  ASSUME log \in Logs, kv \in [Service -> Nat], HistoryOK, WatchOK, BoundsOK,
         NEW k \in Service, NEW put \in BOOLEAN,
         Records(k, put),
         UNCHANGED discovery
  PROVE  HistoryOK' /\ WatchOK' /\ BoundsOK'
<1>1. /\ Revision \in Nat /\ Revision' = Revision + 1
      /\ HistoryOK'
      /\ \A s \in Service : \A rev \in 0..Revision :
           ValueIn(log', s, rev) = ValueIn(log, s, rev)
  BY HistoryGrows
<1>2. list' = list /\ watcher' = watcher
  BY DEF discovery
<1>3. \A r \in 1..Revision : log'[r] = log[r]
  BY DEF Logs, Revision, Records
<1>4. ASSUME NEW w \in Watcher
      PROVE  Place(watcher[w])' /\ \A s \in Service : Follows(watcher[w], s)'
  <2> DEFINE v == watcher[w]
  <2>1. /\ v \in Watchers /\ Place(v)
        /\ \A s \in Service : Follows(v, s)
    BY DEF WatchOK
  <2>2. Place(v)'
    BY <1>1, <1>2, <2>1 DEF Place, Watchers
  <2>3. ASSUME NEW s \in Service PROVE Follows(v, s)'
    <3>1. CASE v.pc = "fill"
      <4>1. ValueIn(log', s, v.read) = ValueIn(log, s, v.read)
        BY <1>1, <2>1, <3>1 DEF Place, Watchers
      <4> QED
        BY <1>2, <2>1, <3>1, <4>1 DEF Follows
    <3>2. CASE v.pc = "watch"
      <4>1. /\ v.read \in Nat /\ v.from \in Nat /\ v.pos \in Nat
            /\ v.read <= v.from /\ v.from <= v.pos /\ v.pos <= Revision
        BY <2>1, <3>2 DEF Place, Watchers
      <4>2. ValueIn(log', s, v.pos) = ValueIn(log, s, v.pos)
        BY <1>1, <4>1
      <4> HIDE DEF v
      <4>3. \A r \in (v.read + 1)..v.pos : log'[r] = log[r]
        BY <1>1, <1>3, <4>1
      <4>4. /\ (\E r \in (v.read + 1)..v.from : log'[r].key = s) <=> Touched(s, v.read, v.from)
            /\ (\E r \in (v.from + 1)..v.pos : log'[r].key = s) <=> Touched(s, v.from, v.pos)
        BY <4>1, <4>3 DEF Touched
      <4>5. Touched(s, v.read, v.from)' <=> Touched(s, v.read, v.from)
        BY <1>2, <4>4 DEF Touched, v
      <4>6. Touched(s, v.from, v.pos)' <=> Touched(s, v.from, v.pos)
        BY <1>2, <4>4 DEF Touched, v
      <4> QED
        BY <1>2, <2>1, <3>2, <4>2, <4>5, <4>6 DEF Follows, v
    <3> QED
      BY <1>2, <2>1, <3>1, <3>2 DEF Follows
  <2> QED
    BY <2>2, <2>3
<1>5. WatchOK'
  BY <1>2, <1>4 DEF WatchOK
<1>6. BoundsOK'
  BY <1>1, <1>2 DEF BoundsOK, WatchOK, Watchers
<1> QED
  BY <1>1, <1>5, <1>6

-----------------------------------------------------------------------------
(* The steps of the watcher.                                               *)

WatchInv == HistoryOK /\ WatchOK /\ BoundsOK

LEMMA OnlyWatcher ==
  ASSUME NEW w \in Watcher, NEW u \in Watcher
  PROVE  u = w
<1>1. \E x : Watcher = {x}
  BY FS_Singleton, WatcherAssumption
<1> QED
  BY <1>1

LEMMA SeenStays ==
  ASSUME WatchInv, UNCHANGED <<log, kv, list, watcher>>
  PROVE  WatchInv'
<1>1. HistoryOK'
  BY DEF WatchInv, HistoryOK, Revision
<1>2. WatchOK'
  BY DEF WatchInv, WatchOK, Place, Follows, Touched, Revision
<1>3. BoundsOK'
  BY DEF WatchInv, BoundsOK, Revision
<1> QED
  BY <1>1, <1>2, <1>3 DEF WatchInv

(* What is to be shown of a step of the watcher w.                         *)
WatcherSteps(w) ==
  /\ UNCHANGED <<log, kv>>
  /\ \E v \in Watchers : watcher' = [watcher EXCEPT ![w] = v]
  /\ list' \in [Service -> Nat]
  /\ \A s \in Service : list'[s] <= Revision /\ watcher'[w].todo[s] <= Revision
  /\ Place(watcher[w])' /\ \A s \in Service : Follows(watcher[w], s)'

LEMMA WatcherInv ==
  ASSUME WatchInv, NEW w \in Watcher, WatcherSteps(w)
  PROVE  WatchInv'
<1>1. log' = log /\ kv' = kv /\ Revision' = Revision
  BY DEF WatcherSteps, Revision
<1>2. HistoryOK'
  BY <1>1 DEF WatchInv, HistoryOK
<1>3. \A u \in Watcher : u = w
  BY OnlyWatcher
<1>4. watcher' \in [Watcher -> Watchers]
  BY DEF WatcherSteps, WatchInv, WatchOK
<1>5. \A u \in Watcher : Place(watcher[u])' /\ \A s \in Service : Follows(watcher[u], s)'
  BY <1>3, Zenon DEF WatcherSteps
<1>6. WatchOK'
  BY <1>4, <1>5 DEF WatchOK, WatcherSteps
<1>7. BoundsOK'
  BY <1>1, <1>3 DEF BoundsOK, WatcherSteps
<1> QED
  BY <1>2, <1>6, <1>7 DEF WatchInv

(* The Get finds the store's values, and a list that is still empty.       *)
LEMMA GetSees ==
  ASSUME WatchInv, StoreOK, NEW w \in Watcher, Get(w)
  PROVE  WatchInv'
<1> DEFINE v == [pc |-> "fill", todo |-> kv, read |-> Revision, from |-> 0, pos |-> 0]
<1>1. /\ Revision \in Nat /\ kv \in [Service -> Nat]
      /\ watcher' = [watcher EXCEPT ![w] = v]
      /\ log' = log /\ kv' = kv /\ list' = list /\ Revision' = Revision
  BY DEF StoreOK, Revision, Get, store
<1>2. /\ list \in [Service -> Nat] /\ \A s \in Service : list[s] <= Revision
      /\ \A s \in Service : list[s] = 0
      /\ watcher \in [Watcher -> Watchers]
  BY DEF WatchInv, WatchOK, BoundsOK, Get, Follows
<1>3. \A s \in Service : kv[s] = ValueIn(log, s, Revision) /\ kv[s] <= Revision
  BY <1>1, ValueBound DEF WatchInv, HistoryOK
<1>4. v \in Watchers /\ watcher'[w] = v
  BY <1>1, <1>2 DEF Watchers
<1>5. Place(watcher[w])'
  BY <1>1, <1>4 DEF Place
<1>6. \A s \in Service : Follows(watcher[w], s)'
  BY <1>1, <1>2, <1>3, <1>4 DEF Follows
<1>7. WatcherSteps(w)
  BY <1>1, <1>2, <1>3, <1>4, <1>5, <1>6 DEF WatcherSteps
<1> QED
  BY <1>7, WatcherInv

(* A key that is set gets the value of the Get.                            *)
LEMMA FillSees ==
  ASSUME WatchInv, StoreOK, NEW w \in Watcher, NEW k \in Service, Fill(w, k)
  PROVE  WatchInv'
<1> DEFINE v == watcher[w]
           u == [v EXCEPT !.todo = [v.todo EXCEPT ![k] = 0]]
<1>1. /\ v \in Watchers /\ Place(v) /\ \A s \in Service : Follows(v, s)
      /\ list \in [Service -> Nat] /\ \A s \in Service : list[s] <= Revision
      /\ \A s \in Service : v.todo[s] <= Revision
      /\ v.pc = "fill" /\ v.todo[k] # 0
  BY DEF WatchInv, WatchOK, BoundsOK, Fill
<1>2. /\ list' = [list EXCEPT ![k] = v.todo[k]]
      /\ log' = log /\ kv' = kv
      /\ watcher' = [watcher EXCEPT ![w] = u]
  BY DEF Fill, setServiceList, store
<1>3. Revision \in Nat /\ Revision' = Revision
  BY <1>2 DEF StoreOK, Revision
<1>4. /\ u \in Watchers /\ watcher'[w] = u
      /\ u.pc = "fill" /\ u.read = v.read /\ u.todo = [v.todo EXCEPT ![k] = 0]
  BY <1>1, <1>2 DEF Watchers, WatchInv, WatchOK
<1>5. v.todo \in [Service -> Nat]
  BY <1>1 DEF Watchers
<1> HIDE DEF u, v
<1>6. /\ list' \in [Service -> Nat]
      /\ \A s \in Service : list'[s] <= Revision /\ u.todo[s] <= Revision
  BY <1>1, <1>2, <1>3, <1>4, <1>5
<1>7. Place(watcher[w])'
  BY <1>1, <1>3, <1>4 DEF Place
<1>8. \A s \in Service : Follows(watcher[w], s)'
  BY <1>1, <1>2, <1>4, <1>5 DEF Follows
<1>9. WatcherSteps(w)
  BY <1>2, <1>4, <1>6, <1>7, <1>8 DEF WatcherSteps
<1> QED
  BY <1>9, WatcherInv

(* The watch begins at the store's revision; a key that did not change     *)
(* since the Get has the value it had then.                                *)
LEMMA WatchSees ==
  ASSUME WatchInv, StoreOK, NEW w \in Watcher, Watch(w)
  PROVE  WatchInv'
<1> DEFINE v == watcher[w]
           u == [pc |-> "watch", todo |-> v.todo, read |-> v.read,
                 from |-> Revision, pos |-> Revision]
<1>1. /\ v \in Watchers /\ Place(v) /\ \A s \in Service : Follows(v, s)
      /\ list \in [Service -> Nat] /\ \A s \in Service : list[s] <= Revision
      /\ \A s \in Service : v.todo[s] <= Revision
      /\ v.pc = "fill" /\ \A s \in Service : v.todo[s] = 0
      /\ watcher \in [Watcher -> Watchers]
  BY DEF WatchInv, WatchOK, BoundsOK, Watch
<1>2. Revision \in Nat
  BY DEF StoreOK, Revision
<1>3. /\ log' = log /\ kv' = kv /\ list' = list
      /\ watcher' = [watcher EXCEPT ![w] = u]
  BY DEF Watch, store
<1>4. u \in Watchers /\ watcher'[w] = u /\ Revision' = Revision
  BY <1>1, <1>2, <1>3 DEF Watchers, Revision
<1>5. v.read \in Nat /\ v.read <= Revision
  BY <1>1 DEF Place, Watchers
<1>6. Place(watcher[w])'
  BY <1>2, <1>4, <1>5 DEF Place
<1>7. ASSUME NEW s \in Service PROVE Follows(watcher[w], s)'
  <2>1. ~Touched(s, Revision, Revision)'
    BY <1>2, <1>4 DEF Touched
  <2>2. ASSUME ~Touched(s, v.read, Revision) PROVE list[s] = ValueIn(log, s, Revision)
    <3>1. list[s] = ValueIn(log, s, v.read)
      BY <1>1 DEF Follows
    <3>2. \A r \in (v.read + 1)..Revision : log[r].key # s
      BY <2>2 DEF Touched
    <3> HIDE DEF v
    <3> QED
      BY <1>2, <1>5, <3>1, <3>2, ValueKept
  <2>3. /\ watcher'[w].pc = "watch" /\ watcher'[w].read = v.read
        /\ watcher'[w].from = Revision /\ watcher'[w].pos = Revision
    BY <1>4
  <2>4. Touched(s, watcher[w].read, watcher[w].from)' <=> Touched(s, v.read, Revision)
    BY <1>3, <2>3 DEF Touched
  <2>5. ~Touched(s, watcher[w].from, watcher[w].pos)'
    BY <1>2, <2>3 DEF Touched
  <2> QED
    BY <1>3, <2>2, <2>3, <2>4, <2>5 DEF Follows
<1>8. WatcherSteps(w)
  BY <1>1, <1>3, <1>4, <1>6, <1>7 DEF WatcherSteps
<1> QED
  BY <1>8, WatcherInv

LEMMA InSeq ==
  ASSUME NEW S, NEW l \in Seq(S), NEW i \in 1..Len(l)
  PROVE  l[i] \in S
OBVIOUS

(* An event sets its key, and is the last of it in the log so far.         *)
LEMMA EventSees ==
  ASSUME WatchInv, StoreOK, NEW w \in Watcher, Event(w)
  PROVE  WatchInv'
<1> DEFINE v == watcher[w]
           next == v.pos + 1
           k == log[next].key
           u == [v EXCEPT !.pos = next]
<1>1. /\ v \in Watchers /\ Place(v) /\ \A s \in Service : Follows(v, s)
      /\ list \in [Service -> Nat] /\ \A s \in Service : list[s] <= Revision
      /\ \A s \in Service : v.todo[s] <= Revision
      /\ v.pc = "watch" /\ next <= Revision
      /\ watcher \in [Watcher -> Watchers]
  BY DEF WatchInv, WatchOK, BoundsOK, Event
<1>2. Revision \in Nat
  BY DEF StoreOK, Revision
<1>3. /\ v.read \in Nat /\ v.from \in Nat /\ v.pos \in Nat
      /\ v.read <= v.from /\ v.from <= v.pos
  BY <1>1 DEF Place, Watchers
<1>4. k \in Service
  <2>1. next \in 1..Len(log)
    BY <1>1, <1>3 DEF Revision
  <2>2. log[next] \in [key : Service, put : BOOLEAN]
    BY <2>1, InSeq DEF StoreOK
  <2> QED
    BY <2>2
<1>5. /\ log' = log /\ kv' = kv
      /\ watcher' = [watcher EXCEPT ![w] = u]
  BY DEF Event, store
<1>6. list' = [list EXCEPT ![k] = IF log[next].put THEN next ELSE 0]
  BY DEF Event, setServiceList, deleteServiceList
<1>7. u \in Watchers /\ watcher'[w] = u /\ Revision' = Revision
  <2>1. next \in Nat
    BY <1>3
  <2>2. u \in Watchers
    <3> HIDE DEF v, next
    <3> QED
      BY <1>1, <2>1 DEF Watchers
  <2> QED
    BY <1>1, <1>5, <2>2 DEF Revision
<1>8. /\ watcher'[w].pc = "watch" /\ watcher'[w].read = v.read
      /\ watcher'[w].from = v.from /\ watcher'[w].pos = next
      /\ watcher'[w].todo = v.todo
  BY <1>1, <1>7 DEF Watchers
<1> HIDE DEF u, v
<1>9. Place(watcher[w])'
  BY <1>1, <1>2, <1>3, <1>7, <1>8 DEF Place
<1>10. /\ list' \in [Service -> Nat]
       /\ \A s \in Service : list'[s] <= Revision
  <2> HIDE DEF k
  <2> QED
    BY <1>1, <1>2, <1>3, <1>4, <1>6
<1>11. ASSUME NEW s \in Service PROVE Follows(watcher[w], s)'
  <2>1. ValueIn(log, s, next) =
          IF k = s THEN (IF log[next].put THEN next ELSE 0) ELSE ValueIn(log, s, v.pos)
    BY <1>3, ValueNext
  <2>2. CASE s = k
    <3>1. list'[s] = ValueIn(log, s, next)
      BY <1>1, <1>4, <1>6, <2>1, <2>2
    <3> QED
      BY <1>5, <1>8, <3>1 DEF Follows
  <2>3. CASE s # k
    <3>1. list'[s] = list[s] /\ ValueIn(log, s, next) = ValueIn(log, s, v.pos)
      <4> HIDE DEF k, next
      <4> QED
        BY <1>1, <1>4, <1>6, <2>1, <2>3
    <3>2. Touched(s, v.from, next) <=> Touched(s, v.from, v.pos)
      BY <1>3, <2>3 DEF Touched
    <3>3. Touched(s, watcher[w].read, watcher[w].from)' <=> Touched(s, v.read, v.from)
      BY <1>5, <1>8 DEF Touched
    <3>4. Touched(s, watcher[w].from, watcher[w].pos)' <=> Touched(s, v.from, next)
      BY <1>5, <1>8 DEF Touched
    <3>5. (Touched(s, v.read, v.from) => Touched(s, v.from, v.pos))
            => list[s] = ValueIn(log, s, v.pos)
      BY <1>1 DEF Follows
    <3> HIDE DEF next
    <3> QED
      BY <1>5, <1>8, <3>1, <3>2, <3>3, <3>4, <3>5 DEF Follows
  <2> QED
    BY <2>2, <2>3
<1>12. WatcherSteps(w)
  BY <1>1, <1>5, <1>7, <1>8, <1>9, <1>10, <1>11 DEF WatcherSteps
<1> QED
  BY <1>12, WatcherInv

(* The list of a watch that has ended follows nothing.                     *)
LEMMA EndSees ==
  ASSUME WatchInv, NEW w \in Watcher, WatchEnds(w)
  PROVE  WatchInv'
<1> DEFINE v == watcher[w]
           u == [v EXCEPT !.pc = "ended"]
<1>1. /\ v \in Watchers /\ watcher \in [Watcher -> Watchers]
      /\ list \in [Service -> Nat] /\ \A s \in Service : list[s] <= Revision
      /\ \A s \in Service : v.todo[s] <= Revision
  BY DEF WatchInv, WatchOK, BoundsOK
<1>2. /\ log' = log /\ kv' = kv /\ list' = list
      /\ watcher' = [watcher EXCEPT ![w] = u]
  BY DEF WatchEnds, store
<1>3. /\ u \in Watchers /\ watcher'[w] = u
      /\ u.pc = "ended" /\ u.todo = v.todo
  BY <1>1, <1>2 DEF Watchers
<1>4. Place(watcher[w])' /\ \A s \in Service : Follows(watcher[w], s)'
  BY <1>3 DEF Place, Follows
<1>5. WatcherSteps(w)
  BY <1>1, <1>2, <1>3, <1>4 DEF WatcherSteps
<1> QED
  BY <1>5, WatcherInv

-----------------------------------------------------------------------------
(* The steps of etcd and of the registry.                                  *)

LEMMA RecordSees ==
  ASSUME WatchInv, StoreOK, NEW k \in Service, NEW put \in BOOLEAN,
         Records(k, put), UNCHANGED discovery
  PROVE  WatchInv'
BY WatchStays DEF WatchInv, StoreOK, Logs

LEMMA EndLeaseSees ==
  ASSUME WatchInv, StoreOK, NEW s \in Service, NEW n, EndLease(s, n), UNCHANGED discovery
  PROVE  WatchInv'
<1>1. CASE owner[s] = n
  <2>1. Records(s, FALSE)
    BY <1>1, Zenon DEF EndLease, Records
  <2> QED
    BY <2>1, RecordSees
<1>2. CASE owner[s] # n
  <2>1. UNCHANGED <<log, kv, list, watcher>>
    BY <1>2, Zenon DEF EndLease, discovery
  <2> QED
    BY <2>1, SeenStays
<1> QED
  BY <1>1, <1>2

LEMMA EndLeaseBounds ==
  ASSUME LeasesOK, NEW s \in Service, NEW n, EndLease(s, n), UNCHANGED registry
  PROVE  LeasesOK'
<1>1. /\ live' = [live EXCEPT ![s] = @ \ {n}]
      /\ owner' = owner \/ owner' = [owner EXCEPT ![s] = 0]
  BY Zenon DEF EndLease
<1>2. live' \in [Service -> SUBSET (1..MaxLeases)] /\ owner' \in [Service -> 0..MaxLeases]
  BY <1>1, LeaseAssumption DEF LeasesOK
<1> QED
  BY <1>2 DEF LeasesOK, registry

LEMMA RegistryBounds ==
  ASSUME LeasesOK, NEW s \in Service,
         \/ Grant(s) \/ Registering(s) \/ Crash(s)
  PROVE  LeasesOK'
<1> USE LeaseAssumption
<1>1. CASE Grant(s)
  <2>1. lease[s] + 1 \in 1..MaxLeases
    BY <1>1 DEF LeasesOK, Grant
  <2> QED
    BY <1>1, <2>1 DEF LeasesOK, Grant
<1>2. CASE Put(s)
  BY <1>2 DEF LeasesOK, Put, PutKey
<1>3. CASE KeepAlive(s)
  <2>1. lease[s] \in 1..MaxLeases
    BY <1>3 DEF LeasesOK, KeepAlive
  <2> QED
    BY <1>3, <2>1 DEF LeasesOK, KeepAlive, store
<1>4. CASE CallFails(s)
  BY <1>4 DEF LeasesOK, CallFails, store
<1>5. ASSUME NEW n \in 1..MaxLeases, KeepAliveEnds(s, n) PROVE LeasesOK'
  BY <1>5 DEF LeasesOK, KeepAliveEnds, store
<1>6. CASE Crash(s)
  BY <1>6 DEF LeasesOK, Crash, store
<1> QED
  BY <1>1, <1>2, <1>3, <1>4, <1>5, <1>6 DEF Registering

(* Every step keeps what the watcher has seen.                             *)
LEMMA NextSees == WatchInv /\ StoreOK /\ [Next]_vars => WatchInv'
<1> SUFFICES ASSUME WatchInv, StoreOK, [Next]_vars PROVE WatchInv'
  OBVIOUS
<1>1. ASSUME UNCHANGED <<store, discovery>> PROVE WatchInv'
  BY <1>1, SeenStays DEF store, discovery
<1>2. CASE UNCHANGED vars
  BY <1>1, <1>2 DEF vars
<1>3. ASSUME NEW s \in Service, Grant(s) PROVE WatchInv'
  <2>1. UNCHANGED <<log, kv, list, watcher>>
    BY <1>3 DEF Grant, discovery
  <2> QED
    BY <2>1, SeenStays
<1>4. ASSUME NEW s \in Service, Registering(s) PROVE WatchInv'
  <2>1. CASE Put(s)
    <3>1. Records(s, TRUE) /\ UNCHANGED discovery
      BY <2>1 DEF Put, PutKey, Records
    <3> QED
      BY <3>1, RecordSees
  <2>2. CASE KeepAlive(s)
    BY <1>1, <2>2 DEF KeepAlive
  <2>3. CASE CallFails(s)
    BY <1>1, <2>3 DEF CallFails
  <2>4. ASSUME NEW n \in 1..MaxLeases, KeepAliveEnds(s, n) PROVE WatchInv'
    BY <1>1, <2>4 DEF KeepAliveEnds
  <2> QED
    BY <1>4, <2>1, <2>2, <2>3, <2>4 DEF Registering
<1>5. ASSUME NEW s \in Service, Revoke(s) PROVE WatchInv'
  BY <1>5, EndLeaseSees DEF Revoke
<1>6. ASSUME NEW s \in Service, Crash(s) PROVE WatchInv'
  BY <1>1, <1>6 DEF Crash
<1>7. ASSUME NEW s \in Service, NEW n \in 1..MaxLeases, Expire(s, n) PROVE WatchInv'
  BY <1>7, EndLeaseSees DEF Expire
<1>8. ASSUME NEW w \in Watcher, Discovering(w) \/ WatchEnds(w) PROVE WatchInv'
  BY <1>8, GetSees, FillSees, WatchSees, EventSees, EndSees DEF Discovering
<1> QED
  BY <1>2, <1>3, <1>4, <1>5, <1>6, <1>7, <1>8 DEF Next

LEMMA NextBounds == LeasesOK /\ [Next]_vars => LeasesOK'
<1> SUFFICES ASSUME LeasesOK, [Next]_vars PROVE LeasesOK'
  OBVIOUS
<1>1. ASSUME UNCHANGED <<store, registry>> PROVE LeasesOK'
  BY <1>1 DEF LeasesOK, store, registry
<1>2. CASE UNCHANGED vars
  BY <1>1, <1>2 DEF vars
<1>3. ASSUME NEW s \in Service, Grant(s) \/ Registering(s) \/ Crash(s) PROVE LeasesOK'
  BY <1>3, RegistryBounds
<1>4. ASSUME NEW s \in Service, Revoke(s) PROVE LeasesOK'
  BY <1>4, EndLeaseBounds DEF Revoke
<1>5. ASSUME NEW s \in Service, NEW n \in 1..MaxLeases, Expire(s, n) PROVE LeasesOK'
  BY <1>5, EndLeaseBounds DEF Expire
<1>6. ASSUME NEW w \in Watcher, Discovering(w) \/ WatchEnds(w) PROVE LeasesOK'
  <2>1. UNCHANGED <<store, registry>>
    BY <1>6 DEF Discovering, Get, Fill, Watch, Event, WatchEnds
  <2> QED
    BY <1>1, <2>1
<1> QED
  BY <1>2, <1>3, <1>4, <1>5, <1>6 DEF Next

LEMMA InitEtcdInv == Init => EtcdInv
<1> SUFFICES ASSUME Init PROVE EtcdInv
  OBVIOUS
<1>1. Revision = 0 /\ \A s : Revs(log, s, 0) = {}
  BY DEF Init, Revision, Revs
<1>2. \A s : ValueIn(log, s, 0) = 0
  BY <1>1 DEF ValueIn
<1>3. HistoryOK
  BY <1>1, <1>2 DEF Init, HistoryOK, HasLast
<1>4. NoWatcher \in Watchers /\ NoWatcher.pc = "none" /\ \A s \in Service : NoWatcher.todo[s] = 0
  BY DEF NoWatcher, Watchers
<1>5. WatchOK
  BY <1>4 DEF Init, WatchOK, Place, Follows
<1>6. BoundsOK
  BY <1>1, <1>4 DEF Init, BoundsOK
<1>7. LeasesOK
  BY LeaseAssumption DEF Init, LeasesOK
<1> QED
  BY <1>3, <1>5, <1>6, <1>7, InitInv DEF EtcdInv

LEMMA NextEtcdInv == EtcdInv /\ [Next]_vars => EtcdInv'
BY NextInv, NextSees, NextBounds DEF EtcdInv, IInv, WatchInv

LEMMA EtcdInvIsSafe == EtcdInv => Safe
<1> SUFFICES ASSUME EtcdInv PROVE Safe
  OBVIOUS
<1>1. Revision \in Nat
  BY DEF EtcdInv, IInv, StoreOK, Revision
<1>2. ASSUME NEW s \in Service PROVE kv[s] \in 0..Revision
  BY <1>1, ValueBound DEF EtcdInv, HistoryOK
<1>3. ASSUME NEW s \in Service PROVE list[s] \in 0..Revision
  BY <1>1 DEF EtcdInv, WatchOK, BoundsOK
<1>4. ASSUME NEW w \in Watcher PROVE watcher[w].pc \in {"none", "fill", "watch", "ended"}
  BY DEF EtcdInv, WatchOK, Watchers
<1>5. TypeOK
  BY <1>2, <1>3, <1>4 DEF EtcdInv, LeasesOK, TypeOK
<1>6. ASSUME NEW w \in Watcher, watcher[w].pc = "watch", NEW s \in Service,
             Touched(s, watcher[w].read, watcher[w].from) =>
               Touched(s, watcher[w].from, watcher[w].pos)
      PROVE  list[s] = ValueAt(s, watcher[w].pos)
  BY <1>6, ValuesAgree DEF EtcdInv, WatchOK, Follows
<1>7. ListFollows
  BY <1>6 DEF ListFollows
<1> QED
  BY <1>5, <1>7 DEF Safe

(* Whatever registers, expires or crashes between the Get, the start of    *)
(* the watch and its events, the list of a client's only watcher is the    *)
(* store's state of the revision it has come to, but for the keys that     *)
(* changed between the Get and the start of the watch and not since.       *)
THEOREM ListsFollow == Spec => []Safe
BY InitEtcdInv, NextEtcdInv, EtcdInvIsSafe, PTL DEF Spec
=============================================================================
