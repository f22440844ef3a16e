-------------------------- MODULE TtyRegistryProofs --------------------------
(***************************************************************************)
(* Proofs about TtyRegistry, for every value of its constants.  What is    *)
(* known of the slave registry below it is taken from SlaveRegistryProofs: *)
(* its steps under the WebTTY registry are its own steps.                  *)
(***************************************************************************)
EXTENDS TtyRegistry, TLAPS

SlaveProofs == INSTANCE SlaveRegistryProofs

USE DEF Absent, NoTtyRecycler, NoConn, NoDel

(* Some AutoRecycle goroutine of a registered key comes back to it in time.*)
TtyCovered ==
  \A k \in Key : HasTty(k) =>
    \E r \in TtyRecycler :
      /\ ttyRecycler[r].key = k
      /\ ttyIdle[k] + ttyRecycler[r].left <= Window(ttyKeep[ttys[k]])

(* No goroutine has been runnable for longer than Slack seconds.           *)
TtyPunctual == \A r \in TtyRecycler : Busy(r) => ttyRecycler[r].left >= -Slack

(* What is deleted has a key, and a caller that makes or runs a WebTTY has *)
(* got its slave.                                                          *)
Placed ==
  /\ \A r \in TtyRecycler : ttyRecycler[r].pc = "delSlave" => Busy(r)
  /\ \A g \in Reader : del[g].pc # "none" => del[g].key # None
  /\ \A c \in Caller : conn[c].pc # "none" => call[c].pc = "got"

(* The inductive invariant.                                                *)
TtyInv ==
  TypeOK /\ TtyMapsAgree /\ TtyCovered /\ TtyPunctual /\ Placed /\ DeletionIsolated

-----------------------------------------------------------------------------
(* The slave registry below.                                               *)

LEMMA DeletesAKey ==
  ASSUME NEW k \in Key, DelSlaveOf(k)
  PROVE  [Slaves!Next]_(Slaves!vars)
BY DEF DelSlaveOf, Slaves!Next, Slaves!vars, slaveVars

(* A step of the WebTTY registry is a step of the slave registry, or       *)
(* leaves it alone.                                                        *)
LEMMA SlavesNext == TtyInv /\ [Next]_vars => [Slaves!Next]_(Slaves!vars)
<1> SUFFICES ASSUME TtyInv, [Next]_vars PROVE [Slaves!Next]_(Slaves!vars)
  OBVIOUS
<1>1. CASE SlaveStep
  BY <1>1 DEF SlaveStep, Slaves!Next
<1>2. ASSUME NEW c \in Caller, Reattach(c) \/ Miss(c) \/ MakeWebTTY(c) PROVE UNCHANGED slaveVars
  BY <1>2 DEF Reattach, Miss, MakeWebTTY
<1>3. ASSUME NEW c \in Caller, Detach(c) PROVE Slaves!Next
  BY <1>3 DEF Detach, Slaves!Next
<1>4. ASSUME NEW g \in Reader, \/ \E k \in Key : DelWebTTY(g, k)
                               \/ DelMaps(g)
      PROVE  UNCHANGED slaveVars
  BY <1>4 DEF DelWebTTY, DelMaps
<1>5. ASSUME NEW g \in Reader, DelSlave(g) PROVE [Slaves!Next]_(Slaves!vars)
  <2>1. del[g].key \in Key /\ DelSlaveOf(del[g].key)
    BY <1>5 DEF DelSlave, TtyInv, TypeOK, Placed
  <2> QED
    BY <2>1, DeletesAKey
<1>6. ASSUME NEW k \in Key, UpdateLastActiveTime(k) PROVE UNCHANGED slaveVars
  BY <1>6 DEF UpdateLastActiveTime
<1>7. ASSUME NEW r \in TtyRecycler, RecyclerExits(r) \/ RecyclerDrops(r) \/ RecyclerWaits(r)
      PROVE  UNCHANGED slaveVars
  BY <1>7 DEF RecyclerExits, RecyclerDrops, RecyclerWaits
<1>8. ASSUME NEW r \in TtyRecycler, RecyclerDelSlave(r) PROVE [Slaves!Next]_(Slaves!vars)
  <2>1. ttyRecycler[r].key \in Key /\ DelSlaveOf(ttyRecycler[r].key)
    BY <1>8 DEF RecyclerDelSlave, TtyInv, TypeOK, Placed, Busy
  <2> QED
    BY <2>1, DeletesAKey
<1>9. CASE Tick
  BY <1>9 DEF Tick, Slaves!Next
<1>10. UNCHANGED slaveVars => [Slaves!Next]_(Slaves!vars)
  BY DEF slaveVars, Slaves!vars
<1>11. CASE UNCHANGED vars
  BY <1>10, <1>11 DEF vars
<1> QED
  BY <1>1, <1>2, <1>3, <1>4, <1>5, <1>6, <1>7, <1>8, <1>9, <1>10, <1>11 DEF Next, AutoRecycle

(* SlaveRegistryProofs speaks of the same registry.                        *)
LEMMA SameInit == Slaves!Init => SlaveProofs!Init
BY DEF Slaves!Init, SlaveProofs!Init, Slaves!Absent, SlaveProofs!Absent,
  Slaves!NoRecycler, SlaveProofs!NoRecycler, Slaves!NoCall, SlaveProofs!NoCall

LEMMA SameNext == [Slaves!Next]_(Slaves!vars) => [SlaveProofs!Next]_(SlaveProofs!vars)
<1> USE DEF Slaves!Registered, SlaveProofs!Registered, Slaves!Absent, SlaveProofs!Absent,
  Slaves!Interval, SlaveProofs!Interval, Slaves!Busy, SlaveProofs!Busy,
  Slaves!NoRecycler, SlaveProofs!NoRecycler, Slaves!NoCall, SlaveProofs!NoCall
<1>1. \A c \in Caller, k \in Key : Slaves!GetSlave(c, k) => SlaveProofs!GetSlave(c, k)
  BY DEF Slaves!GetSlave, SlaveProofs!GetSlave
<1>2. \A c \in Caller : Slaves!StartAndAdd(c) => SlaveProofs!StartAndAdd(c)
  BY DEF Slaves!StartAndAdd, SlaveProofs!StartAndAdd, Slaves!AddSlave, SlaveProofs!AddSlave
<1>3. \A c \in Caller : Slaves!StartFails(c) => SlaveProofs!StartFails(c)
  BY DEF Slaves!StartFails, SlaveProofs!StartFails
<1>4. \A c \in Caller : Slaves!Release(c) => SlaveProofs!Release(c)
  BY DEF Slaves!Release, SlaveProofs!Release
<1>5. \A k \in Key : Slaves!UpdateLastActiveTime(k) => SlaveProofs!UpdateLastActiveTime(k)
  BY DEF Slaves!UpdateLastActiveTime, SlaveProofs!UpdateLastActiveTime
<1>6. \A k \in Key : Slaves!DelSlave(k) => SlaveProofs!DelSlave(k)
  BY DEF Slaves!DelSlave, SlaveProofs!DelSlave, Slaves!Unregister, SlaveProofs!Unregister
<1>7. \A r \in Recycler : Slaves!AutoRecycle(r) => SlaveProofs!AutoRecycle(r)
  BY DEF Slaves!AutoRecycle, SlaveProofs!AutoRecycle, Slaves!RecyclerExits,
    SlaveProofs!RecyclerExits, Slaves!RecyclerDrops, SlaveProofs!RecyclerDrops,
    Slaves!RecyclerWaits, SlaveProofs!RecyclerWaits, Slaves!Awake, SlaveProofs!Awake,
    Slaves!Expired, SlaveProofs!Expired, Slaves!Sleep, SlaveProofs!Sleep,
    Slaves!RunCallback, SlaveProofs!RunCallback, Slaves!Unregister, SlaveProofs!Unregister
<1>8. Slaves!Tick => SlaveProofs!Tick
  BY DEF Slaves!Tick, SlaveProofs!Tick
<1>9. UNCHANGED Slaves!vars => UNCHANGED SlaveProofs!vars
  BY DEF Slaves!vars, SlaveProofs!vars
<1> QED
  BY <1>1, <1>2, <1>3, <1>4, <1>5, <1>6, <1>7, <1>8, <1>9 DEF Slaves!Next, SlaveProofs!Next

LEMMA SlaveTypes == SlaveProofs!Inv => Slaves!TypeOK
BY DEF SlaveProofs!Inv, Slaves!TypeOK, SlaveProofs!TypeOK, Slaves!CallState,
  SlaveProofs!CallState, Slaves!NoCall, SlaveProofs!NoCall, Slaves!Absent, SlaveProofs!Absent

LEMMA SlavesInitInv == Slaves!Init => SlaveProofs!Inv
BY SameInit, SlaveAssumption, SlaveProofs!InitInv

LEMMA SlavesNextInv == SlaveProofs!Inv /\ [Slaves!Next]_(Slaves!vars) => SlaveProofs!Inv'
BY SameNext, SlaveAssumption, SlaveProofs!NextInv

-----------------------------------------------------------------------------
(* The WebTTY registry: each step preserves the invariant.                 *)

(* Nothing is registered in the initial states.                            *)
LEMMA TtyInitInv == Init => TtyInv
<1> SUFFICES ASSUME Init PROVE TtyInv
  OBVIOUS
<1>1. Slaves!TypeOK
  BY SlavesInitInv, SlaveTypes DEF Init
<1>2. TypeOK
  BY <1>1 DEF Init, TypeOK
<1>3. \A t \in Tty : t # None
  BY TtyNoneAssumption
<1>4. TtyMapsAgree /\ TtyCovered /\ TtyPunctual /\ Placed /\ DeletionIsolated
  BY <1>3 DEF Init, TtyMapsAgree, TtyCovered, TtyPunctual, Placed, DeletionIsolated, HasTty, Busy
<1> QED
  BY <1>2, <1>4 DEF TtyInv

(* A step that leaves the registry and its goroutines alone.               *)
LEMMA MapsUntouched ==
  ASSUME TtyInv, UNCHANGED <<mapVars, madeVars, ttyRecycler>>, TypeOK', Placed',
         \A g \in Reader : del'[g].pc = "delSlave" => del[g].pc = "delSlave" /\ del'[g] = del[g]
  PROVE  TtyInv'
<1>1. UNCHANGED <<ttys, ttyIdle, ttyKeep, ttyFresh, ttyRecycler>>
  BY DEF mapVars, madeVars
<1> QED
  BY <1>1 DEF TtyInv, TtyMapsAgree, TtyCovered, TtyPunctual, DeletionIsolated, HasTty, Busy, Window

(* The slave registry goes on: a caller that has got its slave keeps it.   *)
LEMMA SlaveStepInv ==
  ASSUME TtyInv, Slaves!TypeOK', SlaveStep
  PROVE  TtyInv'
<1>1. UNCHANGED ttyVars
  BY DEF SlaveStep
<1>2. TypeOK'
  BY <1>1 DEF TtyInv, TypeOK, ttyVars
<1>3. \A c \in Caller : call[c].pc = "got" => call'[c] = call[c]
  BY DEF SlaveStep, TtyInv, TypeOK, Slaves!TypeOK, Slaves!GetSlave, Slaves!StartAndAdd,
    Slaves!StartFails, Slaves!UpdateLastActiveTime, Slaves!AutoRecycle, Slaves!RecyclerExits,
    Slaves!RecyclerDrops, Slaves!RecyclerWaits
<1>4. Placed'
  BY <1>1, <1>3 DEF TtyInv, Placed, ttyVars, Busy
<1> QED
  BY <1>1, <1>2, <1>4, MapsUntouched DEF ttyVars, mapVars, madeVars

(* getWebTTY finds a WebTTY or none.                                       *)
LEMMA LookupInv ==
  ASSUME TtyInv, Slaves!TypeOK', NEW c \in Caller, Reattach(c) \/ Miss(c)
  PROVE  TtyInv'
<1>1. /\ UNCHANGED <<call, mapVars, madeVars, ttyRecycler, del>>
      /\ call[c].pc = "got"
  BY DEF Reattach, Miss, slaveVars
<1>2. call[c].key \in Key
  BY <1>1 DEF TtyInv, TypeOK, Slaves!TypeOK, Slaves!CallState, Slaves!NoCall
<1>3. \E new \in [pc : {"add"}, tty : {None}] \cup [pc : {"run"}, tty : Tty] :
        conn' = [conn EXCEPT ![c] = new]
  BY <1>2 DEF Reattach, Miss, TtyInv, TypeOK, HasTty
<1>4. TypeOK'
  BY <1>1, <1>3 DEF TtyInv, TypeOK, mapVars, madeVars
<1>5. Placed'
  BY <1>1, <1>3 DEF TtyInv, TypeOK, Placed, Busy
<1> QED
  BY <1>1, <1>4, <1>5, MapsUntouched

(* Run returns.                                                            *)
LEMMA DetachInv ==
  ASSUME TtyInv, Slaves!TypeOK', NEW c \in Caller, Detach(c)
  PROVE  TtyInv'
<1>1. /\ UNCHANGED <<mapVars, madeVars, ttyRecycler, del>>
      /\ conn' = [conn EXCEPT ![c] = NoConn]
      /\ call' = [call EXCEPT ![c] = Slaves!NoCall]
  BY DEF Detach, Slaves!Release
<1>2. TypeOK'
  BY <1>1 DEF TtyInv, TypeOK, mapVars, madeVars
<1>3. Placed'
  BY <1>1 DEF TtyInv, TypeOK, Slaves!TypeOK, Placed, Busy
<1> QED
  BY <1>1, <1>2, <1>3, MapsUntouched

(* A reader begins or ends DelWebTTY.                                      *)
LEMMA ReaderInv ==
  ASSUME TtyInv, Slaves!TypeOK', NEW g \in Reader,
         (\E k \in Key : DelWebTTY(g, k)) \/ DelSlave(g)
  PROVE  TtyInv'
<1>1. UNCHANGED <<mapVars, madeVars, ttyRecycler, conn, call>>
  <2>1. ASSUME NEW k \in Key, DelSlaveOf(k) PROVE UNCHANGED call
    BY <2>1 DEF DelSlaveOf, Slaves!DelSlave, slaveVars
  <2>2. CASE DelSlave(g)
    <3>1. del[g].key \in Key /\ DelSlaveOf(del[g].key)
      BY <2>2 DEF DelSlave, TtyInv, TypeOK, Placed
    <3> QED
      BY <2>1, <2>2, <3>1 DEF DelSlave
  <2>3. CASE \E k \in Key : DelWebTTY(g, k)
    BY <2>3 DEF DelWebTTY, slaveVars
  <2> QED
    BY <2>2, <2>3
<1>2. \/ \E k \in Key : del' = [del EXCEPT ![g] = [pc |-> "lock", key |-> k]]
      \/ del' = [del EXCEPT ![g] = NoDel]
  BY DEF DelWebTTY, DelSlave
<1>3. TypeOK'
  BY <1>1, <1>2 DEF TtyInv, TypeOK, mapVars, madeVars
<1>4. Placed' /\ \A h \in Reader : del'[h].pc = "delSlave" => del'[h] = del[h]
  <2>1. \A k \in Key : k # None
    BY SlaveAssumption
  <2> QED
    BY <1>1, <1>2, <2>1, SMTT(30) DEF TtyInv, TypeOK, Placed, Busy
<1> QED
  BY <1>1, <1>3, <1>4, MapsUntouched

(* The entry of a key goes: of the other keys nothing is lost.             *)
LEMMA UnregisterInv ==
  ASSUME TtyInv, NEW k \in Key, Unregister(k), UNCHANGED madeVars,
         ttyRecycler' \in [TtyRecycler -> [pc : {"sleep", "delSlave"},
                                           key : Key \cup {None}, left : Int]],
         \A q \in TtyRecycler : ttyRecycler[q].key # k => ttyRecycler'[q] = ttyRecycler[q]
  PROVE  /\ ttys' \in [Key -> Tty \cup {None}] /\ ttyIdle' \in [Key -> Nat \cup {Absent}]
         /\ TtyMapsAgree' /\ TtyCovered'
         /\ ~HasTty(k)' /\ \A kk \in Key : ~HasTty(kk) => ~HasTty(kk)'
<1> USE TtyNoneAssumption
<1>1. /\ ttys \in [Key -> Tty \cup {None}] /\ ttyIdle \in [Key -> Nat \cup {Absent}]
      /\ ttyFresh \subseteq Tty
      /\ ttys' = [ttys EXCEPT ![k] = None] /\ ttyIdle' = [ttyIdle EXCEPT ![k] = Absent]
      /\ ttyKeep' = ttyKeep /\ ttyFresh' = ttyFresh
  BY DEF TtyInv, TypeOK, Unregister, madeVars
<1>2. TtyMapsAgree'
  BY <1>1 DEF TtyInv, TtyMapsAgree, HasTty
<1>3. TtyCovered'
  <2> SUFFICES ASSUME NEW kk \in Key, HasTty(kk)'
               PROVE  \E q \in TtyRecycler :
                        /\ ttyRecycler'[q].key = kk
                        /\ ttyIdle'[kk] + ttyRecycler'[q].left <= Window(ttyKeep'[ttys'[kk]])
    BY DEF TtyCovered
  <2>1. kk # k /\ ttys'[kk] = ttys[kk] /\ ttyIdle'[kk] = ttyIdle[kk] /\ HasTty(kk)
    BY <1>1 DEF HasTty
  <2>2. PICK q \in TtyRecycler :
          /\ ttyRecycler[q].key = kk
          /\ ttyIdle[kk] + ttyRecycler[q].left <= Window(ttyKeep[ttys[kk]])
    BY <2>1 DEF TtyInv, TtyCovered
  <2>3. ttyRecycler'[q] = ttyRecycler[q]
    BY <2>1, <2>2
  <2> QED
    BY <1>1, <2>1, <2>2, <2>3
<1>4. ~HasTty(k)' /\ \A kk \in Key : ~HasTty(kk) => ~HasTty(kk)'
  BY <1>1 DEF HasTty
<1> QED
  BY <1>1, <1>2, <1>3, <1>4

(* DelWebTTY has the lock and removes the key from the maps.               *)
LEMMA DelMapsInv ==
  ASSUME TtyInv, Slaves!TypeOK', NEW g \in Reader, DelMaps(g)
  PROVE  TtyInv'
<1>1. /\ UNCHANGED <<madeVars, conn, ttyRecycler, call>> /\ del[g].pc = "lock" /\ ~Locked
      /\ Unregister(del[g].key)
      /\ del' = [del EXCEPT ![g] = [pc |-> "delSlave", key |-> del[g].key]]
  BY DEF DelMaps, slaveVars
<1>2. del[g].key \in Key
  BY <1>1 DEF TtyInv, TypeOK, Placed
<1>3. /\ ttys' \in [Key -> Tty \cup {None}] /\ ttyIdle' \in [Key -> Nat \cup {Absent}]
      /\ TtyMapsAgree' /\ TtyCovered' /\ ~HasTty(del[g].key)'
  BY <1>1, <1>2, UnregisterInv DEF TtyInv, TypeOK
<1>4. TypeOK'
  BY <1>1, <1>2, <1>3 DEF TtyInv, TypeOK, madeVars
<1>5. TtyPunctual' /\ Placed'
  BY <1>1, <1>2, SlaveAssumption DEF TtyInv, TypeOK, TtyPunctual, Placed, Busy
<1>6. DeletionIsolated'
  <2>1. \A h \in Reader : del'[h].pc = "delSlave" => h = g
    BY <1>1 DEF TtyInv, TypeOK, Locked
  <2>2. \A r \in TtyRecycler : ttyRecycler'[r].pc # "delSlave"
    BY <1>1 DEF Locked
  <2>3. del'[g].key = del[g].key
    BY <1>1 DEF TtyInv, TypeOK
  <2> QED
    BY <1>3, <2>1, <2>2, <2>3 DEF DeletionIsolated, HasTty
<1> QED
  BY <1>3, <1>4, <1>5, <1>6 DEF TtyInv

(* The time between two looks of a goroutine is a number of seconds.       *)
LEMMA TtyIntervalNat == ASSUME TtyInv, NEW k \in Key PROVE Interval(k) \in Nat
BY TtyKeepAliveAssumption DEF TtyInv, TypeOK, Interval, HasTty

(* AutoRecycle removes the key from the maps, with the lock for DelSlave.  *)
LEMMA TtyDropsInv ==
  ASSUME TtyInv, Slaves!TypeOK', NEW r \in TtyRecycler, RecyclerDrops(r)
  PROVE  TtyInv'
<1> DEFINE k == ttyRecycler[r].key
<1>1. /\ UNCHANGED <<madeVars, conn, del, call>> /\ ~Locked /\ Busy(r) /\ Unregister(k)
      /\ ttyRecycler' = [ttyRecycler EXCEPT ![r] =
                           [pc |-> "delSlave", key |-> k, left |-> Interval(k)]]
  BY DEF RecyclerDrops, Awake, Continue, slaveVars
<1>2. k \in Key
  BY <1>1 DEF TtyInv, TypeOK, Busy
<1>3. Interval(k) \in Nat
  BY <1>2, TtyIntervalNat
<1>4. ttyRecycler' \in [TtyRecycler -> [pc : {"sleep", "delSlave"}, key : Key \cup {None}, left : Int]]
  BY <1>1, <1>2, <1>3 DEF TtyInv, TypeOK
<1>5. /\ ttys' \in [Key -> Tty \cup {None}] /\ ttyIdle' \in [Key -> Nat \cup {Absent}]
      /\ TtyMapsAgree' /\ TtyCovered' /\ ~HasTty(k)'
  <2>1. \A q \in TtyRecycler : ttyRecycler[q].key # k => ttyRecycler'[q] = ttyRecycler[q]
    BY <1>1 DEF TtyInv, TypeOK
  <2> QED
    BY <1>1, <1>2, <1>4, <2>1, UnregisterInv
<1>6. TypeOK'
  BY <1>1, <1>4, <1>5 DEF TtyInv, TypeOK, madeVars
<1>7. TtyPunctual' /\ Placed'
  <2>1. TtyPunctual'
    BY <1>1, <1>3, SlaveAssumption DEF TtyInv, TypeOK, TtyPunctual, Busy
  <2>2. Placed'
    BY <1>1, <1>2, SlaveAssumption DEF TtyInv, TypeOK, Placed, Busy
  <2> QED
    BY <2>1, <2>2
<1>8. DeletionIsolated'
  <2>1. \A g \in Reader : del'[g].pc # "delSlave"
    BY <1>1 DEF Locked
  <2>2. \A q \in TtyRecycler : ttyRecycler'[q].pc = "delSlave" => q = r
    BY <1>1 DEF TtyInv, TypeOK, Locked
  <2>3. ttyRecycler'[r].key = k
    BY <1>1 DEF TtyInv, TypeOK
  <2> QED
    BY <1>5, <2>1, <2>2, <2>3 DEF DeletionIsolated, HasTty
<1> QED
  BY <1>5, <1>6, <1>7, <1>8 DEF TtyInv

(* AutoRecycle has deleted the slave and goes to sleep.                    *)
LEMMA TtyDelSlaveInv ==
  ASSUME TtyInv, Slaves!TypeOK', NEW r \in TtyRecycler, RecyclerDelSlave(r)
  PROVE  TtyInv'
<1>1. /\ UNCHANGED <<mapVars, madeVars, conn, del>> /\ ttyRecycler[r].pc = "delSlave"
      /\ DelSlaveOf(ttyRecycler[r].key)
      /\ ttyRecycler' = [ttyRecycler EXCEPT ![r] =
           [pc |-> "sleep", key |-> ttyRecycler[r].key, left |-> ttyRecycler[r].left]]
  BY DEF RecyclerDelSlave
<1>2. UNCHANGED call
  BY <1>1 DEF DelSlaveOf, Slaves!DelSlave, slaveVars
<1>3. UNCHANGED <<ttys, ttyIdle, ttyKeep, ttySlave, ttyKey, ttyFresh>>
  BY <1>1 DEF mapVars, madeVars
<1>4. \A q \in TtyRecycler : /\ ttyRecycler'[q].key = ttyRecycler[q].key
                             /\ ttyRecycler'[q].left = ttyRecycler[q].left
                             /\ ttyRecycler'[q].pc = "delSlave" => ttyRecycler[q].pc = "delSlave"
  BY <1>1 DEF TtyInv, TypeOK
<1>5. TypeOK'
  BY <1>1, <1>3 DEF TtyInv, TypeOK
<1>6. TtyMapsAgree' /\ TtyCovered' /\ TtyPunctual'
  BY <1>3, <1>4 DEF TtyInv, TtyMapsAgree, TtyCovered, TtyPunctual, HasTty, Busy
<1>7. Placed' /\ DeletionIsolated'
  BY <1>1, <1>2, <1>3, <1>4 DEF TtyInv, Placed, DeletionIsolated, HasTty, Busy
<1> QED
  BY <1>5, <1>6, <1>7 DEF TtyInv

(* A goroutine that finds its key gone returns.                            *)
LEMMA TtyExitsInv ==
  ASSUME TtyInv, Slaves!TypeOK', NEW r \in TtyRecycler, RecyclerExits(r)
  PROVE  TtyInv'
<1>1. /\ UNCHANGED <<mapVars, madeVars, conn, del, call>> /\ Busy(r) /\ ttyRecycler[r].pc = "sleep"
      /\ ttyIdle[ttyRecycler[r].key] = Absent
      /\ ttyRecycler' = [ttyRecycler EXCEPT ![r] = NoTtyRecycler]
  BY DEF RecyclerExits, Awake, slaveVars
<1>2. UNCHANGED <<ttys, ttyIdle, ttyKeep, ttySlave, ttyKey, ttyFresh>>
  BY <1>1 DEF mapVars, madeVars
<1>3. ttyRecycler[r].key \in Key /\ ~HasTty(ttyRecycler[r].key)
  BY <1>1 DEF TtyInv, TypeOK, TtyMapsAgree, Busy
<1>4. \A q \in TtyRecycler : q # r => ttyRecycler'[q] = ttyRecycler[q]
  BY <1>1 DEF TtyInv, TypeOK
<1>5. ttyRecycler'[r] = NoTtyRecycler
  BY <1>1 DEF TtyInv, TypeOK
<1>6. TypeOK'
  BY <1>1, <1>2 DEF TtyInv, TypeOK
<1>7. TtyMapsAgree' /\ TtyCovered'
  BY <1>2, <1>3, <1>4 DEF TtyInv, TtyMapsAgree, TtyCovered, HasTty, Window
<1>8. TtyPunctual' /\ Placed' /\ DeletionIsolated'
  BY <1>1, <1>2, <1>4, <1>5 DEF TtyInv, TtyPunctual, Placed, DeletionIsolated, HasTty, Busy
<1> QED
  BY <1>6, <1>7, <1>8 DEF TtyInv

(* A goroutine that finds its key not idle for long enough comes back      *)
(* within the window.                                                      *)
LEMMA TtyWaitsInv ==
  ASSUME TtyInv, Slaves!TypeOK', NEW r \in TtyRecycler, RecyclerWaits(r)
  PROVE  TtyInv'
<1> DEFINE k == ttyRecycler[r].key
<1>1. /\ UNCHANGED <<mapVars, madeVars, conn, del, call>> /\ Busy(r) /\ ttyIdle[k] # Absent
      /\ ~Expired(k)
      /\ ttyRecycler' = [ttyRecycler EXCEPT ![r] =
                           [pc |-> "sleep", key |-> k, left |-> Interval(k)]]
  BY DEF RecyclerWaits, Awake, Continue, slaveVars
<1>2. UNCHANGED <<ttys, ttyIdle, ttyKeep, ttySlave, ttyKey, ttyFresh>>
  BY <1>1 DEF mapVars, madeVars
<1>3. k \in Key /\ HasTty(k) /\ ttyIdle[k] \in Nat
  BY <1>1 DEF TtyInv, TypeOK, TtyMapsAgree, Busy
<1>4. Interval(k) \in Nat /\ Interval(k) = ttyKeep[ttys[k]] /\ ttyIdle[k] < Interval(k)
  BY <1>1, <1>3, TtyIntervalNat DEF Interval, Expired
<1>5. /\ \A q \in TtyRecycler : q # r => ttyRecycler'[q] = ttyRecycler[q]
      /\ ttyRecycler'[r] = [pc |-> "sleep", key |-> k, left |-> Interval(k)]
  BY <1>1 DEF TtyInv, TypeOK
<1>6. TypeOK'
  <2>1. ttyRecycler' \in [TtyRecycler -> [pc : {"sleep", "delSlave"}, key : Key \cup {None}, left : Int]]
    BY <1>1, <1>3, <1>4 DEF TtyInv, TypeOK
  <2> QED
    BY <1>1, <1>2, <2>1 DEF TtyInv, TypeOK
<1>7. TtyCovered'
  <2> SUFFICES ASSUME NEW kk \in Key, HasTty(kk)
               PROVE  \E q \in TtyRecycler :
                        /\ ttyRecycler'[q].key = kk
                        /\ ttyIdle[kk] + ttyRecycler'[q].left <= Window(ttyKeep[ttys[kk]])
    BY <1>2 DEF TtyCovered, HasTty
  <2>1. CASE kk = k
    <3>1. ttyIdle[k] + Interval(k) <= Window(Interval(k))
      BY <1>3, <1>4 DEF Window
    <3> QED
      BY <1>4, <1>5, <2>1, <3>1
  <2>2. CASE kk # k
    BY <1>5, <2>2 DEF TtyInv, TtyCovered
  <2> QED
    BY <2>1, <2>2
<1>8. TtyMapsAgree'
  BY <1>2 DEF TtyInv, TtyMapsAgree, HasTty
<1>9. TtyPunctual'
  BY <1>4, <1>5, SlaveAssumption DEF TtyInv, TtyPunctual, Busy
<1>10. Placed' /\ DeletionIsolated'
  BY <1>1, <1>2, <1>3, <1>5, SlaveAssumption DEF TtyInv, Placed, DeletionIsolated, HasTty, Busy
<1> QED
  BY <1>6, <1>7, <1>8, <1>9, <1>10 DEF TtyInv

(* Refreshing the time of last activity only brings a key further away     *)
(* from its bound.                                                         *)
LEMMA TtyUpdateInv ==
  ASSUME TtyInv, Slaves!TypeOK', NEW k \in Key, UpdateLastActiveTime(k)
  PROVE  TtyInv'
<1>1. /\ UNCHANGED <<ttys, ttyKeep, ttySlave, ttyKey, ttyFresh, ttyRecycler, conn, del, call>>
      /\ ttyIdle[k] # Absent /\ ttyIdle' = [ttyIdle EXCEPT ![k] = 0]
  BY DEF UpdateLastActiveTime, slaveVars, madeVars
<1>2. ttyIdle' \in [Key -> Nat \cup {Absent}] /\ ttyIdle[k] \in Nat
  BY <1>1 DEF TtyInv, TypeOK
<1>3. TypeOK'
  BY <1>1, <1>2 DEF TtyInv, TypeOK
<1>4. TtyMapsAgree'
  BY <1>1 DEF TtyInv, TypeOK, TtyMapsAgree, HasTty
<1>5. TtyCovered'
  <2> SUFFICES ASSUME NEW kk \in Key, HasTty(kk)
               PROVE  \E q \in TtyRecycler :
                        /\ ttyRecycler[q].key = kk
                        /\ ttyIdle'[kk] + ttyRecycler[q].left <= Window(ttyKeep[ttys[kk]])
    BY <1>1 DEF TtyCovered, HasTty
  <2>1. PICK q \in TtyRecycler :
          /\ ttyRecycler[q].key = kk
          /\ ttyIdle[kk] + ttyRecycler[q].left <= Window(ttyKeep[ttys[kk]])
    BY DEF TtyInv, TtyCovered
  <2>2. ttyIdle'[kk] <= ttyIdle[kk] /\ ttyIdle'[kk] \in Int /\ ttyIdle[kk] \in Int
    BY <1>1, <1>2 DEF TtyInv, TypeOK
  <2>3. ttyRecycler[q].left \in Int
    BY DEF TtyInv, TypeOK
  <2>4. Window(ttyKeep[ttys[kk]]) \in Int
    <3>1. ttyKeep[ttys[kk]] \in Nat
      BY TtyKeepAliveAssumption DEF TtyInv, TypeOK, HasTty
    <3> QED
      BY <3>1 DEF Window
  <2> QED
    BY <2>1, <2>2, <2>3, <2>4
<1>6. TtyPunctual' /\ Placed' /\ DeletionIsolated'
  BY <1>1 DEF TtyInv, TtyPunctual, Placed, DeletionIsolated, HasTty, Busy
<1> QED
  BY <1>3, <1>4, <1>5, <1>6 DEF TtyInv

(* A WebTTY is made, and registered with a goroutine of its own that is    *)
(* awake unless another caller was faster.                                 *)
LEMMA MakeInv ==
  ASSUME TtyInv, Slaves!TypeOK', NEW c \in Caller, MakeWebTTY(c)
  PROVE  TtyInv'
<1> DEFINE k == call[c].key
<1>0. PICK t \in ttyFresh, K \in TtyKeepAlive :
        /\ ttyFresh' = ttyFresh \ {t}
        /\ ttyKeep' = [ttyKeep EXCEPT ![t] = K]
        /\ ttySlave' = [ttySlave EXCEPT ![t] = call[c].slave]
        /\ ttyKey' = [ttyKey EXCEPT ![t] = k]
        /\ addWebTTY(k, t)
        /\ conn' = [conn EXCEPT ![c] = [pc |-> "run", tty |-> t]]
  BY DEF MakeWebTTY
<1>1. conn[c].pc = "add" /\ ~Locked /\ UNCHANGED <<call, del>>
  BY DEF MakeWebTTY, slaveVars
<1>2. k \in Key /\ call[c].slave \in Slave /\ call[c].pc = "got"
  <2>1. call[c].pc = "got"
    BY <1>1 DEF TtyInv, Placed
  <2>2. call[c] \in Slaves!CallState
    BY DEF TtyInv, TypeOK, Slaves!TypeOK
  <2> QED
    BY <2>1, <2>2 DEF Slaves!CallState, Slaves!NoCall
<1>3. t \in Tty /\ t # None /\ \A kk \in Key : ttys[kk] # t
  BY TtyNoneAssumption DEF TtyInv, TypeOK, TtyMapsAgree
<1>4. /\ ttyKeep' \in [Tty -> TtyKeepAlive] /\ ttySlave' \in [Tty -> Slave \cup {None}]
      /\ ttyKey' \in [Tty -> Key \cup {None}] /\ ttyFresh' \subseteq Tty
      /\ conn' \in [Caller -> {NoConn} \cup [pc : {"add"}, tty : {None}] \cup [pc : {"run"}, tty : Tty]]
  BY <1>0, <1>2, <1>3 DEF TtyInv, TypeOK
<1>5. \A kk \in Key : HasTty(kk) => ttyKeep'[ttys[kk]] = ttyKeep[ttys[kk]]
  BY <1>0, <1>3 DEF TtyInv, TypeOK, HasTty
<1>6. \A d \in Caller : d # c => conn'[d] = conn[d]
  BY <1>0 DEF TtyInv, TypeOK
<1>7. CASE HasTty(k)
  <2>1. UNCHANGED <<ttys, ttyIdle, ttyRecycler>>
    BY <1>0, <1>7 DEF addWebTTY
  <2>2. TypeOK'
    BY <1>1, <1>4, <2>1 DEF TtyInv, TypeOK
  <2>3. TtyMapsAgree' /\ TtyCovered' /\ TtyPunctual'
    BY <1>0, <1>5, <2>1 DEF TtyInv, TtyMapsAgree, TtyCovered, TtyPunctual, HasTty, Busy
  <2>4. Placed' /\ DeletionIsolated'
    BY <1>1, <1>2, <1>6, <2>1 DEF TtyInv, Placed, DeletionIsolated, HasTty, Busy
  <2> QED
    BY <2>2, <2>3, <2>4 DEF TtyInv
<1>8. CASE ~HasTty(k)
  <2>1. PICK r \in TtyRecycler :
          /\ ~Busy(r)
          /\ ttyRecycler' = [ttyRecycler EXCEPT ![r] = [pc |-> "sleep", key |-> k, left |-> 0]]
          /\ ttys' = [ttys EXCEPT ![k] = t] /\ ttyIdle' = [ttyIdle EXCEPT ![k] = 0]
    BY <1>0, <1>8 DEF addWebTTY
  <2>2. /\ \A q \in TtyRecycler : q # r => ttyRecycler'[q] = ttyRecycler[q]
        /\ ttyRecycler'[r] = [pc |-> "sleep", key |-> k, left |-> 0]
        /\ ttyRecycler' \in [TtyRecycler -> [pc : {"sleep", "delSlave"}, key : Key \cup {None}, left : Int]]
    BY <1>2, <2>1 DEF TtyInv, TypeOK
  <2>3. ttys' \in [Key -> Tty \cup {None}] /\ ttyIdle' \in [Key -> Nat \cup {Absent}]
    BY <1>2, <1>3, <2>1 DEF TtyInv, TypeOK
  <2>4. TypeOK'
    BY <1>1, <1>4, <2>2, <2>3 DEF TtyInv, TypeOK
  <2>5. TtyMapsAgree'
    BY <1>0, <1>2, <1>3, <2>1 DEF TtyInv, TypeOK, TtyMapsAgree, HasTty
  <2>6. TtyCovered'
    <3> SUFFICES ASSUME NEW kk \in Key, HasTty(kk)'
                 PROVE  \E q \in TtyRecycler :
                          /\ ttyRecycler'[q].key = kk
                          /\ ttyIdle'[kk] + ttyRecycler'[q].left <= Window(ttyKeep'[ttys'[kk]])
      BY DEF TtyCovered
    <3>1. CASE kk = k
      <4>1. ttyRecycler'[r].key = kk /\ ttyIdle'[kk] + ttyRecycler'[r].left = 0
        BY <2>1, <2>2, <3>1 DEF TtyInv, TypeOK
      <4>2. ttys'[kk] = t /\ ttyKeep'[t] \in Nat
        BY <1>0, <1>2, <1>3, <2>1, <3>1, TtyKeepAliveAssumption DEF TtyInv, TypeOK
      <4> QED
        BY <4>1, <4>2 DEF Window
    <3>2. CASE kk # k
      <4>1. ttys'[kk] = ttys[kk] /\ ttyIdle'[kk] = ttyIdle[kk] /\ HasTty(kk)
        BY <2>1, <3>2 DEF TtyInv, TypeOK, HasTty
      <4>2. PICK q \in TtyRecycler :
              /\ ttyRecycler[q].key = kk
              /\ ttyIdle[kk] + ttyRecycler[q].left <= Window(ttyKeep[ttys[kk]])
        BY <4>1 DEF TtyInv, TtyCovered
      <4>3. q # r
        BY <2>1, <4>2, SlaveAssumption DEF Busy
      <4> QED
        BY <1>5, <2>2, <4>1, <4>2, <4>3
    <3> QED
      BY <3>1, <3>2
  <2>7. TtyPunctual'
    BY <2>2, SlaveAssumption DEF TtyInv, TtyPunctual, Busy
  <2>8. Placed'
    BY <1>1, <1>2, <1>6, <2>2, SlaveAssumption DEF TtyInv, Placed, Busy
  <2>9. DeletionIsolated'
    BY <1>1, <2>2 DEF Locked, DeletionIsolated
  <2> QED
    BY <2>4, <2>5, <2>6, <2>7, <2>8, <2>9 DEF TtyInv
<1> QED
  BY <1>7, <1>8

(* A second passes for entries and goroutines alike.                       *)
LEMMA TtyTickInv ==
  ASSUME TtyInv, Slaves!TypeOK', Tick
  PROVE  TtyInv'
<1>1. /\ UNCHANGED <<ttys, ttyKeep, ttySlave, ttyKey, ttyFresh, conn, del, call>>
      /\ \A r \in TtyRecycler : Busy(r) => ttyRecycler[r].left > -Slack
      /\ ttyIdle' = [k \in Key |-> IF ttyIdle[k] = Absent THEN Absent ELSE ttyIdle[k] + 1]
      /\ ttyRecycler' = [r \in TtyRecycler |->
                           IF Busy(r)
                           THEN [pc |-> ttyRecycler[r].pc, key |-> ttyRecycler[r].key,
                                 left |-> ttyRecycler[r].left - 1]
                           ELSE ttyRecycler[r]]
  BY DEF Tick, Slaves!Tick, madeVars
<1>2. \A r \in TtyRecycler : Busy(r) => /\ ttyRecycler'[r].key = ttyRecycler[r].key
                                       /\ ttyRecycler'[r].pc = ttyRecycler[r].pc
                                       /\ ttyRecycler'[r].left = ttyRecycler[r].left - 1
  BY <1>1
<1>3. \A r \in TtyRecycler : ~Busy(r) => ttyRecycler'[r] = ttyRecycler[r]
  BY <1>1
<1>4. \A k \in Key : HasTty(k) => ttyIdle[k] \in Nat /\ ttyIdle'[k] = ttyIdle[k] + 1
  BY <1>1 DEF TtyInv, TypeOK, TtyMapsAgree
<1>5. \A k \in Key : ~HasTty(k) => ttyIdle'[k] = Absent
  BY <1>1 DEF TtyInv, TypeOK, TtyMapsAgree
<1>6. TypeOK'
  <2>1. ttyIdle' \in [Key -> Nat \cup {Absent}]
    BY <1>1 DEF TtyInv, TypeOK
  <2>2. ttyRecycler' \in [TtyRecycler -> [pc : {"sleep", "delSlave"}, key : Key \cup {None}, left : Int]]
    BY <1>1 DEF TtyInv, TypeOK
  <2> QED
    BY <1>1, <2>1, <2>2 DEF TtyInv, TypeOK
<1>7. TtyMapsAgree'
  BY <1>1, <1>4, <1>5 DEF TtyInv, TtyMapsAgree, HasTty
<1>8. TtyCovered'
  <2> SUFFICES ASSUME NEW k \in Key, HasTty(k)
               PROVE  \E r \in TtyRecycler :
                        /\ ttyRecycler'[r].key = k
                        /\ ttyIdle'[k] + ttyRecycler'[r].left <= Window(ttyKeep[ttys[k]])
    BY <1>1 DEF TtyCovered, HasTty
  <2>1. PICK r \in TtyRecycler :
          /\ ttyRecycler[r].key = k
          /\ ttyIdle[k] + ttyRecycler[r].left <= Window(ttyKeep[ttys[k]])
    BY DEF TtyInv, TtyCovered
  <2>2. Busy(r)
    BY <2>1, SlaveAssumption DEF Busy
  <2>3. ttyIdle[k] \in Nat /\ ttyRecycler[r].left \in Int
    BY <1>4 DEF TtyInv, TypeOK
  <2>4. ttyIdle'[k] = ttyIdle[k] + 1 /\ ttyRecycler'[r].left = ttyRecycler[r].left - 1
    BY <1>2, <1>4, <2>2
  <2>5. ttyIdle'[k] + ttyRecycler'[r].left = ttyIdle[k] + ttyRecycler[r].left
    BY <2>3, <2>4
  <2> QED
    BY <1>2, <2>1, <2>2, <2>5
<1>9. TtyPunctual'
  <2>1. \A r \in TtyRecycler : ttyRecycler[r].left \in Int
    BY DEF TtyInv, TypeOK
  <2> QED
    BY <1>1, <1>2, <1>3, <2>1, SlaveAssumption DEF TtyPunctual, Busy
<1>10. Placed' /\ DeletionIsolated'
  BY <1>1, <1>2, <1>3 DEF TtyInv, Placed, DeletionIsolated, HasTty, Busy
<1> QED
  BY <1>6, <1>7, <1>8, <1>9, <1>10 DEF TtyInv

(* Every step preserves the invariant of both registries.                  *)
BothInv == TtyInv /\ SlaveProofs!Inv

LEMMA BothInitInv == Init => BothInv
BY TtyInitInv, SlavesInitInv DEF Init, BothInv

LEMMA BothNextInv == BothInv /\ [Next]_vars => BothInv'
<1> SUFFICES ASSUME TtyInv, SlaveProofs!Inv, [Next]_vars PROVE BothInv'
  BY DEF BothInv
<1>1. SlaveProofs!Inv'
  BY SlavesNext, SlavesNextInv
<1>2. Slaves!TypeOK'
  BY <1>1, SlaveTypes, PTL
<1>3. TtyInv'
  <2>1. CASE SlaveStep
    BY <1>2, <2>1, SlaveStepInv
  <2>2. ASSUME NEW c \in Caller, Reattach(c) \/ Miss(c) \/ MakeWebTTY(c) \/ Detach(c)
        PROVE  TtyInv'
    BY <1>2, <2>2, LookupInv, MakeInv, DetachInv
  <2>3. ASSUME NEW g \in Reader, (\E k \in Key : DelWebTTY(g, k)) \/ DelMaps(g) \/ DelSlave(g)
        PROVE  TtyInv'
    BY <1>2, <2>3, ReaderInv, DelMapsInv
  <2>4. ASSUME NEW k \in Key, UpdateLastActiveTime(k) PROVE TtyInv'
    BY <1>2, <2>4, TtyUpdateInv
  <2>5. ASSUME NEW r \in TtyRecycler, AutoRecycle(r) PROVE TtyInv'
    BY <1>2, <2>5, TtyExitsInv, TtyDropsInv, TtyDelSlaveInv, TtyWaitsInv DEF AutoRecycle
  <2>6. CASE Tick
    BY <1>2, <2>6, TtyTickInv
  <2>7. CASE UNCHANGED vars
    <3>1. UNCHANGED <<ttys, ttyIdle, ttyKeep, ttySlave, ttyKey, ttyFresh, ttyRecycler, conn, del, call>>
      BY <2>7 DEF vars, ttyVars, slaveVars
    <3>2. TypeOK' /\ Placed'
      BY <1>2, <3>1 DEF TtyInv, TypeOK, Placed, Busy
    <3> QED
      BY <3>1, <3>2, MapsUntouched DEF mapVars, madeVars
  <2> QED
    BY <2>1, <2>2, <2>3, <2>4, <2>5, <2>6, <2>7 DEF Next
<1> QED
  BY <1>1, <1>3 DEF BothInv

LEMMA TtyInvariance == Spec => []BothInv
BY BothInitInv, BothNextInv, PTL DEF Spec

-----------------------------------------------------------------------------
(* A WebTTY is never idle for longer than its window and Slack.            *)
LEMMA TtyIdleIsBounded == TtyInv => TtyIdleBound
<1> SUFFICES ASSUME TtyInv, NEW k \in Key, HasTty(k)
             PROVE  ttyIdle[k] <= Window(ttyKeep[ttys[k]]) + Slack
  BY DEF TtyIdleBound
<1>1. PICK r \in TtyRecycler :
        /\ ttyRecycler[r].key = k
        /\ ttyIdle[k] + ttyRecycler[r].left <= Window(ttyKeep[ttys[k]])
  BY DEF TtyInv, TtyCovered
<1>2. ttyRecycler[r].left \in Int /\ ttyRecycler[r].left >= -Slack
  BY <1>1, SlaveAssumption DEF TtyInv, TypeOK, TtyPunctual, Busy
<1>3. ttyIdle[k] \in Int /\ Slack \in Int
  BY SlaveAssumption DEF TtyInv, TypeOK
<1>4. ttyKeep[ttys[k]] \in Nat
  BY TtyKeepAliveAssumption DEF TtyInv, TypeOK, HasTty
<1>5. Window(ttyKeep[ttys[k]]) \in Int
  BY <1>4 DEF Window
<1> QED
  BY <1>1, <1>2, <1>3, <1>5

(* Nobody attaches to a WebTTY whose slave is being deleted, and one that  *)
(* nobody uses goes within its window, however DelWebTTY, the goroutines   *)
(* of earlier registrations and the slave registry interleave.             *)
THEOREM WebTtysAreSafe == Spec => []Safe
<1>1. BothInv => Safe
  BY TtyIdleIsBounded DEF BothInv, TtyInv, Safe
<1> QED
  BY <1>1, TtyInvariance, PTL

(* In particular the bound on its idleness, which the liveness run checks. *)
THEOREM WebTtysGoInTime == Spec => []TtyIdleBound
<1>1. BothInv => TtyIdleBound
  BY TtyIdleIsBounded DEF BothInv
<1> QED
  BY <1>1, TtyInvariance, PTL

-----------------------------------------------------------------------------
(* Refinement: to its users the WebTTY registry is a KeepAliveMap, and it  *)
(* uses the slave registry as one more caller of it.                       *)

LEMMA TtyInitImplements == Init => AbstractTtys!Init
BY DEF Init, AbstractTtys!Init, AbstractTtys!Absent

(* A WebTTY is made: registered if its key is still free, otherwise only   *)
(* its keepAlive is set.                                                   *)
LEMMA MakeImplements ==
  ASSUME TtyInv, NEW c \in Caller, MakeWebTTY(c)
  PROVE  AbstractTtys!Next
<1>1. PICK t \in ttyFresh, K \in TtyKeepAlive :
        ttyKeep' = [ttyKeep EXCEPT ![t] = K] /\ addWebTTY(call[c].key, t)
  BY DEF MakeWebTTY
<1>2. t \in Tty /\ \A k \in Key : ttys[k] # t
  BY DEF TtyInv, TypeOK, TtyMapsAgree
<1>3. call[c].key \in Key
  <2>1. call[c].pc = "got"
    BY DEF TtyInv, Placed, MakeWebTTY
  <2>2. call[c] \in Slaves!CallState
    BY DEF TtyInv, TypeOK, Slaves!TypeOK
  <2> QED
    BY <2>1, <2>2 DEF Slaves!CallState, Slaves!NoCall
<1>4. CASE HasTty(call[c].key)
  <2>1. AbstractTtys!Configure(t, K)
    BY <1>1, <1>2, <1>4 DEF addWebTTY, AbstractTtys!Configure
  <2> QED
    BY <1>2, <2>1 DEF AbstractTtys!Next
<1>5. CASE ~HasTty(call[c].key)
  <2>1. AbstractTtys!Add(call[c].key, t, K)
    BY <1>1, <1>2, <1>5 DEF addWebTTY, AbstractTtys!Add, HasTty
  <2> QED
    BY <1>2, <1>3, <2>1 DEF AbstractTtys!Next
<1> QED
  BY <1>4, <1>5

(* A key is removed from the maps, or was not there.                       *)
LEMMA UnregisterImplements ==
  ASSUME TtyInv, NEW k \in Key, Unregister(k), UNCHANGED madeVars
  PROVE  [AbstractTtys!Next]_(AbstractTtys!vars)
<1>1. CASE HasTty(k)
  <2>1. AbstractTtys!Drop(k)
    BY <1>1 DEF Unregister, HasTty, AbstractTtys!Drop, AbstractTtys!Absent, madeVars
  <2> QED
    BY <2>1 DEF AbstractTtys!Next
<1>2. CASE ~HasTty(k)
  <2>1. ttys[k] = None /\ ttyIdle[k] = Absent
    BY <1>2 DEF TtyInv, TtyMapsAgree, HasTty
  <2>2. ttys' = ttys /\ ttyIdle' = ttyIdle
    BY <2>1 DEF TtyInv, TypeOK, Unregister
  <2> QED
    BY <2>2 DEF AbstractTtys!vars, madeVars
<1> QED
  BY <1>1, <1>2

(* A second may pass: no WebTTY is at the end of its time.                 *)
LEMMA TickImplements ==
  ASSUME TtyInv, Tick
  PROVE  AbstractTtys!Next
<1>1. ASSUME NEW k \in Key, HasTty(k)
      PROVE  ttyIdle[k] < AbstractTtys!Window(ttyKeep[ttys[k]]) + Slack
  <2>1. PICK r \in TtyRecycler :
          /\ ttyRecycler[r].key = k
          /\ ttyIdle[k] + ttyRecycler[r].left <= Window(ttyKeep[ttys[k]])
    BY <1>1 DEF TtyInv, TtyCovered
  <2>2. ttyRecycler[r].left \in Int /\ ttyRecycler[r].left > -Slack
    BY <2>1, SlaveAssumption DEF Tick, TtyInv, TypeOK, Busy
  <2>3. ttyIdle[k] \in Int /\ Slack \in Int
    BY SlaveAssumption DEF TtyInv, TypeOK
  <2>4. ttyKeep[ttys[k]] \in Nat
    BY <1>1, TtyKeepAliveAssumption DEF TtyInv, TypeOK, HasTty
  <2>5. /\ Window(ttyKeep[ttys[k]]) \in Int
        /\ Window(ttyKeep[ttys[k]]) = AbstractTtys!Window(ttyKeep[ttys[k]])
    BY <2>4 DEF Window, AbstractTtys!Window
  <2> QED
    BY <2>1, <2>2, <2>3, <2>5
<1>2. ttyIdle' = [k \in Key |-> IF ttys[k] = None THEN AbstractTtys!Absent ELSE ttyIdle[k] + 1]
  BY DEF Tick, TtyInv, TtyMapsAgree, HasTty, AbstractTtys!Absent
<1>3. UNCHANGED <<ttys, ttyKeep>>
  BY DEF Tick, madeVars
<1> QED
  BY <1>1, <1>2, <1>3 DEF HasTty, AbstractTtys!Tick, AbstractTtys!Next

(* Every step maps to a step of the keep-alive map or to none.             *)
LEMMA TtyNextImplements == TtyInv /\ [Next]_vars => [AbstractTtys!Next]_(AbstractTtys!vars)
<1> SUFFICES ASSUME TtyInv, [Next]_vars PROVE [AbstractTtys!Next]_(AbstractTtys!vars)
  OBVIOUS
<1>1. UNCHANGED <<ttys, ttyIdle, ttyKeep>> => [AbstractTtys!Next]_(AbstractTtys!vars)
  BY DEF AbstractTtys!vars
<1>2. CASE SlaveStep
  BY <1>1, <1>2 DEF SlaveStep, ttyVars
<1>3. ASSUME NEW c \in Caller, Reattach(c) \/ Miss(c) \/ Detach(c)
      PROVE  UNCHANGED <<ttys, ttyIdle, ttyKeep>>
  BY <1>3 DEF Reattach, Miss, Detach, mapVars, madeVars
<1>4. ASSUME NEW g \in Reader, (\E k \in Key : DelWebTTY(g, k)) \/ DelSlave(g)
      PROVE  UNCHANGED <<ttys, ttyIdle, ttyKeep>>
  BY <1>4 DEF DelWebTTY, DelSlave, mapVars, madeVars
<1>5. ASSUME NEW g \in Reader, DelMaps(g)
      PROVE  [AbstractTtys!Next]_(AbstractTtys!vars)
  BY <1>5, UnregisterImplements DEF DelMaps, TtyInv, TypeOK, Placed
<1>6. ASSUME NEW k \in Key, UpdateLastActiveTime(k)
      PROVE  AbstractTtys!Next
  <2>1. AbstractTtys!Touch(k)
    BY <1>6 DEF UpdateLastActiveTime, TtyInv, TtyMapsAgree, HasTty, madeVars, AbstractTtys!Touch
  <2> QED
    BY <2>1 DEF AbstractTtys!Next
<1>7. ASSUME NEW r \in TtyRecycler, RecyclerExits(r) \/ RecyclerDelSlave(r) \/ RecyclerWaits(r)
      PROVE  UNCHANGED <<ttys, ttyIdle, ttyKeep>>
  BY <1>7 DEF RecyclerExits, RecyclerDelSlave, RecyclerWaits, mapVars, madeVars
<1>8. ASSUME NEW r \in TtyRecycler, RecyclerDrops(r)
      PROVE  [AbstractTtys!Next]_(AbstractTtys!vars)
  BY <1>8, UnregisterImplements DEF RecyclerDrops, Awake, Busy, TtyInv, TypeOK
<1>9. CASE Tick
  BY <1>9, TickImplements
<1>10. CASE UNCHANGED vars
  BY <1>1, <1>10 DEF vars, ttyVars
<1> QED
  BY <1>1, <1>2, <1>3, <1>4, <1>5, <1>6, <1>7, <1>8, <1>9, <1>10, MakeImplements
     DEF Next, AutoRecycle

(* The WebTTY registry is a keep-alive map, and under it the slave         *)
(* registry behaves as specified alone.                                    *)
THEOREM WebTtysImplement == Spec => Implements
<1>1. Init => Slaves!Init
  BY DEF Init
<1>2. BothInv /\ [Next]_vars => [Slaves!Next]_(Slaves!vars)
  BY SlavesNext DEF BothInv
<1>3. BothInv /\ [Next]_vars => [AbstractTtys!Next]_(AbstractTtys!vars)
  BY TtyNextImplements DEF BothInv
<1> QED
  BY <1>1, <1>2, <1>3, TtyInitImplements, TtyInvariance, PTL
     DEF Spec, Implements, Slaves!Spec, AbstractTtys!Spec

(* Under the WebTTY registry, too, no slave is closed twice, none has two  *)
(* keys, and none outstays its window.                                     *)
THEOREM SlavesStaySafe == Spec => []Slaves!Safe
<1>1. SlaveProofs!Safe => Slaves!Safe
  BY SlaveTypes DEF Slaves!Safe, SlaveProofs!Safe, SlaveProofs!Inv, Slaves!Inv,
    SlaveProofs!IdleBound, Slaves!IdleBound, SlaveProofs!MapsAgree, Slaves!MapsAgree,
    SlaveProofs!Covered, Slaves!Covered, SlaveProofs!Punctual, Slaves!Punctual,
    SlaveProofs!OneKey, Slaves!OneKey, SlaveProofs!ClosedOnce, Slaves!ClosedOnce,
    SlaveProofs!Registered, Slaves!Registered, SlaveProofs!Busy, Slaves!Busy,
    SlaveProofs!Window, Slaves!Window, SlaveProofs!Absent, Slaves!Absent
<1>2. SlaveProofs!Spec => []SlaveProofs!Safe
  BY SlaveAssumption, SlaveProofs!RegistryIsSafe
<1>3. Spec => Slaves!Spec
  BY WebTtysImplement DEF Implements
<1>4. Slaves!Spec => SlaveProofs!Spec
  BY SameInit, SameNext, PTL DEF Slaves!Spec, SlaveProofs!Spec
<1> QED
  BY <1>1, <1>2, <1>3, <1>4, PTL
=============================================================================
