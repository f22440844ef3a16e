------------------------- MODULE SlaveRegistryProofs -------------------------
(* Proofs about SlaveRegistry, for every value of its constants.           *)
EXTENDS SlaveRegistry, TLAPS

USE DEF Absent, NoRecycler, NoCall

(* Nothing is registered and no goroutine runs in the initial states.      *)
LEMMA InitInv == Init => Inv
<1> SUFFICES ASSUME Init PROVE Inv
  OBVIOUS
<1> USE KeepAliveAssumption, SlackAssumption, NoneAssumption DEF Init, Registered, Busy
<1>1. TypeOK
  BY DEF TypeOK, CallState
<1>2. MapsAgree /\ Covered /\ Punctual /\ OneKey /\ ClosedOnce
  BY DEF MapsAgree, Covered, Punctual, OneKey, ClosedOnce
<1> QED
  BY <1>1, <1>2 DEF Inv

(* Removing the entry of a key keeps what the invariant says of the maps.  *)
LEMMA UnregisterInv ==
  ASSUME Inv, NEW kk \in Key, Unregister(kk),
         UNCHANGED <<keepAlive, fresh, recycler, call>>
  PROVE  /\ slaves' \in [Key -> Slave \cup {None}]
         /\ idle' \in [Key -> Nat \cup {Absent}]
         /\ callback' \in [Key -> Slave \cup {None}]
         /\ MapsAgree'
         /\ Covered'
         /\ \A k1, k2 \in Key : Registered(k1)' /\ slaves'[k1] = slaves'[k2] => k1 = k2
<1> USE NoneAssumption DEF Inv, TypeOK, Unregister, Registered
<1>1. MapsAgree'
  BY DEF MapsAgree
<1>2. Covered'
  BY DEF Covered
<1>3. \A k1, k2 \in Key : Registered(k1)' /\ slaves'[k1] = slaves'[k2] => k1 = k2
  BY DEF OneKey
<1> QED
  BY <1>1, <1>2, <1>3

(* Dropping a key (DelSlave) keeps the invariant.                          *)
LEMMA DelSlaveInv ==
  ASSUME Inv, NEW kk \in Key, DelSlave(kk)
  PROVE  Inv'
<1> USE NoneAssumption DEF DelSlave
<1>1. TypeOK' /\ MapsAgree' /\ Covered'
  BY UnregisterInv DEF TypeOK, Inv
<1>2. Punctual'
  BY DEF Punctual, Inv, Busy
<1>3. \A k \in Key : slaves'[k] = slaves[k] \/ slaves'[k] = None
  BY DEF Unregister, Inv, TypeOK
<1>4. OneKey'
  BY <1>3, UnregisterInv DEF OneKey, Inv, TypeOK
<1>5. ClosedOnce'
  BY <1>3 DEF ClosedOnce, Inv, TypeOK
<1> QED
  BY <1>1, <1>2, <1>4, <1>5 DEF Inv

(* A step that only touches callers keeps the invariant.                   *)
LEMMA CallInv ==
  ASSUME Inv, NEW c \in Caller,
         StartFails(c) \/ Release(c)
  PROVE  Inv'
<1>1. UNCHANGED <<slaves, idle, callback, keepAlive, fresh, closed, recycler>>
  BY DEF StartFails, Release
<1>2. TypeOK'
  BY DEF StartFails, Release, TypeOK, Inv, CallState
<1> QED
  BY <1>1, <1>2 DEF Inv, MapsAgree, Covered, Punctual, OneKey, ClosedOnce,
       Registered, Busy, Window

(* Refreshing the time of last activity only brings a key further away     *)
(* from its bound.                                                         *)
LEMMA TouchInv ==
  ASSUME Inv, NEW kk \in Key, Registered(kk),
         idle' = [idle EXCEPT ![kk] = 0],
         UNCHANGED <<slaves, callback, keepAlive, fresh, closed, recycler>>,
         call' \in [Caller -> CallState]
  PROVE  Inv'
<1>1. idle[kk] >= 0
  BY DEF Inv, TypeOK, MapsAgree
<1>2. TypeOK'
  <2>1. idle' \in [Key -> Nat \cup {Absent}]
    BY DEF Inv, TypeOK
  <2> QED
    BY <2>1 DEF Inv, TypeOK, CallState
<1>3. MapsAgree'
  BY DEF Inv, TypeOK, MapsAgree, Registered
<1>4. Covered'
  <2> SUFFICES ASSUME NEW k \in Key, Registered(k)'
               PROVE  \E r \in Recycler :
                         /\ recycler'[r].key = k
                         /\ idle'[k] + recycler'[r].left <= Window(keepAlive'[slaves'[k]])
    BY DEF Covered
  <2>1. PICK r \in Recycler :
          /\ recycler[r].key = k
          /\ idle[k] + recycler[r].left <= Window(keepAlive[slaves[k]])
    BY DEF Inv, Covered, Registered
  <2>2. idle'[k] <= idle[k] /\ idle'[k] \in Int /\ idle[k] \in Int
    BY <1>1 DEF Inv, TypeOK
  <2>3. recycler[r].left \in Int
    BY DEF Inv, TypeOK
  <2>4. Window(keepAlive[slaves[k]]) \in Int
    <3>1. keepAlive[slaves[k]] \in Nat
      BY KeepAliveAssumption DEF Inv, TypeOK, Registered
    <3> QED
      BY <3>1 DEF Window
  <2> QED
    BY <2>1, <2>2, <2>3, <2>4
<1>5. Punctual' /\ OneKey' /\ ClosedOnce'
  BY DEF Inv, Punctual, OneKey, ClosedOnce, Registered, Busy
<1> QED
  BY <1>2, <1>3, <1>4, <1>5 DEF Inv

(* UpdateLastActiveTime keeps the invariant.                               *)
LEMMA UpdateInv ==
  ASSUME Inv, NEW k \in Key, UpdateLastActiveTime(k)
  PROVE  Inv'
<1>1. call' \in [Caller -> CallState]
  BY DEF UpdateLastActiveTime, Inv, TypeOK
<1> QED
  BY <1>1, TouchInv DEF UpdateLastActiveTime

(* GetSlave keeps the invariant, whether it finds a slave or not.          *)
LEMMA GetSlaveInv ==
  ASSUME Inv, NEW c \in Caller, NEW k \in Key, GetSlave(c, k)
  PROVE  Inv'
<1>1. call' \in [Caller -> CallState]
  BY DEF GetSlave, Inv, TypeOK, CallState, Registered
<1>2. CASE Registered(k)
  BY <1>1, <1>2, TouchInv DEF GetSlave
<1>3. CASE ~Registered(k)
  <2>1. UNCHANGED <<slaves, idle, callback, keepAlive, fresh, closed, recycler>>
    BY <1>3 DEF GetSlave
  <2>2. TypeOK'
    BY <1>1, <2>1 DEF Inv, TypeOK
  <2> QED
    BY <2>1, <2>2 DEF Inv, MapsAgree, Covered, Punctual, OneKey, ClosedOnce,
         Registered, Busy, Window
<1> QED
  BY <1>2, <1>3

(* A new registration comes with a goroutine of its own that is awake.     *)
LEMMA StartAndAddInv ==
  ASSUME Inv, NEW c \in Caller, StartAndAdd(c)
  PROVE  Inv'
<1> DEFINE k == call[c].key
<1>0. PICK s \in fresh, K \in KeepAlive :
        /\ fresh' = fresh \ {s}
        /\ keepAlive' = [keepAlive EXCEPT ![s] = K]
        /\ AddSlave(k, s)
        /\ call' = [call EXCEPT ![c] =
                      [pc |-> "got", key |-> call[c].key, slave |-> s]]
        /\ closed' = closed
  BY DEF StartAndAdd
<1> USE NoneAssumption, KeepAliveAssumption, SlackAssumption
<1>k. k \in Key
  <2>1. call[c] \in CallState /\ call[c].pc = "start"
    BY DEF Inv, TypeOK, StartAndAdd
  <2> QED
    BY <2>1 DEF CallState
<1>1. s \in Slave /\ closed[s] = 0 /\ \A kk \in Key : slaves[kk] # s
  BY DEF Inv, TypeOK, OneKey
<1>2. CASE Registered(k)
  <2>1. UNCHANGED <<slaves, idle, callback, recycler, closed>>
    BY <1>0, <1>2 DEF AddSlave
  <2>2. TypeOK'
    BY <1>0, <1>1, <1>k, <2>1 DEF Inv, TypeOK, CallState
  <2>3. \A kk \in Key : Registered(kk) => keepAlive'[slaves[kk]] = keepAlive[slaves[kk]]
    BY <1>0, <1>1 DEF Inv, TypeOK, Registered
  <2>4. Covered'
    BY <2>1, <2>3 DEF Inv, Covered, Registered
  <2>5. MapsAgree' /\ Punctual' /\ OneKey' /\ ClosedOnce'
    BY <1>0, <2>1 DEF Inv, MapsAgree, Punctual, OneKey, ClosedOnce, Registered, Busy
  <2> QED
    BY <2>2, <2>4, <2>5 DEF Inv
<1>3. CASE ~Registered(k)
  <2>1. PICK r \in Recycler :
          /\ ~Busy(r)
          /\ recycler' = [recycler EXCEPT ![r] = [key |-> k, left |-> 0]]
          /\ slaves' = [slaves EXCEPT ![k] = s]
          /\ idle' = [idle EXCEPT ![k] = 0]
          /\ callback' = [callback EXCEPT ![k] = s]
    BY <1>0, <1>3 DEF AddSlave
  <2>3. TypeOK'
    BY <1>0, <1>1, <1>k, <2>1 DEF Inv, TypeOK, CallState
  <2>4. MapsAgree'
    BY <1>1, <1>k, <2>1 DEF Inv, TypeOK, MapsAgree, Registered
  <2>5. Covered'
    <3> SUFFICES ASSUME NEW kk \in Key, Registered(kk)'
                 PROVE  \E q \in Recycler :
                          /\ recycler'[q].key = kk
                          /\ idle'[kk] + recycler'[q].left <= Window(keepAlive'[slaves'[kk]])
      BY DEF Covered
    <3>1. CASE kk = k
      <4>1. recycler'[r].key = kk /\ idle'[kk] + recycler'[r].left = 0
        BY <2>1, <3>1 DEF Inv, TypeOK
      <4>2. slaves'[kk] = s /\ keepAlive'[s] \in Nat
        BY <1>0, <1>1, <2>1, <3>1 DEF Inv, TypeOK
      <4> QED
        BY <4>1, <4>2 DEF Window
    <3>2. CASE kk # k
      <4>1. slaves'[kk] = slaves[kk] /\ idle'[kk] = idle[kk] /\ Registered(kk)
        BY <2>1, <3>2 DEF Inv, TypeOK, Registered
      <4>2. PICK q \in Recycler :
              /\ recycler[q].key = kk
              /\ idle[kk] + recycler[q].left <= Window(keepAlive[slaves[kk]])
        BY <4>1 DEF Inv, Covered
      <4>3. recycler'[q] = recycler[q]
        BY <2>1, <4>2 DEF Busy, Inv, TypeOK
      <4>4. keepAlive'[slaves'[kk]] = keepAlive[slaves[kk]]
        BY <1>0, <1>1, <4>1 DEF Inv, TypeOK, Registered
      <4> QED
        BY <4>1, <4>2, <4>3, <4>4
    <3> QED
      BY <3>1, <3>2
  <2>6. Punctual'
    BY <2>1 DEF Inv, TypeOK, Punctual, Busy
  <2>7. OneKey' /\ ClosedOnce'
    BY <1>0, <1>1, <1>k, <2>1 DEF Inv, TypeOK, OneKey, ClosedOnce, Registered
  <2> QED
    BY <2>3, <2>4, <2>5, <2>6, <2>7 DEF Inv
<1> QED
  BY <1>2, <1>3

(* The time between two looks of a goroutine is a number of seconds.       *)
LEMMA IntervalNat ==
  ASSUME Inv, NEW k \in Key
  PROVE  Interval(k) \in Nat
BY KeepAliveAssumption DEF Inv, TypeOK, Interval, Registered

(* A goroutine that finds its key gone returns, which keeps the invariant.  *)
LEMMA ExitsInv ==
  ASSUME Inv, NEW r \in Recycler, RecyclerExits(r)
  PROVE  Inv'
<1> USE NoneAssumption DEF RecyclerExits, Awake, Busy
<1>1. recycler[r].key \in Key /\ ~Registered(recycler[r].key)
  BY DEF Inv, TypeOK, MapsAgree
<1>2. TypeOK' /\ Punctual'
  BY DEF Inv, TypeOK, Punctual
<1>3. Covered'
  BY <1>1 DEF Inv, TypeOK, Covered, Registered
<1>4. MapsAgree' /\ OneKey' /\ ClosedOnce'
  BY DEF Inv, MapsAgree, OneKey, ClosedOnce, Registered
<1> QED
  BY <1>2, <1>3, <1>4 DEF Inv

(* A goroutine that finds its key not idle for long enough comes back      *)
(* after keepAlive seconds: that is within the window.                     *)
LEMMA WaitsInv ==
  ASSUME Inv, NEW r \in Recycler, RecyclerWaits(r)
  PROVE  Inv'
<1> DEFINE k == recycler[r].key
<1> USE NoneAssumption, SlackAssumption DEF RecyclerWaits, Awake, Busy
<1>1. k \in Key /\ Registered(k)
  BY DEF Inv, TypeOK, MapsAgree
<1>2. Interval(k) \in Nat /\ Interval(k) = keepAlive[slaves[k]]
  BY <1>1, IntervalNat DEF Interval
<1>3. recycler' = [recycler EXCEPT ![r] = [key |-> k, left |-> Interval(k)]]
  BY DEF Sleep
<1>4. TypeOK'
  BY <1>1, <1>2, <1>3 DEF Inv, TypeOK
<1>5. Punctual'
  BY <1>2, <1>3 DEF Inv, TypeOK, Punctual
<1>6. Covered'
  <2> SUFFICES ASSUME NEW kk \in Key, Registered(kk)
               PROVE  \E q \in Recycler :
                        /\ recycler'[q].key = kk
                        /\ idle[kk] + recycler'[q].left <= Window(keepAlive[slaves[kk]])
    BY DEF Covered, Registered
  <2>1. CASE kk = k
    <3>1. idle[k] \in Nat /\ idle[k] < Interval(k)
      BY <1>1, <1>2 DEF Inv, TypeOK, Expired
    <3>2. recycler'[r].key = k /\ recycler'[r].left = Interval(k)
      BY <1>3 DEF Inv, TypeOK
    <3>3. idle[k] + Interval(k) <= Window(Interval(k))
      BY <1>2, <3>1 DEF Window
    <3> QED
      BY <1>2, <2>1, <3>2, <3>3
  <2>2. CASE kk # k
    BY <1>3, <2>2 DEF Inv, TypeOK, Covered
  <2> QED
    BY <2>1, <2>2
<1>7. MapsAgree' /\ OneKey' /\ ClosedOnce'
  BY DEF Inv, MapsAgree, OneKey, ClosedOnce, Registered
<1> QED
  BY <1>4, <1>5, <1>6, <1>7 DEF Inv

(* The only step that runs a callback: that of a registered slave, whose   *)
(* callback cannot have run before.                                        *)
LEMMA DropsClosed ==
  ASSUME Inv, NEW r \in Recycler, RecyclerDrops(r)
  PROVE  LET k == recycler[r].key IN
         /\ k \in Key /\ Registered(k) /\ slaves[k] \in Slave
         /\ closed[slaves[k]] = 0
         /\ closed' = [closed EXCEPT ![slaves[k]] = 1]
<1> DEFINE k == recycler[r].key
<1> USE NoneAssumption DEF RecyclerDrops, Awake, Busy
<1>1. k \in Key /\ Registered(k) /\ callback[k] = slaves[k]
  BY DEF Inv, TypeOK, MapsAgree
<1>2. slaves[k] \in Slave
  BY <1>1 DEF Inv, TypeOK, Registered
<1>3. closed[slaves[k]] \in Nat /\ closed[slaves[k]] <= 1 /\ closed[slaves[k]] # 1
  BY <1>1, <1>2 DEF Inv, TypeOK, ClosedOnce
<1>4. closed[slaves[k]] = 0
  BY <1>3
<1>5. closed' = [closed EXCEPT ![slaves[k]] = closed[slaves[k]] + 1]
  BY <1>1, <1>2 DEF RunCallback
<1> QED
  BY <1>1, <1>2, <1>4, <1>5

(* A goroutine that drops its idle slave keeps the invariant.              *)
LEMMA DropsInv ==
  ASSUME Inv, NEW r \in Recycler, RecyclerDrops(r)
  PROVE  Inv'
<1> DEFINE k == recycler[r].key
<1> USE NoneAssumption, SlackAssumption DEF RecyclerDrops, Awake, Busy
<1>1. k \in Key /\ Registered(k) /\ slaves[k] \in Slave /\ closed[slaves[k]] = 0
  BY DropsClosed
<1>2. closed' = [closed EXCEPT ![slaves[k]] = 1]
  BY DropsClosed
<1>3. Interval(k) \in Nat
  BY <1>1, IntervalNat
<1>4. recycler' = [recycler EXCEPT ![r] = [key |-> k, left |-> Interval(k)]]
  BY DEF Sleep
<1>5. slaves' = [slaves EXCEPT ![k] = None]
  BY DEF Unregister
<1>6. TypeOK'
  BY <1>1, <1>2, <1>3, <1>4 DEF Inv, TypeOK, Unregister
<1>7. MapsAgree'
  BY <1>1 DEF Inv, TypeOK, MapsAgree, Unregister, Registered
<1>8. Covered'
  <2> SUFFICES ASSUME NEW kk \in Key, Registered(kk)'
               PROVE  \E q \in Recycler :
                        /\ recycler'[q].key = kk
                        /\ idle'[kk] + recycler'[q].left <= Window(keepAlive'[slaves'[kk]])
    BY DEF Covered
  <2>1. kk # k /\ slaves'[kk] = slaves[kk] /\ idle'[kk] = idle[kk] /\ Registered(kk)
    BY <1>1 DEF Inv, TypeOK, Unregister, Registered
  <2>2. PICK q \in Recycler :
          /\ recycler[q].key = kk
          /\ idle[kk] + recycler[q].left <= Window(keepAlive[slaves[kk]])
    BY <2>1 DEF Inv, Covered
  <2>3. recycler'[q] = recycler[q]
    BY <1>4, <2>1, <2>2 DEF Inv, TypeOK
  <2> QED
    BY <2>1, <2>2, <2>3
<1>9. Punctual'
  BY <1>3, <1>4 DEF Inv, TypeOK, Punctual
<1>10. OneKey'
  <2>1. \A s \in fresh : s # slaves[k]
    BY <1>1 DEF Inv, OneKey
  <2> QED
    BY <1>1, <1>2, <1>5, <2>1 DEF Inv, TypeOK, OneKey, Registered
<1>11. ClosedOnce'
  <2> SUFFICES ASSUME NEW s \in Slave
               PROVE  /\ closed'[s] <= 1
                      /\ closed'[s] = 1 => \A kk \in Key : slaves'[kk] # s
    BY DEF ClosedOnce
  <2>1. CASE s = slaves[k]
    BY <1>1, <1>2, <1>5, <2>1 DEF Inv, TypeOK, OneKey, Registered
  <2>2. CASE s # slaves[k]
    BY <1>1, <1>2, <1>5, <2>2 DEF Inv, TypeOK, ClosedOnce
  <2> QED
    BY <2>1, <2>2
<1> QED
  BY <1>6, <1>7, <1>8, <1>9, <1>10, <1>11 DEF Inv

(* A second passes for entries and goroutines alike.                       *)
LEMMA TickInv ==
  ASSUME Inv, Tick
  PROVE  Inv'
<1> USE NoneAssumption, SlackAssumption DEF Tick
<1>1. \A r \in Recycler :
        Busy(r) => /\ recycler'[r].key = recycler[r].key
                   /\ recycler'[r].left = recycler[r].left - 1
  BY DEF Inv, TypeOK
<1>2. \A r \in Recycler : ~Busy(r) => recycler'[r] = recycler[r]
  BY DEF Inv, TypeOK
<1>3. \A k \in Key : Registered(k) => idle[k] \in Nat /\ idle'[k] = idle[k] + 1
  BY DEF Inv, TypeOK, MapsAgree
<1>4. \A k \in Key : ~Registered(k) => idle'[k] = Absent
  BY DEF Inv, TypeOK, MapsAgree
<1>5. TypeOK'
  <2>1. idle' \in [Key -> Nat \cup {Absent}]
    BY DEF Inv, TypeOK
  <2>2. recycler' \in [Recycler -> [key : Key \cup {None}, left : Int]]
    BY DEF Inv, TypeOK, Busy
  <2> QED
    BY <2>1, <2>2 DEF Inv, TypeOK, CallState
<1>6. MapsAgree'
  BY <1>3, <1>4 DEF Inv, MapsAgree, Registered
<1>7. Covered'
  <2> SUFFICES ASSUME NEW k \in Key, Registered(k)
               PROVE  \E r \in Recycler :
                        /\ recycler'[r].key = k
                        /\ idle'[k] + recycler'[r].left <= Window(keepAlive[slaves[k]])
    BY DEF Covered, Registered
  <2>1. PICK r \in Recycler :
          /\ recycler[r].key = k
          /\ idle[k] + recycler[r].left <= Window(keepAlive[slaves[k]])
    BY DEF Inv, Covered
  <2>2. Busy(r)
    BY <2>1 DEF Busy
  <2>3. idle'[k] + recycler'[r].left = idle[k] + recycler[r].left
    <3>1. idle[k] \in Nat /\ recycler[r].left \in Int
      BY <1>3 DEF Inv, TypeOK
    <3>2. idle'[k] = idle[k] + 1 /\ recycler'[r].left = recycler[r].left - 1
      BY <1>1, <1>3, <2>2
    <3> QED
      BY <3>1, <3>2
  <2>4. recycler'[r].key = k
    BY <1>1, <2>1, <2>2
  <2> QED
    BY <2>1, <2>3, <2>4
<1>8. Punctual'
  BY <1>1, <1>2 DEF Inv, TypeOK, Punctual, Busy
<1>9. OneKey' /\ ClosedOnce'
  BY DEF Inv, OneKey, ClosedOnce, Registered
<1> QED
  BY <1>5, <1>6, <1>7, <1>8, <1>9 DEF Inv

-----------------------------------------------------------------------------
(* Every step keeps the invariant.                                         *)
LEMMA NextInv == Inv /\ [Next]_vars => Inv'
<1> SUFFICES ASSUME Inv, [Next]_vars PROVE Inv'
  OBVIOUS
<1>1. CASE \E c \in Caller, k \in Key : GetSlave(c, k)
  BY <1>1, GetSlaveInv
<1>2. CASE \E c \in Caller : StartAndAdd(c) \/ StartFails(c) \/ Release(c)
  BY <1>2, StartAndAddInv, CallInv
<1>3. CASE \E k \in Key : UpdateLastActiveTime(k) \/ DelSlave(k)
  BY <1>3, UpdateInv, DelSlaveInv
<1>4. CASE \E r \in Recycler : AutoRecycle(r)
  BY <1>4, ExitsInv, DropsInv, WaitsInv DEF AutoRecycle
<1>5. CASE Tick
  BY <1>5, TickInv
<1>6. CASE UNCHANGED vars
  BY <1>6 DEF vars, Inv, TypeOK, MapsAgree, Covered, Punctual, OneKey, ClosedOnce,
       Registered, Busy, Window, CallState
<1> QED
  BY <1>1, <1>2, <1>3, <1>4, <1>5, <1>6 DEF Next

(* The invariant holds in every state of every behaviour.                  *)
LEMMA Invariance == Spec => []Inv
BY InitInv, NextInv, PTL DEF Spec

(* The variables of the registry keep their types.                         *)
LEMMA TypeCorrect == Spec => []TypeOK
<1>1. Inv => TypeOK
  BY DEF Inv
<1> QED
  BY <1>1, Invariance, PTL

(* The three maps of AllSlaves always have the same keys.                  *)
LEMMA MapsStayInStep == Spec => []MapsAgree
<1>1. Inv => MapsAgree
  BY DEF Inv
<1> QED
  BY <1>1, Invariance, PTL

(* No registered slave is ever idle for longer than its window and Slack.  *)
LEMMA IdleIsBounded == Spec => []IdleBound
<1>1. Inv => IdleBound
  <2> SUFFICES ASSUME Inv, NEW k \in Key, Registered(k)
               PROVE  idle[k] <= Window(keepAlive[slaves[k]]) + Slack
    BY DEF IdleBound
  <2>1. PICK r \in Recycler :
          /\ recycler[r].key = k
          /\ idle[k] + recycler[r].left <= Window(keepAlive[slaves[k]])
    BY DEF Inv, Covered
  <2>2. recycler[r].left \in Int /\ recycler[r].left >= -Slack
    BY <2>1, NoneAssumption DEF Inv, TypeOK, Punctual, Busy
  <2>3. idle[k] \in Int /\ Slack \in Int
    BY SlackAssumption DEF Inv, TypeOK
  <2>4. keepAlive[slaves[k]] \in Nat
    BY KeepAliveAssumption DEF Inv, TypeOK, Registered
  <2>5. Window(keepAlive[slaves[k]]) \in Int
    BY <2>4 DEF Window
  <2> QED
    BY <2>1, <2>2, <2>3, <2>5
<1> QED
  BY <1>1, Invariance, PTL

(* No close callback runs twice, and a closed slave is never registered.   *)
LEMMA ClosedAtMostOnce == Spec => []ClosedOnce
<1>1. Inv => ClosedOnce
  BY DEF Inv
<1> QED
  BY <1>1, Invariance, PTL

(* Safety of the registry: the maps agree, recyclers come back in time, no *)
(* slave is closed twice or has two keys, and none outstays its window.    *)
THEOREM RegistryIsSafe == Spec => []Safe
BY Invariance, IdleIsBounded, PTL DEF Safe

(* A close callback runs only when its slave has been idle for its own     *)
(* keepAlive, in the step that removes the slave.                          *)
THEOREM CloseOnlyIdle == Spec => CloseOnlyWhenIdle
<1> DEFINE Close == \A s \in Slave : closed'[s] # closed[s] =>
                      \E k \in Key : /\ slaves[k] = s
                                     /\ idle[k] >= keepAlive[s]
                                     /\ slaves'[k] = None
<1>1. ASSUME Inv, NEW r \in Recycler, RecyclerDrops(r)
      PROVE  Close
  <2> DEFINE k == recycler[r].key
  <2>1. /\ k \in Key /\ Registered(k)
        /\ closed' = [closed EXCEPT ![slaves[k]] = 1]
    BY <1>1, DropsClosed
  <2>2. idle[k] >= keepAlive[slaves[k]]
    BY <1>1, <2>1 DEF RecyclerDrops, Expired, Interval
  <2>3. slaves'[k] = None
    BY <1>1, <2>1 DEF RecyclerDrops, Unregister, Inv, TypeOK
  <2>4. \A s \in Slave : closed'[s] # closed[s] => s = slaves[k]
    BY <1>1, <2>1 DEF Inv, TypeOK
  <2> QED
    BY <2>1, <2>2, <2>3, <2>4
<1>2. ASSUME Next, ~ \E r \in Recycler : RecyclerDrops(r)
      PROVE  closed' = closed
  BY <1>2 DEF Next, GetSlave, StartAndAdd, StartFails, Release, UpdateLastActiveTime,
       DelSlave, AutoRecycle, RecyclerExits, RecyclerWaits, Tick
<1>3. Inv /\ [Next]_vars => [Close]_vars
  <2> SUFFICES ASSUME Inv, Next PROVE Close
    OBVIOUS
  <2> QED
    BY <1>1, <1>2
<1> QED
  BY <1>3, Invariance, PTL DEF Spec, CloseOnlyWhenIdle

-----------------------------------------------------------------------------
(* Refinement: to its users the registry is a KeepAliveMap.                *)

(* The empty registry is the empty keep-alive map.                         *)
LEMMA InitImplements == Init => Abstract!Init
BY DEF Init, Abstract!Init, Abstract!Absent

(* A step of the registry is a step of the keep-alive map or changes        *)
(* nothing that a user of the map sees.                                    *)
LEMMA StepImplements == Inv /\ [Next]_vars => [Abstract!Next]_(Abstract!vars)
<1> SUFFICES ASSUME Inv, [Next]_vars
             PROVE  Abstract!Next \/ UNCHANGED <<slaves, idle, keepAlive>>
  BY DEF Abstract!vars
<1> USE NoneAssumption DEF Abstract!Next
<1>1. ASSUME NEW c \in Caller, NEW k \in Key, GetSlave(c, k)
      PROVE  Abstract!Touch(k) \/ UNCHANGED <<slaves, idle, keepAlive>>
  BY <1>1 DEF GetSlave, Abstract!Touch, Registered
<1>2. ASSUME NEW c \in Caller, StartAndAdd(c)
      PROVE  \E s \in Slave, K \in KeepAlive :
               \/ Abstract!Configure(s, K)
               \/ \E k \in Key : Abstract!Add(k, s, K)
  <2>1. PICK s \in fresh, K \in KeepAlive :
          /\ keepAlive' = [keepAlive EXCEPT ![s] = K]
          /\ AddSlave(call[c].key, s)
    BY <1>2 DEF StartAndAdd
  <2>2. s \in Slave /\ \A k \in Key : slaves[k] # s
    BY DEF Inv, TypeOK, OneKey
  <2>3. call[c].key \in Key
    <3>1. call[c] \in CallState /\ call[c].pc = "start"
      BY <1>2 DEF Inv, TypeOK, StartAndAdd
    <3> QED
      BY <3>1 DEF CallState
  <2> QED
    BY <2>1, <2>2, <2>3 DEF AddSlave, Registered, Abstract!Configure, Abstract!Add
<1>3. ASSUME NEW k \in Key, UpdateLastActiveTime(k) \/ DelSlave(k)
      PROVE  Abstract!Touch(k) \/ Abstract!Drop(k)
  BY <1>3 DEF UpdateLastActiveTime, DelSlave, Unregister, Registered,
       Abstract!Touch, Abstract!Drop, Abstract!Absent
<1>4. ASSUME NEW r \in Recycler, RecyclerDrops(r)
      PROVE  Abstract!Drop(recycler[r].key) /\ recycler[r].key \in Key
  BY <1>4, DropsClosed DEF RecyclerDrops, Unregister, Registered,
       Abstract!Drop, Abstract!Absent
<1>5. ASSUME Tick
      PROVE  Abstract!Tick
  <2>1. ASSUME NEW k \in Key, Registered(k)
        PROVE  idle[k] < Abstract!Window(keepAlive[slaves[k]]) + Slack
    <3>1. PICK r \in Recycler :
            /\ recycler[r].key = k
            /\ idle[k] + recycler[r].left <= Window(keepAlive[slaves[k]])
      BY <2>1 DEF Inv, Covered
    <3>2. recycler[r].left \in Int /\ recycler[r].left > -Slack
      BY <1>5, <3>1 DEF Tick, Inv, TypeOK, Busy
    <3>3. idle[k] \in Int /\ Slack \in Int
      BY SlackAssumption DEF Inv, TypeOK
    <3>4. keepAlive[slaves[k]] \in Nat
      BY <2>1, KeepAliveAssumption DEF Inv, TypeOK, Registered
    <3>5. /\ Window(keepAlive[slaves[k]]) \in Int
          /\ Window(keepAlive[slaves[k]]) = Abstract!Window(keepAlive[slaves[k]])
      BY <3>4 DEF Window, Abstract!Window
    <3> QED
      BY <3>1, <3>2, <3>3, <3>5
  <2>2. idle' = [k \in Key |-> IF slaves[k] = None THEN Abstract!Absent ELSE idle[k] + 1]
    BY <1>5 DEF Tick, Inv, MapsAgree, Registered, Abstract!Absent
  <2> QED
    BY <1>5, <2>1, <2>2 DEF Tick, Registered, Abstract!Tick
<1>6. CASE \E c \in Caller : StartFails(c) \/ Release(c)
  BY <1>6 DEF StartFails, Release
<1>7. CASE \E r \in Recycler : RecyclerExits(r) \/ RecyclerWaits(r)
  BY <1>7 DEF RecyclerExits, RecyclerWaits
<1>8. CASE UNCHANGED vars
  BY <1>8 DEF vars
<1> QED
  BY <1>1, <1>2, <1>3, <1>4, <1>5, <1>6, <1>7, <1>8 DEF Next, AutoRecycle

(* The registry implements the keep-alive map.                             *)
THEOREM RegistryImplements == Spec => Implements
BY InitImplements, StepImplements, Invariance, PTL DEF Spec, Implements, Abstract!Spec
=============================================================================
