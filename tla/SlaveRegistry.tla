---------------------------- MODULE SlaveRegistry ----------------------------
(***************************************************************************)
(* AllSlaves and NewLocalCommand, src/bbtty/local_command.go.              *)
(*                                                                         *)
(* A slave is a child process on a pseudo terminal.  NewLocalCommand hands *)
(* out the slave registered under a key, or starts and registers one.      *)
(* AllSlaves.mu makes each method one step; NewLocalCommand calls two of   *)
(* them, GetSlave and AddSlave, and others may come between.  AddSlave     *)
(* starts a goroutine, AutoRecycle, that looks at the key once every       *)
(* keepAlive seconds and drops an idle slave after running its close       *)
(* callback.  DelSlave is called by the WebTTY registry (TtyRegistry).     *)
(*                                                                         *)
(* Time: lastActiveTime[k] is kept as idle[k], the seconds since then, and *)
(* a sleeping goroutine as the seconds left to sleep.  Tick lets a second  *)
(* pass for all of them.  A goroutine whose sleep is over runs within      *)
(* Slack seconds.                                                          *)
(***************************************************************************)
EXTENDS Integers, FiniteSets

CONSTANTS
  Key,        \* the unique keys of connections
  Caller,     \* goroutines that call NewLocalCommand
  Slave,      \* *LocalCommand values, each started at most once
  Recycler,   \* AutoRecycle goroutines
  KeepAlive,  \* the keepAlive arguments, in seconds
  Slack,      \* the seconds a runnable goroutine may wait for the processor
  None        \* nil, an absent entry

ASSUME KeepAliveAssumption == KeepAlive \subseteq Nat
ASSUME SlackAssumption == Slack \in Nat
ASSUME NoneAssumption == None \notin Key /\ None \notin Slave

VARIABLES
  slaves,     \* AllSlaves.slaves
  idle,       \* seconds since AllSlaves.lastActiveTime[k], or Absent
  callback,   \* AllSlaves.closeCallBackFunc: the slave whose callback it is
  keepAlive,  \* LocalCommand.keepAlive
  fresh,      \* the slaves not started yet
  closed,     \* how often the close callback of a slave has run
  recycler,   \* AutoRecycle goroutines: their key and seconds left to sleep
  call        \* the progress of each caller's NewLocalCommand

vars == <<slaves, idle, callback, keepAlive, fresh, closed, recycler, call>>

Absent == -1

Registered(k) == slaves[k] # None

(* AutoRecycle's lastActiveTime_Interval: 0 unless the key has a slave.    *)
Interval(k) == IF Registered(k) THEN keepAlive[slaves[k]] ELSE 0

Window(K) == IF K = 0 THEN 0 ELSE 2 * K - 1

NoRecycler == [key |-> None, left |-> 0]
NoCall == [pc |-> "idle", key |-> None, slave |-> None]

CallState == {NoCall} \cup [pc : {"start"}, key : Key, slave : {None}]
                      \cup [pc : {"got"}, key : Key, slave : Slave]

Busy(r) == recycler[r].key # None

Init ==
  /\ slaves = [k \in Key |-> None]
  /\ idle = [k \in Key |-> Absent]
  /\ callback = [k \in Key |-> None]
  /\ keepAlive \in [Slave -> KeepAlive]
  /\ fresh = Slave
  /\ closed = [s \in Slave |-> 0]
  /\ recycler = [r \in Recycler |-> NoRecycler]
  /\ call = [c \in Caller |-> NoCall]

-----------------------------------------------------------------------------
(* The registry's methods, each under AllSlaves.mu.                        *)

(* Mutant: AddSlave replaces a slave that is there.                        *)
BugReplaces(k, s) ==
  /\ slaves' = [slaves EXCEPT ![k] = s]
  /\ idle' = [idle EXCEPT ![k] = 0]
  /\ callback' = [callback EXCEPT ![k] = s]
  /\ \E r \in Recycler :
       /\ ~Busy(r)
       /\ recycler' = [recycler EXCEPT ![r] = [key |-> k, left |-> 0]]

AddSlave(k, s) ==
  \/ /\ Registered(k)
     /\ UNCHANGED <<slaves, idle, callback, recycler>>
  \/ /\ ~Registered(k)
     /\ slaves' = [slaves EXCEPT ![k] = s]
     /\ idle' = [idle EXCEPT ![k] = 0]
     /\ callback' = [callback EXCEPT ![k] = s]
     /\ \E r \in Recycler :
          /\ ~Busy(r)
          /\ recycler' = [recycler EXCEPT ![r] = [key |-> k, left |-> 0]]

Unregister(k) ==
  /\ slaves' = [slaves EXCEPT ![k] = None]
  /\ idle' = [idle EXCEPT ![k] = Absent]
  /\ callback' = [callback EXCEPT ![k] = None]

DelSlave(k) ==
  /\ Registered(k)
  /\ Unregister(k)
  /\ UNCHANGED <<keepAlive, fresh, closed, recycler, call>>

UpdateLastActiveTime(k) ==
  /\ Registered(k)
  /\ idle' = [idle EXCEPT ![k] = 0]
  /\ UNCHANGED <<slaves, callback, keepAlive, fresh, closed, recycler, call>>

-----------------------------------------------------------------------------
(* NewLocalCommand: GetSlave, then pty.Start and AddSlave.                 *)

GetSlave(c, k) ==
  /\ call[c].pc = "idle"
  /\ \/ /\ Registered(k)
        /\ idle' = [idle EXCEPT ![k] = 0]
        /\ call' = [call EXCEPT ![c] = [pc |-> "got", key |-> k, slave |-> slaves[k]]]
     \/ /\ ~Registered(k)
        /\ call' = [call EXCEPT ![c] = [pc |-> "start", key |-> k, slave |-> None]]
        /\ UNCHANGED idle
  /\ UNCHANGED <<slaves, callback, keepAlive, fresh, closed, recycler>>

(* The caller gets the slave it started, registered or not.                *)
StartAndAdd(c) ==
  /\ call[c].pc = "start"
  /\ \E s \in fresh, K \in KeepAlive :
       /\ fresh' = fresh \ {s}
       /\ keepAlive' = [keepAlive EXCEPT ![s] = K]
       /\ AddSlave(call[c].key, s)
       /\ call' = [call EXCEPT ![c] =
                     [pc |-> "got", key |-> call[c].key, slave |-> s]]
  /\ UNCHANGED closed

StartFails(c) ==
  /\ call[c].pc = "start"
  /\ call' = [call EXCEPT ![c] = NoCall]
  /\ UNCHANGED <<slaves, idle, callback, keepAlive, fresh, closed, recycler>>

(* The caller is done with the slave and may come back.                    *)
Release(c) ==
  /\ call[c].pc = "got"
  /\ call' = [call EXCEPT ![c] = NoCall]
  /\ UNCHANGED <<slaves, idle, callback, keepAlive, fresh, closed, recycler>>

-----------------------------------------------------------------------------
(* AutoRecycle: one round of its loop, from Lock to the next Sleep.        *)

Awake(r) == Busy(r) /\ recycler[r].left <= 0

(* Mutants: a slave expires a second early; AutoRecycle sleeps two periods *)
(* at a time.                                                              *)
BugEarly(k) == idle[k] + 1 >= Interval(k)

BugOversleep(r) ==
  LET k == recycler[r].key IN
  recycler' = [recycler EXCEPT ![r] = [key |-> k, left |-> 2 * Interval(k)]]

Expired(k) == idle[k] >= Interval(k)

RecyclerExits(r) ==
  /\ Awake(r)
  /\ idle[recycler[r].key] = Absent
  /\ recycler' = [recycler EXCEPT ![r] = NoRecycler]
  /\ UNCHANGED <<slaves, idle, callback, keepAlive, fresh, closed, call>>

Sleep(r) ==
  LET k == recycler[r].key IN
  recycler' = [recycler EXCEPT ![r] = [key |-> k, left |-> Interval(k)]]

RunCallback(k) ==
  closed' = IF callback[k] = None THEN closed
            ELSE [closed EXCEPT ![callback[k]] = @ + 1]

RecyclerDrops(r) ==
  LET k == recycler[r].key IN
  /\ Awake(r)
  /\ idle[k] # Absent
  /\ Expired(k)
  /\ RunCallback(k)
  /\ Unregister(k)
  /\ Sleep(r)
  /\ UNCHANGED <<keepAlive, fresh, call>>

RecyclerWaits(r) ==
  LET k == recycler[r].key IN
  /\ Awake(r)
  /\ idle[k] # Absent
  /\ ~Expired(k)
  /\ Sleep(r)
  /\ UNCHANGED <<slaves, idle, callback, keepAlive, fresh, closed, call>>

(* Mutant: the close callback waits for the mutex that AutoRecycle holds.  *)
BugSelfLock(r) == RecyclerExits(r) \/ RecyclerWaits(r)

AutoRecycle(r) == RecyclerExits(r) \/ RecyclerDrops(r) \/ RecyclerWaits(r)

-----------------------------------------------------------------------------
(* A second passes, unless a recycler has been runnable for Slack seconds. *)
Tick ==
  /\ \A r \in Recycler : Busy(r) => recycler[r].left > -Slack
  /\ idle' = [k \in Key |-> IF idle[k] = Absent THEN Absent ELSE idle[k] + 1]
  /\ recycler' = [r \in Recycler |->
                    IF Busy(r)
                    THEN [key |-> recycler[r].key, left |-> recycler[r].left - 1]
                    ELSE recycler[r]]
  /\ UNCHANGED <<slaves, callback, keepAlive, fresh, closed, call>>

Next ==
  \/ \E c \in Caller, k \in Key : GetSlave(c, k)
  \/ \E c \in Caller : StartAndAdd(c) \/ StartFails(c) \/ Release(c)
  \/ \E k \in Key : UpdateLastActiveTime(k) \/ DelSlave(k)
  \/ \E r \in Recycler : AutoRecycle(r)
  \/ Tick

Spec == Init /\ [][Next]_vars

(* The goroutines the registry itself starts run, and time passes; nothing *)
(* is assumed of callers.                                                  *)
Fairness == WF_vars(Tick) /\ \A r \in Recycler : WF_vars(AutoRecycle(r))

FairSpec == Spec /\ Fairness

-----------------------------------------------------------------------------
(* Properties.                                                             *)

TypeOK ==
  /\ slaves \in [Key -> Slave \cup {None}]
  /\ idle \in [Key -> Nat \cup {Absent}]
  /\ callback \in [Key -> Slave \cup {None}]
  /\ keepAlive \in [Slave -> KeepAlive]
  /\ fresh \subseteq Slave
  /\ closed \in [Slave -> Nat]
  /\ recycler \in [Recycler -> [key : Key \cup {None}, left : Int]]
  /\ call \in [Caller -> CallState]

(* The three maps of AllSlaves have the same keys, and the callback stored *)
(* under a key is the one that came with the slave stored there.           *)
MapsAgree ==
  \A k \in Key : /\ callback[k] = slaves[k]
                 /\ idle[k] = Absent <=> ~Registered(k)

(* No slave stays registered longer than one missed look and one full      *)
(* sleep of its AutoRecycle goroutine allow, whichever goroutines of       *)
(* earlier registrations of the key are still around.                      *)
IdleBound ==
  \A k \in Key : Registered(k) => idle[k] <= Window(keepAlive[slaves[k]]) + Slack

(* The close callback of a slave runs at most once, and a slave whose      *)
(* callback has run is not registered: GetSlave cannot hand it out.        *)
ClosedOnce ==
  \A s \in Slave :
    /\ closed[s] <= 1
    /\ closed[s] = 1 => \A k \in Key : slaves[k] # s

-----------------------------------------------------------------------------
(* The inductive invariant behind the safety properties.                   *)

(* Some AutoRecycle goroutine of a registered key comes back to it in time.*)
Covered ==
  \A k \in Key : Registered(k) =>
    \E r \in Recycler :
      /\ recycler[r].key = k
      /\ idle[k] + recycler[r].left <= Window(keepAlive[slaves[k]])

(* No goroutine has been runnable for longer than Slack seconds.           *)
Punctual == \A r \in Recycler : Busy(r) => recycler[r].left >= -Slack

(* A slave is registered under at most one key, and only once started.     *)
OneKey ==
  /\ \A s \in fresh : closed[s] = 0 /\ \A k \in Key : slaves[k] # s
  /\ \A k1, k2 \in Key : Registered(k1) /\ slaves[k1] = slaves[k2] => k1 = k2

Inv == TypeOK /\ MapsAgree /\ Covered /\ Punctual /\ OneKey /\ ClosedOnce

(* What the registry's users rely on: the maps stay in step, a slave that  *)
(* is handed out has not been closed, and one nobody uses goes in time.    *)
Safe == Inv /\ IdleBound

(* A slave's close callback runs only in the step that drops it, and only  *)
(* if it had been idle for its own keepAlive.                              *)
CloseOnlyWhenIdle ==
  [][\A s \in Slave : closed'[s] # closed[s] =>
       \E k \in Key : /\ slaves[k] = s
                      /\ idle[k] >= keepAlive[s]
                      /\ slaves'[k] = None]_vars

(* A registered slave that nobody uses is dropped in the end, and the      *)
(* AutoRecycle goroutines all return when the keys stay free.              *)
EventuallyDropped ==
  /\ \A k \in Key : []<>(~Registered(k) \/ idle[k] = 0)
  /\ \A r \in Recycler : <>[](\A k \in Key : ~Registered(k)) => <>[](~Busy(r))

(* The registry as its users see it.                                       *)
Abstract == INSTANCE KeepAliveMap WITH
              Val <- Slave, entry <- slaves, keep <- keepAlive

Implements == Abstract!Spec
=============================================================================
