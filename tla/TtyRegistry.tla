----------------------------- MODULE TtyRegistry -----------------------------
(***************************************************************************)
(* AllWebTTY and NewWebTTY, src/bbtty/webtty.go, over the slave registry.  *)
(*                                                                         *)
(* A WebTTY ties a slave to the connection of a browser.  A caller gets a  *)
(* slave (SlaveRegistry), then a WebTTY under the same key: the registered *)
(* one, to which the new connection is attached, or a new one that is      *)
(* registered if the key is still free.  AutoRecycle drops idle WebTTYs;   *)
(* DelWebTTY drops one when its output shows a root prompt.  Both delete   *)
(* the slave as well, under AllSlaves.mu nested in AllWebTTY.mu: the slave *)
(* registry may be used by others between the two deletions, the WebTTY    *)
(* registry may not.                                                       *)
(*                                                                         *)
(* Time is kept as in SlaveRegistry.                                       *)
(***************************************************************************)
EXTENDS Integers, FiniteSets

CONSTANTS
  Key,            \* the unique keys of connections
  Caller,         \* goroutines that serve a browser's connection
  Reader,         \* goroutines of Run, which may outlive it
  Slave,          \* *LocalCommand values
  Recycler,       \* AutoRecycle goroutines of AllSlaves
  Tty,            \* *WebTTY values, each made at most once
  TtyRecycler,    \* AutoRecycle goroutines of AllWebTTY
  KeepAlive,      \* the keepAlive arguments of NewLocalCommand, in seconds
  TtyKeepAlive,   \* the keepAlive arguments of NewWebTTY, in seconds
  Slack,          \* the seconds a runnable goroutine may wait
  None            \* nil, an absent entry

ASSUME TtyKeepAliveAssumption == TtyKeepAlive \subseteq Nat
ASSUME TtyNoneAssumption == None \notin Tty
ASSUME SlaveAssumption ==
  KeepAlive \subseteq Nat /\ Slack \in Nat /\ None \notin Key /\ None \notin Slave

VARIABLES
  slaves, idle, callback, keepAlive, fresh, closed, recycler, call

slaveVars == <<slaves, idle, callback, keepAlive, fresh, closed, recycler, call>>

Slaves == INSTANCE SlaveRegistry

VARIABLES
  ttys,         \* AllWebTTY.webTTY
  ttyIdle,      \* seconds since AllWebTTY.lastActiveTime[k], or Absent
  ttyKeep,      \* WebTTY.keepAlive
  ttySlave,     \* WebTTY.Slave
  ttyKey,       \* WebTTY.UniqueKey
  ttyFresh,     \* the WebTTYs not made yet
  ttyRecycler,  \* AutoRecycle goroutines: pc, key, seconds left to sleep
  conn,         \* the progress of each caller after NewLocalCommand
  del           \* the progress of each reader's DelWebTTY

ttyVars == <<ttys, ttyIdle, ttyKeep, ttySlave, ttyKey, ttyFresh, ttyRecycler, conn, del>>
vars == <<slaveVars, ttyVars>>

mapVars == <<ttys, ttyIdle>>
madeVars == <<ttyKeep, ttySlave, ttyKey, ttyFresh>>

Absent == -1

HasTty(k) == ttys[k] # None

Interval(k) == IF HasTty(k) THEN ttyKeep[ttys[k]] ELSE 0

Window(K) == IF K = 0 THEN 0 ELSE 2 * K - 1

NoTtyRecycler == [pc |-> "sleep", key |-> None, left |-> 0]
NoConn == [pc |-> "none", tty |-> None]
NoDel == [pc |-> "none", key |-> None]

Busy(r) == ttyRecycler[r].key # None

(* Mutant: AllWebTTY.mu is released before DelSlave.                       *)
BugUnlocked == FALSE

(* AllWebTTY.mu is held across steps only on the way to DelSlave.          *)
Locked ==
  \/ \E r \in TtyRecycler : ttyRecycler[r].pc = "delSlave"
  \/ \E g \in Reader : del[g].pc = "delSlave"

Init ==
  /\ Slaves!Init
  /\ ttys = [k \in Key |-> None]
  /\ ttyIdle = [k \in Key |-> Absent]
  /\ ttyKeep \in [Tty -> TtyKeepAlive]
  /\ ttySlave = [t \in Tty |-> None]
  /\ ttyKey = [t \in Tty |-> None]
  /\ ttyFresh = Tty
  /\ ttyRecycler = [r \in TtyRecycler |-> NoTtyRecycler]
  /\ conn = [c \in Caller |-> NoConn]
  /\ del = [g \in Reader |-> NoDel]

-----------------------------------------------------------------------------
(* Steps of the slave registry that leave the WebTTYs alone.  DelSlave is  *)
(* not among them: only the WebTTY registry calls it.                      *)
SlaveStep ==
  /\ \/ \E c \in Caller, k \in Key : Slaves!GetSlave(c, k)
     \/ \E c \in Caller : Slaves!StartAndAdd(c) \/ Slaves!StartFails(c)
     \/ \E k \in Key : Slaves!UpdateLastActiveTime(k)
     \/ \E r \in Recycler : Slaves!AutoRecycle(r)
  /\ UNCHANGED ttyVars

-----------------------------------------------------------------------------
(* NewWebTTY.                                                              *)

(* getWebTTY finds one: the caller's slave is ignored, and the time of     *)
(* last activity is left as it is.                                         *)
Reattach(c) ==
  LET k == call[c].key IN
  /\ call[c].pc = "got" /\ conn[c].pc = "none"
  /\ ~Locked
  /\ HasTty(k)
  /\ conn' = [conn EXCEPT ![c] = [pc |-> "run", tty |-> ttys[k]]]
  /\ UNCHANGED <<slaveVars, mapVars, madeVars, ttyRecycler, del>>

(* getWebTTY finds none.                                                   *)
Miss(c) ==
  LET k == call[c].key IN
  /\ call[c].pc = "got" /\ conn[c].pc = "none"
  /\ ~Locked
  /\ ~HasTty(k)
  /\ conn' = [conn EXCEPT ![c] = [pc |-> "add", tty |-> None]]
  /\ UNCHANGED <<slaveVars, mapVars, madeVars, ttyRecycler, del>>

(* Mutant: a WebTTY that is registered is replaced.                        *)
BugReplaces(k, t) ==
  /\ ttys' = [ttys EXCEPT ![k] = t]
  /\ ttyIdle' = [ttyIdle EXCEPT ![k] = 0]
  /\ \E r \in TtyRecycler :
       /\ ~Busy(r)
       /\ ttyRecycler' = [ttyRecycler EXCEPT ![r] =
                            [pc |-> "sleep", key |-> k, left |-> 0]]

addWebTTY(k, t) ==
  \/ /\ HasTty(k)
     /\ UNCHANGED <<ttys, ttyIdle, ttyRecycler>>
  \/ /\ ~HasTty(k)
     /\ ttys' = [ttys EXCEPT ![k] = t]
     /\ ttyIdle' = [ttyIdle EXCEPT ![k] = 0]
     /\ \E r \in TtyRecycler :
          /\ ~Busy(r)
          /\ ttyRecycler' = [ttyRecycler EXCEPT ![r] =
                               [pc |-> "sleep", key |-> k, left |-> 0]]

(* The caller gets the WebTTY it made, registered or not.                  *)
MakeWebTTY(c) ==
  /\ conn[c].pc = "add"
  /\ ~Locked
  /\ \E t \in ttyFresh, K \in TtyKeepAlive :
       /\ ttyFresh' = ttyFresh \ {t}
       /\ ttyKeep' = [ttyKeep EXCEPT ![t] = K]
       /\ ttySlave' = [ttySlave EXCEPT ![t] = call[c].slave]
       /\ ttyKey' = [ttyKey EXCEPT ![t] = call[c].key]
       /\ addWebTTY(call[c].key, t)
       /\ conn' = [conn EXCEPT ![c] = [pc |-> "run", tty |-> t]]
  /\ UNCHANGED <<slaveVars, del>>

(* Run has returned; the caller may come back with a new connection.       *)
Detach(c) ==
  /\ conn[c].pc = "run"
  /\ Slaves!Release(c)
  /\ conn' = [conn EXCEPT ![c] = NoConn]
  /\ UNCHANGED <<mapVars, madeVars, ttyRecycler, del>>

(* From a goroutine of its own, so it may come after Run has returned.     *)
UpdateLastActiveTime(k) ==
  /\ ~Locked
  /\ ttyIdle[k] # Absent
  /\ ttyIdle' = [ttyIdle EXCEPT ![k] = 0]
  /\ UNCHANGED <<slaveVars, ttys, madeVars, ttyRecycler, conn, del>>

-----------------------------------------------------------------------------
(* DelWebTTY, called by masterWrite in the goroutines of Run.              *)

(* The map is read without the lock: while it is being written to the read *)
(* may find an entry or not.                                               *)
DelWebTTY(g, k) ==
  /\ del[g].pc = "none"
  /\ \E t \in Tty : ttyKey[t] = k
  /\ HasTty(k) \/ Locked
  /\ del' = [del EXCEPT ![g] = [pc |-> "lock", key |-> k]]
  /\ UNCHANGED <<slaveVars, mapVars, madeVars, conn, ttyRecycler>>

Unregister(k) ==
  /\ ttys' = [ttys EXCEPT ![k] = None]
  /\ ttyIdle' = [ttyIdle EXCEPT ![k] = Absent]

DelMaps(g) ==
  /\ del[g].pc = "lock"
  /\ ~Locked
  /\ Unregister(del[g].key)
  /\ del' = [del EXCEPT ![g] = [pc |-> "delSlave", key |-> del[g].key]]
  /\ UNCHANGED <<slaveVars, madeVars, conn, ttyRecycler>>

DelSlaveOf(k) ==
  IF Slaves!Registered(k) THEN Slaves!DelSlave(k) ELSE UNCHANGED slaveVars

DelSlave(g) ==
  /\ del[g].pc = "delSlave"
  /\ DelSlaveOf(del[g].key)
  /\ del' = [del EXCEPT ![g] = NoDel]
  /\ UNCHANGED <<mapVars, madeVars, conn, ttyRecycler>>

-----------------------------------------------------------------------------
(* AutoRecycle: one round of its loop, in two steps when it drops.         *)

Awake(r) ==
  /\ Busy(r)
  /\ ttyRecycler[r].pc = "sleep"
  /\ ttyRecycler[r].left <= 0
  /\ ~Locked

Expired(k) == ttyIdle[k] >= Interval(k)

RecyclerExits(r) ==
  /\ Awake(r)
  /\ ttyIdle[ttyRecycler[r].key] = Absent
  /\ ttyRecycler' = [ttyRecycler EXCEPT ![r] = NoTtyRecycler]
  /\ UNCHANGED <<slaveVars, mapVars, madeVars, conn, del>>

(* Mutant: the goroutine sleeps two periods at a time.                     *)
BugOversleep(r, pc) ==
  LET k == ttyRecycler[r].key IN
  ttyRecycler' = [ttyRecycler EXCEPT ![r] =
                    [pc |-> pc, key |-> k, left |-> 2 * Interval(k)]]

Continue(r, pc) ==
  LET k == ttyRecycler[r].key IN
  ttyRecycler' = [ttyRecycler EXCEPT ![r] =
                    [pc |-> pc, key |-> k, left |-> Interval(k)]]

RecyclerDrops(r) ==
  LET k == ttyRecycler[r].key IN
  /\ Awake(r)
  /\ ttyIdle[k] # Absent
  /\ Expired(k)
  /\ Unregister(k)
  /\ Continue(r, "delSlave")
  /\ UNCHANGED <<slaveVars, madeVars, conn, del>>

RecyclerDelSlave(r) ==
  /\ ttyRecycler[r].pc = "delSlave"
  /\ DelSlaveOf(ttyRecycler[r].key)
  /\ ttyRecycler' = [ttyRecycler EXCEPT ![r] =
                       [pc |-> "sleep", key |-> ttyRecycler[r].key,
                        left |-> ttyRecycler[r].left]]
  /\ UNCHANGED <<mapVars, madeVars, conn, del>>

RecyclerWaits(r) ==
  LET k == ttyRecycler[r].key IN
  /\ Awake(r)
  /\ ttyIdle[k] # Absent
  /\ ~Expired(k)
  /\ Continue(r, "sleep")
  /\ UNCHANGED <<slaveVars, mapVars, madeVars, conn, del>>

(* Mutant: AutoRecycle waits for ever for the lock it drops under.         *)
BugNeverDrops(r) == RecyclerExits(r) \/ RecyclerDelSlave(r) \/ RecyclerWaits(r)

AutoRecycle(r) ==
  RecyclerExits(r) \/ RecyclerDrops(r) \/ RecyclerDelSlave(r) \/ RecyclerWaits(r)

-----------------------------------------------------------------------------
(* A second passes for both registries.  A critical section takes no time. *)
Tick ==
  /\ ~Locked
  /\ \A r \in TtyRecycler : Busy(r) => ttyRecycler[r].left > -Slack
  /\ Slaves!Tick
  /\ ttyIdle' = [k \in Key |-> IF ttyIdle[k] = Absent THEN Absent ELSE ttyIdle[k] + 1]
  /\ ttyRecycler' = [r \in TtyRecycler |->
                       IF Busy(r)
                       THEN [pc |-> ttyRecycler[r].pc, key |-> ttyRecycler[r].key,
                             left |-> ttyRecycler[r].left - 1]
                       ELSE ttyRecycler[r]]
  /\ UNCHANGED <<ttys, madeVars, conn, del>>

Next ==
  \/ SlaveStep
  \/ \E c \in Caller : \/ Reattach(c) \/ Miss(c) \/ MakeWebTTY(c) \/ Detach(c)
  \/ \E g \in Reader, k \in Key : DelWebTTY(g, k)
  \/ \E g \in Reader : DelMaps(g) \/ DelSlave(g)
  \/ \E k \in Key : UpdateLastActiveTime(k)
  \/ \E r \in TtyRecycler : AutoRecycle(r)
  \/ Tick

Spec == Init /\ [][Next]_vars

(* The goroutines both registries start run, a DelWebTTY that has begun    *)
(* ends, and time passes; nothing is assumed of callers.                   *)
Fairness ==
  /\ WF_vars(Tick)
  /\ \A r \in Recycler : WF_vars(Slaves!AutoRecycle(r) /\ UNCHANGED ttyVars)
  /\ \A r \in TtyRecycler : SF_vars(AutoRecycle(r))
  /\ \A g \in Reader : SF_vars(DelMaps(g)) /\ WF_vars(DelSlave(g))

FairSpec == Spec /\ Fairness

-----------------------------------------------------------------------------
(* Properties.                                                             *)

TypeOK ==
  /\ Slaves!TypeOK
  /\ ttys \in [Key -> Tty \cup {None}]
  /\ ttyIdle \in [Key -> Nat \cup {Absent}]
  /\ ttyKeep \in [Tty -> TtyKeepAlive]
  /\ ttySlave \in [Tty -> Slave \cup {None}]
  /\ ttyFresh \subseteq Tty
  /\ ttyRecycler \in [TtyRecycler -> [pc : {"sleep", "delSlave"},
                                      key : Key \cup {None}, left : Int]]
  /\ ttyKey \in [Tty -> Key \cup {None}]
  /\ conn \in [Caller -> {NoConn} \cup [pc : {"add"}, tty : {None}]
                                  \cup [pc : {"run"}, tty : Tty]]
  /\ del \in [Reader -> [pc : {"none", "lock", "delSlave"}, key : Key \cup {None}]]

(* webTTY and lastActiveTime agree: a WebTTY is registered as long as its  *)
(* key has a time of last activity, which no late refresh brings back;     *)
(* what is still to be made is nowhere.                                    *)
TtyMapsAgree ==
  /\ \A k \in Key : ttyIdle[k] = Absent <=> ~HasTty(k)
  /\ \A t \in ttyFresh, k \in Key : ttys[k] # t

(* A WebTTY that is not used is dropped within the window of its keepAlive *)
(* and Slack, whatever DelWebTTY and earlier goroutines of the key do.     *)
TtyIdleBound ==
  \A k \in Key : HasTty(k) => ttyIdle[k] <= Window(ttyKeep[ttys[k]]) + Slack

(* The WebTTY of a key stays away while its slave is being deleted: nobody *)
(* can attach to a WebTTY whose slave DelSlave is about to remove.         *)
DeletionIsolated ==
  /\ \A r \in TtyRecycler : ttyRecycler[r].pc = "delSlave" => ~HasTty(ttyRecycler[r].key)
  /\ \A g \in Reader : del[g].pc = "delSlave" => ~HasTty(del[g].key)

Safe == TypeOK /\ TtyMapsAgree /\ DeletionIsolated /\ TtyIdleBound

(* A registered WebTTY that nobody uses is dropped in the end, and the     *)
(* lock taken for it is released.                                          *)
EventuallyDropped ==
  /\ \A k \in Key : []<>(~HasTty(k) \/ ttyIdle[k] = 0)
  /\ []<>~Locked

AbstractTtys == INSTANCE KeepAliveMap WITH
                  Val <- Tty, entry <- ttys, idle <- ttyIdle, keep <- ttyKeep,
                  KeepAlive <- TtyKeepAlive

(* Under the WebTTY registry the slave registry still does what            *)
(* SlaveRegistry says, and the WebTTY registry is a keep-alive map too.    *)
Implements == Slaves!Spec /\ AbstractTtys!Spec

=============================================================================
