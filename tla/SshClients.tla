----------------------------- MODULE SshClients -----------------------------
(***************************************************************************)
(* AllClients, src/bbtty/ssh_client.go, and the two constructors that use  *)
(* it: NewSshClient and NewLogicSshWsSession (src/bbtty/ssh_session.go).   *)
(* A caller looks in the registry, makes what is missing without the lock, *)
(* and registers it.  Each section under the lock is one step; it is freed *)
(* by a deferred call, so that a panic in it frees it as well.             *)
(*                                                                         *)
(* keepAliveTime is a nil map: AddClient panics when it has a client to    *)
(* add, so that no client is ever registered, no time of last activity     *)
(* recorded, and a recycler ends at its first look.                        *)
(***************************************************************************)
EXTENDS Integers, FiniteSets

CONSTANTS
  Caller,   \* the goroutines that call the constructors
  Key,      \* the unique keys that are not empty
  MaxMade   \* bound: the sessions made

NoKey == "none"
NoSession == 0

VARIABLES
  sessions,   \* logicSshWsSession: the number of a session, or NoSession
  recyclers,  \* how many AutoRecycle have started and not looked yet, per key
  opened,     \* how many sessions have been opened on connections
  caller      \* where each call is: pc, key, and the session it has

registryVars == <<sessions, recyclers, opened, caller>>

Out == [pc |-> "out", key |-> NoKey, has |-> NoSession]

Init ==
  /\ sessions = [k \in Key |-> NoSession] /\ recyclers = [k \in Key |-> 0]
  /\ opened = 0
  /\ caller = [c \in Caller |-> Out]

Goes(c, to) == caller' = [caller EXCEPT ![c] = to]
At(c, pc) == caller[c].pc = pc

-----------------------------------------------------------------------------
(* NewSshClient; NewSftpClient calls it without a key.                     *)

(* GetClient finds nothing.                                                *)
GetClient(c) ==
  /\ At(c, "out")
  /\ \E k \in Key \cup {NoKey} : Goes(c, [pc |-> "dial", key |-> k, has |-> NoSession])
  /\ UNCHANGED <<sessions, recyclers, opened>>

(* ssh.Dial, which may fail, then AddClient: it panics when there is a key,*)
(* and the connection stays open; without one nothing is registered.       *)
Dial(c) ==
  /\ At(c, "dial")
  /\ Goes(c, Out)
  /\ UNCHANGED <<sessions, recyclers, opened>>

-----------------------------------------------------------------------------
(* NewLogicSshWsSession.                                                   *)

(* A session that is registered is returned, with the new websocket.       *)
GetLogicSshWsSession(c) ==
  /\ At(c, "out")
  /\ \E k \in Key \cup {NoKey} :
       IF k # NoKey /\ sessions[k] # NoSession
       THEN Goes(c, [pc |-> "has", key |-> k, has |-> sessions[k]])
       ELSE Goes(c, [pc |-> "make", key |-> k, has |-> NoSession])
  /\ UNCHANGED <<sessions, recyclers, opened>>

(* NewSession, StdinPipe, RequestPty and Shell; when one of the last three *)
(* fails the session is not closed.                                        *)
Make(c) ==
  /\ At(c, "make") /\ opened < MaxMade
  /\ \/ Goes(c, Out) /\ opened' \in {opened, opened + 1}
     \/ /\ opened' = opened + 1
        /\ Goes(c, [pc |-> "add", key |-> caller[c].key, has |-> opened + 1])
  /\ UNCHANGED <<sessions, recyclers>>

(* Mutant: a session that another caller has registered is replaced.       *)
BugReplaces(c) ==
  /\ At(c, "add")
  /\ LET k == caller[c].key IN
     IF k # NoKey
     THEN /\ sessions' = [sessions EXCEPT ![k] = caller[c].has]
          /\ recyclers' = [recyclers EXCEPT ![k] = @ + 1]
     ELSE UNCHANGED <<sessions, recyclers>>
  /\ Goes(c, [caller[c] EXCEPT !.pc = "has"])
  /\ UNCHANGED opened

(* The caller keeps its session even if another one is registered.         *)
AddLogicSshWsSession(c) ==
  /\ At(c, "add")
  /\ LET k == caller[c].key IN
     IF k # NoKey /\ sessions[k] = NoSession
     THEN /\ sessions' = [sessions EXCEPT ![k] = caller[c].has]
          /\ recyclers' = [recyclers EXCEPT ![k] = @ + 1]
     ELSE UNCHANGED <<sessions, recyclers>>
  /\ Goes(c, [caller[c] EXCEPT !.pc = "has"])
  /\ UNCHANGED opened

Leaves(c) ==
  /\ At(c, "has")
  /\ Goes(c, Out)
  /\ UNCHANGED <<sessions, recyclers, opened>>

-----------------------------------------------------------------------------
(* The rest of AllClients.                                                 *)

(* AutoRecycle finds no time of last activity and returns.                 *)
AutoRecycle(k) ==
  /\ recyclers[k] > 0
  /\ recyclers' = [recyclers EXCEPT ![k] = @ - 1]
  /\ UNCHANGED <<sessions, opened, caller>>

(* DelClient and UpdateLastActiveTime return when there is no client, and  *)
(* RunCommand closes the session that it opens: they leave no trace.       *)
Next ==
  \/ \E c \in Caller :
       \/ GetClient(c) \/ Dial(c) \/ GetLogicSshWsSession(c) \/ Make(c)
       \/ AddLogicSshWsSession(c) \/ Leaves(c)
  \/ \E k \in Key : AutoRecycle(k)

Spec == Init /\ [][Next]_registryVars

-----------------------------------------------------------------------------
(* Properties.                                                             *)

(* Callers that hold the same session do so by its registration: it is the *)
(* one under the key that both have asked for, so that the session of a    *)
(* caller that lost the race to register its own is never shared, and no   *)
(* session is under two keys.                                              *)
SharedAreRegistered ==
  /\ \A c, d \in Caller :
       (c # d /\ At(c, "has") /\ At(d, "has") /\ caller[c].has = caller[d].has) =>
         /\ caller[c].key = caller[d].key /\ caller[c].key # NoKey
         /\ sessions[caller[c].key] = caller[c].has
  /\ \A k, l \in Key : (sessions[k] = sessions[l] /\ sessions[k] # NoSession) => k = l
=============================================================================
