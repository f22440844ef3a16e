------------------------------- MODULE EsLog --------------------------------
(***************************************************************************)
(* src/bbeslog/eslog.go: PushLogs puts a log into the channel logChan when *)
(* one of its addresses answers; the goroutine of init starts a goroutine  *)
(* for each log it takes out, which posts it to Elasticsearch with no time *)
(* limit.  A log that is JSON but no object, and a request that fails,     *)
(* stop the program: a nil map is written, a nil response read.            *)
(***************************************************************************)
EXTENDS Integers, Sequences, FiniteSets

CONSTANTS
  Log,    \* the logs that callers push
  LogCap  \* the capacity of logChan

VARIABLES
  logChan,  \* the logs in the channel
  push,     \* PushLogs of each log: "out", "probe", "send", "returned"
  post,     \* pushLogEs of each log: "none", "client", "do", "done"
  stored,   \* the logs that Elasticsearch has stored, in order
  crashed   \* whether the program has stopped

logVars == <<logChan, push, post, stored, crashed>>

Init ==
  /\ logChan = <<>> /\ stored = <<>> /\ crashed = FALSE
  /\ push = [l \in Log |-> "out"] /\ post = [l \in Log |-> "none"]

-----------------------------------------------------------------------------
(* PushLogs: each address with a scheme is dialled.                        *)

Push(l) ==
  /\ push[l] = "out"
  /\ push' = [push EXCEPT ![l] = "probe"]
  /\ UNCHANGED <<logChan, post, stored, crashed>>

Probe(l) ==
  /\ push[l] = "probe"
  /\ \E end \in {"send", "returned"} : push' = [push EXCEPT ![l] = end]
  /\ UNCHANGED <<logChan, post, stored, crashed>>

(* The caller blocks while the channel is full.                            *)
Send(l) ==
  /\ push[l] = "send" /\ Len(logChan) < LogCap
  /\ logChan' = Append(logChan, l)
  /\ push' = [push EXCEPT ![l] = "returned"]
  /\ UNCHANGED <<post, stored, crashed>>

-----------------------------------------------------------------------------
(* Mutant: the goroutine of init posts a log itself.                       *)
BugPosts ==
  /\ logChan # <<>> /\ \A l \in Log : post[l] \in {"none", "done"}
  /\ post' = [post EXCEPT ![Head(logChan)] = "client"]
  /\ logChan' = Tail(logChan)
  /\ UNCHANGED <<push, stored, crashed>>

Dispatch ==
  /\ logChan # <<>>
  /\ post' = [post EXCEPT ![Head(logChan)] = "client"]
  /\ logChan' = Tail(logChan)
  /\ UNCHANGED <<push, stored, crashed>>

-----------------------------------------------------------------------------
(* pushLogEs.                                                              *)

(* NewClient may fail; the log is dropped.                                 *)
NewClient(l) ==
  /\ post[l] = "client"
  /\ \/ /\ \E end \in {"do", "done"} : post' = [post EXCEPT ![l] = end]
        /\ UNCHANGED crashed
     \/ crashed' = TRUE /\ UNCHANGED post   \* dat is nil
  /\ UNCHANGED <<logChan, push, stored>>

(* Mutant: a log whose request fails is put into the channel again.        *)
BugRetries(l) ==
  /\ post[l] = "do"
  /\ stored' \in {stored, Append(stored, l)}
  /\ \/ post' = [post EXCEPT ![l] = "done"] /\ UNCHANGED logChan
     \/ post' = [post EXCEPT ![l] = "none"] /\ logChan' = Append(logChan, l)
  /\ UNCHANGED <<push, crashed>>

(* req.Do: stored, refused, or failed, perhaps after it was stored.  It    *)
(* may also never return.  A request that the client sends again has the   *)
(* same DocumentID and stores the same document.                           *)
Do(l) ==
  /\ post[l] = "do"
  /\ stored' \in {stored, Append(stored, l)}
  /\ \/ post' = [post EXCEPT ![l] = "done"] /\ UNCHANGED crashed
     \/ crashed' = TRUE /\ UNCHANGED post   \* res is nil
  /\ UNCHANGED <<logChan, push>>

Next ==
  /\ ~crashed
  /\ \/ Dispatch
     \/ \E l \in Log : Push(l) \/ Probe(l) \/ Send(l) \/ NewClient(l) \/ Do(l)

Spec == Init /\ [][Next]_logVars

(* The goroutines run and a dial ends; a request need not.                 *)
Fairness ==
  /\ WF_logVars(Dispatch /\ ~crashed)
  /\ \A l \in Log :
       /\ WF_logVars((Probe(l) \/ NewClient(l)) /\ ~crashed)
       /\ SF_logVars(Send(l) /\ ~crashed)

-----------------------------------------------------------------------------
(* Properties.                                                             *)

(* A log has one document at most, though a request that fails may have    *)
(* stored it; and a log that has one was sent by a PushLogs that has       *)
(* returned, and waits in the channel no more.                             *)
StoredOnce ==
  /\ \A i, j \in DOMAIN stored : stored[i] = stored[j] => i = j
  /\ \A i \in DOMAIN stored :
       push[stored[i]] = "returned" /\ \A n \in DOMAIN logChan : logChan[n] # stored[i]

(* A log for which an address has answered is taken up by a goroutine of   *)
(* its own, however many callers push and however long the requests of     *)
(* other logs take; PushLogs returns.                                      *)
LogsTakenUp ==
  \A l \in Log : (push[l] = "send") ~>
    (crashed \/ (push[l] = "returned" /\ post[l] \in {"do", "done"}))
=============================================================================
