----------------------------- MODULE SshHelper ------------------------------
(***************************************************************************)
(* CommonSSH, src/ssh/ssh.go: a connection made with retries and the one   *)
(* session on it, which runs one command.  SetConnect writes the fields of *)
(* the object on every try, and nothing but Close closes a connection.     *)
(***************************************************************************)
EXTENDS Integers

CONSTANT MaxCalls  \* bound: the calls of SetConnect

Retry == 3
None == 0

VARIABLES
  client,   \* the connection in c.client, numbered from 1, or None
  session,  \* the connection whose session is in c.session, or None
  used,     \* whether that session has run a command
  made,     \* how many connections have been made
  openConns, \* the connections that are open
  calls,    \* how many calls of SetConnect have begun
  at,       \* "out", "dial", "session"
  tries,    \* the tries that have failed in the present loop
  result,   \* what the last SetConnect returned: "none", "ok", "error"
  answer    \* what the last other call returned, or "panic"

sshVars == <<client, session, used, made, openConns, calls, at, tries, result, answer>>

Init ==
  /\ client = None /\ session = None /\ used = FALSE
  /\ made = 0 /\ openConns = {} /\ calls = 0
  /\ at = "out" /\ tries = 0 /\ result = "none" /\ answer = "none"

SetConnect ==
  /\ at = "out" /\ calls < MaxCalls
  /\ calls' = calls + 1 /\ at' = "dial" /\ tries' = 0
  /\ UNCHANGED <<client, session, used, made, openConns, result, answer>>

(* After a failed try: another one, or the error is returned.              *)
Again ==
  IF tries + 1 < Retry THEN tries' = tries + 1 /\ UNCHANGED <<at, result>>
  ELSE tries' = 0 /\ at' = "out" /\ result' = "error"

DialFails ==
  /\ at = "dial"
  /\ client' = None
  /\ Again
  /\ UNCHANGED <<session, used, made, openConns, calls, answer>>

(* Mutant: the loop goes on after a success.                               *)
BugNoBreak ==
  /\ at = "dial"
  /\ made' = made + 1 /\ client' = made + 1
  /\ openConns' = openConns \cup {made + 1}
  /\ IF tries + 1 < Retry THEN tries' = tries + 1 /\ UNCHANGED at
     ELSE tries' = 0 /\ at' = "session"
  /\ UNCHANGED <<session, used, calls, result, answer>>

Dials ==
  /\ at = "dial"
  /\ made' = made + 1 /\ client' = made + 1
  /\ openConns' = openConns \cup {made + 1}
  /\ at' = "session" /\ tries' = 0
  /\ UNCHANGED <<session, used, calls, result, answer>>

(* The new connection stays open.                                          *)
SessionFails ==
  /\ at = "session"
  /\ session' = None
  /\ Again
  /\ UNCHANGED <<client, used, made, openConns, calls, answer>>

NewSession ==
  /\ at = "session"
  /\ session' = client /\ used' = FALSE
  /\ at' = "out" /\ tries' = 0 /\ result' = "ok"
  /\ UNCHANGED <<client, made, openConns, calls, answer>>

-----------------------------------------------------------------------------
(* A command that succeeds or not, with or without output and error output.*)
(* A session that has run a command refuses another; one that was never    *)
(* made is a nil pointer.                                                  *)

CombinedOutput ==
  /\ at = "out"
  /\ \E fails, output \in BOOLEAN :
       /\ (used \/ session \notin openConns) => (fails /\ ~output)
       /\ answer' = IF session = None THEN "panic"
                    ELSE IF fails /\ ~output THEN "error" ELSE "ok"
  /\ used' = TRUE
  /\ UNCHANGED <<client, session, made, openConns, calls, at, tries, result>>

Run ==
  /\ at = "out"
  /\ \E fails, stdErr \in BOOLEAN :
       /\ (used \/ session \notin openConns) => (fails /\ ~stdErr)
       /\ answer' = IF session = None THEN "panic"
                    ELSE IF fails \/ stdErr THEN "error" ELSE "ok"
  /\ used' = TRUE
  /\ UNCHANGED <<client, session, made, openConns, calls, at, tries, result>>

(* A nil client panics before anything is closed, a nil session after.     *)
Close ==
  /\ at = "out"
  /\ openConns' = openConns \ {client}
  /\ answer' = IF client = None \/ session = None THEN "panic" ELSE "ok"
  /\ UNCHANGED <<client, session, used, made, calls, at, tries, result>>

Next ==
  \/ SetConnect \/ DialFails \/ Dials \/ SessionFails \/ NewSession
  \/ CombinedOutput \/ Run \/ Close

Spec == Init /\ [][Next]_sshVars

-----------------------------------------------------------------------------
(* Properties.                                                             *)

(* Retries make no more connections than there are calls of SetConnect,    *)
(* and what one that returned nil leaves is a session of the connection    *)
(* that Close closes.  (After one that failed, commands may still run in   *)
(* the session of an earlier connection, which nothing closes any more.)   *)
RetriesKeepOne ==
  /\ made <= calls
  /\ (at = "out" /\ result = "ok") => (client # None /\ session = client)
=============================================================================
