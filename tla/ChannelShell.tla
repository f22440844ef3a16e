---------------------------- MODULE ChannelShell ----------------------------
(***************************************************************************)
(* A shell behind channels: Shell of src/bbtty/shell/shell.go ("pty"), a   *)
(* local program on a pty, and WsSSH of src/bbtty/ws_ssh ("ssh"), a remote *)
(* shell whose output the ssh library collects in a buffer.  Each runs     *)
(* three goroutines that share isClose:                                    *)
(*   in      hands what comes on the receive channel to the shell          *)
(*           (Shell.read, WsSSH.sshReceive);                               *)
(*   out     puts the shell's output on the send channel                   *)
(*           (Shell.write, WsSSH.sshSend);                                 *)
(*   waiter  waits for the shell's end (wait).                             *)
(* The channels are the caller's and taken as unbuffered.  The message     *)
(* that sshSend sends is not a copy: it aliases the buffer's array, which  *)
(* is written again once the buffer has been reset.                        *)
(***************************************************************************)
EXTENDS Integers, Sequences, SequencesExt

CONSTANT Portions  \* bound: the portions of output the shell writes

VARIABLES
  kind,      \* "pty" or "ssh"
  shell,     \* "new", "running", "clean" or "failed"
  produced,  \* how many portions the shell has written
  array,     \* the output not yet read, with what is left behind it in the array
  len,       \* how much of the array is output
  isClose,   \* the flag of that name
  in,        \* where the goroutine of the receive channel is
  out,       \* where the one of the send channel is
  waiter,    \* where wait is
  message,   \* what is on its way to the consumer, or in its hands
  got,       \* what the consumer has got
  told,      \* whether the consumer has been told on the channel Close
  late       \* whether a message was overwritten before it was used

chans == <<message, got, told>>
buffer == <<array, len, late>>
vars == <<kind, shell, produced, buffer, isClose, in, out, waiter, chans>>

None == [copy |-> <<>>, n |-> 0]

Init ==
  /\ kind \in {"pty", "ssh"} /\ shell = "new" /\ produced = 0
  /\ array = <<>> /\ len = 0 /\ late = FALSE /\ isClose = FALSE
  /\ in = "none" /\ out = "none" /\ waiter = "none"
  /\ message = None /\ got = <<>> /\ told = FALSE

-----------------------------------------------------------------------------
(* The shell.                                                              *)

(* NewShell, NewWsSShConnect.                                              *)
New ==
  /\ shell = "new"
  /\ \/ /\ shell' = "running"
        /\ in' = "check" /\ out' = "check" /\ waiter' = "wait"
     \/ /\ shell' = "clean"      \* an error is returned, nothing is started
        /\ UNCHANGED <<in, out, waiter>>
  /\ UNCHANGED <<kind, produced, buffer, isClose, chans>>

Sent(m) == m.copy \o SubSeq(array, 1, m.n)

(* Output: the kernel or the ssh library appends it, in place or in a      *)
(* larger array.  A message in the old array stays as it is.               *)
Append1(grow) ==
  /\ shell = "running" /\ produced < Portions
  /\ produced' = produced + 1
  /\ array' = SubSeq(array, 1, len) \o <<produced + 1>>
                \o (IF grow THEN <<>> ELSE SubSeq(array, len + 2, Len(array)))
  /\ message' = IF grow THEN [copy |-> Sent(message), n |-> 0] ELSE message
  /\ late' = (late \/ (~grow /\ len < message.n))

Produce ==
  /\ \E grow \in IF kind = "pty" THEN {TRUE} ELSE BOOLEAN : Append1(grow)
  /\ len' = len + 1
  /\ UNCHANGED <<kind, shell, isClose, in, out, waiter, got, told>>

(* The shell ends by itself, or the connection to it is lost.              *)
ShellEnds ==
  /\ shell = "running"
  /\ shell' \in {"clean", "failed"}
  /\ UNCHANGED <<kind, produced, buffer, isClose, in, out, waiter, chans>>

-----------------------------------------------------------------------------
(* wait and Close.                                                         *)

Closes ==
  /\ isClose' = TRUE
  /\ shell' = IF shell = "running" THEN "failed" ELSE shell

Close ==
  /\ shell # "new" /\ out # "none" /\ ~isClose
  /\ Closes
  /\ UNCHANGED <<kind, produced, buffer, in, out, waiter, chans>>

(* An end without an error is told to nobody.                              *)
WaitReturns ==
  /\ waiter = "wait" /\ shell \in {"clean", "failed"}
  /\ IF shell = "failed" THEN Closes /\ waiter' = "tell"
     ELSE waiter' = "done" /\ UNCHANGED <<isClose, shell>>
  /\ UNCHANGED <<kind, produced, buffer, in, out, chans>>

(* Mutant: the waiter ends without close <- true.                          *)
BugUntold ==
  /\ waiter = "tell"
  /\ waiter' = "done"
  /\ UNCHANGED <<kind, shell, produced, buffer, isClose, in, out, chans>>

Tell ==
  /\ waiter = "tell"
  /\ waiter' = "done" /\ told' = TRUE
  /\ UNCHANGED <<kind, shell, produced, buffer, isClose, in, out, message, got>>

-----------------------------------------------------------------------------
(* From the receive channel to the shell.                                  *)

InChecks ==
  /\ in = "check"
  /\ in' = IF isClose THEN "done" ELSE "receive"
  /\ UNCHANGED <<kind, shell, produced, buffer, isClose, out, waiter, chans>>

(* A write to a shell that has ended fails, which is logged.               *)
Input ==
  /\ in = "receive"
  /\ in' = "check"
  /\ UNCHANGED <<kind, shell, produced, buffer, isClose, out, waiter, chans>>

-----------------------------------------------------------------------------
(* From the shell to the send channel.                                     *)

(* Mutant: the flag is not looked at.                                      *)
BugSpins ==
  /\ out = "check"
  /\ out' = "read"
  /\ UNCHANGED <<kind, shell, produced, buffer, isClose, in, waiter, chans>>

OutChecks ==
  /\ out = "check"
  /\ out' = IF isClose THEN "done" ELSE "read"
  /\ UNCHANGED <<kind, shell, produced, buffer, isClose, in, waiter, chans>>

(* Mutant: only the first portion that was read is sent.                   *)
BugFirst ==
  /\ out = "read" /\ kind = "pty" /\ len > 0 /\ ~isClose
  /\ message' = [copy |-> SubSeq(array, 1, 1), n |-> 0]
  /\ array' = <<>> /\ len' = 0
  /\ out' = "send"
  /\ UNCHANGED <<kind, shell, produced, late, isClose, in, waiter, got, told>>

(* pty.Read takes some of the output.                                      *)
ReadPty ==
  /\ out = "read" /\ kind = "pty" /\ len > 0 /\ ~isClose
  /\ \E n \in 1..len :
       /\ message' = [copy |-> SubSeq(array, 1, n), n |-> 0]
       /\ array' = SubSeq(array, n + 1, len) /\ len' = len - n
  /\ out' = "send"
  /\ UNCHANGED <<kind, shell, produced, late, isClose, in, waiter, got, told>>

(* It fails once the pty is closed, or the program has gone and its output *)
(* has been read; the error is logged.  On the other side, a tick without  *)
(* output.                                                                 *)
ReadNothing ==
  /\ out = "read"
  /\ \/ len = 0 /\ (kind = "pty" => shell # "running")
     \/ kind = "pty" /\ isClose
  /\ out' = "check"
  /\ UNCHANGED <<kind, shell, produced, buffer, isClose, in, waiter, chans>>

(* Bytes.                                                                  *)
TakeBytes ==
  /\ out = "read" /\ kind = "ssh" /\ len > 0
  /\ message' = [copy |-> <<>>, n |-> len]
  /\ out' = "send"
  /\ UNCHANGED <<kind, shell, produced, buffer, isClose, in, waiter, got, told>>

(* The consumer takes the message ...                                      *)
Send ==
  /\ out = "send"
  /\ out' = IF kind = "pty" THEN "used" ELSE "reset"
  /\ UNCHANGED <<kind, shell, produced, buffer, isClose, in, waiter, chans>>

(* ... and uses it, now or after the buffer has been reset.  (It takes no  *)
(* other message before.)                                                  *)
Use ==
  /\ message # None /\ out # "send"
  /\ got' = got \o Sent(message)
  /\ message' = None
  /\ out' = IF out = "used" THEN "check" ELSE out
  /\ UNCHANGED <<kind, shell, produced, buffer, isClose, in, waiter, told>>

(* Buffer.Reset, past the lock: a Write at the same time may set the       *)
(* length after it, and nothing is removed.                                *)
Reset ==
  /\ out = "reset"
  /\ \/ len' = 0 /\ UNCHANGED <<produced, array, late, message>>
     \/ \E grow \in BOOLEAN : Append1(grow) /\ len' = len + 1
  /\ out' = IF message' = None THEN "check" ELSE "used"
  /\ UNCHANGED <<kind, shell, isClose, in, waiter, got, told>>

-----------------------------------------------------------------------------
Goroutines == WaitReturns \/ InChecks \/ OutChecks \/ ReadPty \/ ReadNothing \/ TakeBytes \/ Reset

Next == New \/ Produce \/ ShellEnds \/ Close \/ Tell \/ Input \/ Send \/ Use \/ Goroutines

Spec == Init /\ [][Next]_vars

(* The goroutines run.  The caller goes on as it must for them: it takes   *)
(* what is sent and is told of the end, and sends something now and then.  *)
Fairness ==
  /\ WF_vars(WaitReturns) /\ WF_vars(Tell)
  /\ WF_vars(InChecks) /\ WF_vars(Input)
  /\ WF_vars(OutChecks \/ ReadPty \/ ReadNothing \/ TakeBytes \/ Reset)
  /\ WF_vars(Send) /\ WF_vars(Use)

FairSpec == Spec /\ Fairness

-----------------------------------------------------------------------------
(* Properties.                                                             *)

TypeOK ==
  /\ shell \in {"new", "running", "clean", "failed"}
  /\ in \in {"none", "check", "receive", "done"}
  /\ out \in {"none", "check", "read", "send", "reset", "used", "done"}
  /\ waiter \in {"none", "wait", "tell", "done"}
  /\ len <= Len(array) /\ {isClose, told, late} \subseteq BOOLEAN

(* What a local shell writes reaches the consumer whole and in order: the  *)
(* part that does, and all of it while the pty is open.  What a remote     *)
(* shell writes comes in order as far as it comes (see OutputSent of       *)
(* SshSession for what is lost), as long as each message is used before    *)
(* the ssh library writes into the array it lies in.                       *)
InOrder ==
  LET seen == got \o Sent(message)
  IN IF kind = "pty"
     THEN /\ IsPrefix(seen, [n \in 1..produced |-> n])
          /\ ~isClose => seen \o array = [n \in 1..produced |-> n]
     ELSE ~late => \A m, n \in DOMAIN got :
            m < n => got[m] <= got[n] \/ \E k \in 1..(m - 1) : got[k] = got[n]

OutputInOrder == TypeOK /\ InOrder

(* A shell that fails, is killed or is lost is reported on the channel     *)
(* Close of the configuration.                                             *)
FailureTold == shell = "failed" ~> told

(* The goroutines of a shell that has been closed end, provided that the   *)
(* caller sends once more.                                                 *)
GoroutinesEnd == isClose ~> in = "done" /\ out = "done"
=============================================================================
