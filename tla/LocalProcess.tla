---------------------------- MODULE LocalProcess ----------------------------
(***************************************************************************)
(* The slave's program, src/bbtty/local_command.go: LocalCommand with its  *)
(* pty, the goroutine that waits for the program's end, and Close, which   *)
(* asks the program to end by a signal and kills it when closeTimeout has  *)
(* run out.  Close may be called by several goroutines and closeTimeout be *)
(* set at any time.                                                        *)
(***************************************************************************)
EXTENDS Integers

CONSTANTS
  Closer,   \* the goroutines that call Close
  Timeouts  \* values of closeTimeout, negative for never

VARIABLES
  program,       \* "running" or "exited"
  killed,        \* whether SIGKILL has been sent to it
  ptyOpen,       \* whether the pty is open on this side
  ptyClosed,     \* whether the channel ptyClosed is closed
  waits,         \* the goroutine in cmd.Wait
  closer,        \* where each call of Close is
  timer,         \* the time left on the timer of its select
  closeTimeout   \* LocalCommand.closeTimeout

proc == <<program, killed>>
pty == <<ptyOpen, ptyClosed, waits>>
closers == <<closer, timer>>
vars == <<proc, pty, closers, closeTimeout>>

Init ==
  /\ program = "running" /\ killed = FALSE
  /\ ptyOpen = TRUE /\ ptyClosed = FALSE /\ waits = "wait"
  /\ closer = [c \in Closer |-> "out"] /\ timer = [c \in Closer |-> 0]
  /\ closeTimeout \in Timeouts

-----------------------------------------------------------------------------
(* The program.  It may end at any time, and must once it is killed; other *)
(* signals it may ignore.                                                  *)

Exit ==
  /\ program = "running"
  /\ program' = "exited"
  /\ UNCHANGED <<killed, pty, closers, closeTimeout>>

-----------------------------------------------------------------------------
(* The goroutine of NewLocalCommand and NewLocalCommandSingle.             *)

WaitReturns ==
  /\ waits = "wait" /\ program = "exited"
  /\ waits' = "close" /\ ptyOpen' = FALSE
  /\ UNCHANGED <<proc, ptyClosed, closers, closeTimeout>>

(* Mutant: the channel stays open.                                         *)
BugForgets ==
  /\ waits = "close"
  /\ waits' = "done"
  /\ UNCHANGED <<proc, ptyOpen, ptyClosed, closers, closeTimeout>>

CloseChan ==
  /\ waits = "close"
  /\ waits' = "done" /\ ptyClosed' = TRUE
  /\ UNCHANGED <<proc, ptyOpen, closers, closeTimeout>>

-----------------------------------------------------------------------------
(* Close.                                                                  *)

CloseAt(c, l) == closer' = [closer EXCEPT ![c] = l]

ClosePty(c) ==
  /\ closer[c] = "out"
  /\ ptyOpen' = FALSE
  /\ CloseAt(c, "signal")
  /\ UNCHANGED <<proc, ptyClosed, waits, timer, closeTimeout>>

(* The signal may end the program, then or later, or be ignored; the timer *)
(* of the first select starts.                                             *)
Signal(c) ==
  /\ closer[c] = "signal"
  /\ CloseAt(c, "select")
  /\ timer' = [timer EXCEPT ![c] = closeTimeout]
  /\ UNCHANGED <<proc, pty, closeTimeout>>

(* Mutant: the timeout of a program that has been signalled returns.       *)
BugGivesUp(c) ==
  /\ closer[c] = "select" /\ timer[c] = 0
  /\ CloseAt(c, "returned")
  /\ UNCHANGED <<proc, pty, timer, closeTimeout>>

(* The timer: SIGKILL, and the loop selects again, with a new timer of     *)
(* what closeTimeout is then.                                              *)
TimeOut(c) ==
  /\ closer[c] = "select" /\ timer[c] = 0
  /\ killed' = TRUE
  /\ timer' = [timer EXCEPT ![c] = closeTimeout]
  /\ UNCHANGED <<program, pty, closer, closeTimeout>>

Return(c) ==
  /\ closer[c] = "select" /\ ptyClosed
  /\ CloseAt(c, "returned")
  /\ UNCHANGED <<proc, pty, timer, closeTimeout>>

SetCloseTimeout ==
  /\ closeTimeout' \in Timeouts \ {closeTimeout}
  /\ UNCHANGED <<proc, pty, closers>>

Tick ==
  /\ \E c \in Closer : closer[c] = "select" /\ timer[c] > 0
  /\ timer' = [c \in Closer |->
                 IF closer[c] = "select" /\ timer[c] > 0 THEN timer[c] - 1 ELSE timer[c]]
  /\ UNCHANGED <<proc, pty, closer, closeTimeout>>

-----------------------------------------------------------------------------
Closing(c) == ClosePty(c) \/ Signal(c) \/ TimeOut(c) \/ Return(c)

Next ==
  \/ Exit \/ WaitReturns \/ CloseChan
  \/ (\E c \in Closer : Closing(c)) \/ SetCloseTimeout \/ Tick

(* A killed program ends, the goroutines run, time passes.                 *)
Fairness ==
  /\ WF_vars(killed /\ Exit) /\ WF_vars(Tick)
  /\ WF_vars(WaitReturns) /\ WF_vars(CloseChan)
  /\ \A c \in Closer :
       WF_vars(Signal(c)) /\ WF_vars(Return(c)) /\ WF_vars(TimeOut(c))

Spec == Init /\ [][Next]_vars

FairSpec == Spec /\ Fairness

-----------------------------------------------------------------------------
(* Properties.                                                             *)

(* When a Close has returned the program is gone, whichever call of Close  *)
(* or exit came first, and the pty is closed; the channel is closed once.  *)
ReturnsWhenGone ==
  \A c \in Closer : closer[c] = "returned" => program = "exited" /\ ~ptyOpen /\ ptyClosed

(* Every Close that has a timeout returns, even if the program ignores the *)
(* signal or closeTimeout is changed meanwhile.                            *)
CloseReturns ==
  \A c \in Closer : closer[c] = "select" /\ timer[c] >= 0 ~> closer[c] = "returned"
=============================================================================
