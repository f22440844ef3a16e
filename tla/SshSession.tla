----------------------------- MODULE SshSession -----------------------------
(***************************************************************************)
(* LogicSshWsSession, src/bbtty/ssh_session.go: a remote shell behind      *)
(* websockets.                                                             *)
(*                                                                         *)
(* A call of Start with a quitChan begins a run: a goroutine that reads    *)
(* the websocket and hands messages to the shell, one that sends the       *)
(* shell's output every tick, and Wait.  A session that is asked for again *)
(* gets the new websocket in place of the old one, whatever goroutines use *)
(* it, and Start begins another run of the same session.                   *)
(*                                                                         *)
(* The ssh library writes the shell's output into comboOutput; its lock is *)
(* taken by Bytes and by Write, not across the two, and not by the reset.  *)
(* Close sets the buffers to nil; the use of a nil buffer stops the        *)
(* program, and so does a message whose command is empty.                  *)
(*                                                                         *)
(* A command is a sequence of bytes: a return, cr, which hands the shell   *)
(* its line, an interrupt, etx, which makes it forget the line, or some    *)
(* other byte, x; keys that edit the line are not told from those.         *)
(***************************************************************************)
EXTENDS Integers, Sequences, FiniteSets, SequencesExt

CONSTANTS
  Runs,      \* bound: the calls of Start, each with a websocket and a quitChan
  Portions,  \* bound: the portions of output the shell writes
  MaxInput,  \* bound: the messages read from websockets
  Commands,  \* the commands that browsers send, decoded
  FilterMap, \* the forbidden words
  QuitCap,   \* the capacity of a quitChan
  Closes     \* whether the caller calls Close

ASSUME BoundAssumption ==
  Runs \in Nat \ {0} /\ Portions \in Nat /\ MaxInput \in Nat /\ QuitCap \in Nat

Byte == {"x", "cr", "etx"}

(* A word has no white space at its ends, which strings.TrimSpace takes.   *)
ASSUME CommandAssumption ==
  Commands \subseteq Seq(Byte) /\ FilterMap \subseteq Seq({"x", "etx"})

VARIABLES
  produced,  \* how many portions the shell has written
  buffer,    \* comboOutput, as the sequence of portions in it
  sent,      \* the portions written to a websocket
  log,       \* logBuff
  sender,    \* per run, the goroutine that sends: pc and bs, the bytes taken
  receiver,  \* per run, the goroutine that receives: pc, the websocket it
             \* reads, and what it is to hand to the shell
  inputs,    \* how many messages have been read
  filter,    \* inputFilterBuff
  line,      \* the shell's line
  refused,   \* what the shell's line has kept of a line that was refused
  quit,      \* per run, the tokens in quitChan
  wait,      \* per run, the call of Wait
  shell,     \* "runs", "ended", "told": one call of Wait gets the end
  runs,      \* how many runs have got a websocket: the last one is wsConn
  open,      \* per run, whether its websocket is open
  closed,    \* whether Close has been called
  panicked   \* whether the program has stopped

output == <<produced, buffer, sent, log>>
typed == <<inputs, filter, line, refused>>
ends == <<wait, shell>>
outside == <<runs, open, closed>>
vars == <<output, sender, receiver, typed, quit, ends, outside, panicked>>

Run == 1..Runs

Off == [pc |-> "off", bs |-> <<>>]
Idle == [pc |-> "select", bs |-> <<>>]
NoRead == [pc |-> "off", conn |-> 0, out |-> <<>>]
Looks == [NoRead EXCEPT !.pc = "select"]

(* NewLogicSshWsSession has made the session for the first websocket.      *)
Init ==
  /\ produced = 0 /\ buffer = <<>> /\ sent = <<>> /\ log = <<>>
  /\ sender = [r \in Run |-> Off]
  /\ receiver = [r \in Run |-> NoRead]
  /\ inputs = 0 /\ filter = <<>> /\ line = <<>> /\ refused = <<>>
  /\ quit = [r \in Run |-> 0]
  /\ wait = [r \in Run |-> "off"] /\ shell = "runs"
  /\ runs = 1 /\ open = [r \in Run |-> r = 1]
  /\ closed = FALSE /\ panicked = FALSE

-----------------------------------------------------------------------------
(* The shell, the browsers and the caller.                                 *)

(* SafeBuffer.Write by the ssh library, which keeps its own reference.     *)
Produce ==
  /\ shell = "runs" /\ produced < Portions
  /\ produced' = produced + 1
  /\ buffer' = Append(buffer, produced + 1)
  /\ UNCHANGED <<sent, log, sender, receiver, typed, quit, ends, outside, panicked>>

ShellEnds ==
  /\ shell = "runs"
  /\ shell' = "ended"
  /\ UNCHANGED <<output, sender, receiver, typed, quit, wait, outside, panicked>>

CloseWs(r) ==
  /\ open[r]
  /\ open' = [open EXCEPT ![r] = FALSE]
  /\ UNCHANGED <<output, sender, receiver, typed, quit, ends, runs, closed, panicked>>

Close ==
  /\ Closes /\ ~closed
  /\ closed' = TRUE
  /\ UNCHANGED <<output, sender, receiver, typed, quit, ends, runs, open, panicked>>

(* GetLogicSshWsSession finds the session and replaces its websocket; it   *)
(* asks neither whether the session was closed nor whether the shell runs. *)
GetLogicSshWsSession ==
  /\ runs < Runs
  /\ runs' = runs + 1
  /\ open' = [open EXCEPT ![runs + 1] = TRUE]
  /\ UNCHANGED <<output, sender, receiver, typed, quit, ends, closed, panicked>>

(* Start, and Wait in a goroutine of the caller.                           *)
Start(r) ==
  /\ r <= runs /\ sender[r].pc = "off"
  /\ sender' = [sender EXCEPT ![r] = Idle]
  /\ receiver' = [receiver EXCEPT ![r] = Looks]
  /\ wait' = [wait EXCEPT ![r] = "wait"]
  /\ UNCHANGED <<output, typed, quit, shell, outside, panicked>>

-----------------------------------------------------------------------------
(* setQuit and <-exitCh.                                                   *)

SetQuit(r) == quit[r] < QuitCap /\ quit' = [quit EXCEPT ![r] = @ + 1]

TakeQuit(r) == quit[r] > 0 /\ quit' = [quit EXCEPT ![r] = @ - 1]

(* session.Wait: the end of the shell is received by one call only, and    *)
(* without an error nobody is told.                                        *)
WaitReturns(r) ==
  /\ wait[r] = "wait" /\ shell = "ended"
  /\ shell' = "told"
  /\ \E end \in {"error", "done"} : wait' = [wait EXCEPT ![r] = end]
  /\ UNCHANGED quit

WaitTells(r) ==
  /\ wait[r] = "error"
  /\ SetQuit(r)
  /\ wait' = [wait EXCEPT ![r] = "done"]
  /\ UNCHANGED shell

Wait(r) ==
  /\ WaitReturns(r) \/ WaitTells(r)
  /\ UNCHANGED <<output, sender, receiver, typed, outside, panicked>>

-----------------------------------------------------------------------------
(* sendComboOutput.                                                        *)

SenderAt(r, pc) == sender' = [sender EXCEPT ![r].pc = pc]

Panic == panicked' = TRUE /\ UNCHANGED <<output, sender>>

SenderQuits(r) ==
  /\ sender[r].pc = "select"
  /\ \/ TakeQuit(r)
     \/ closed /\ UNCHANGED quit
  /\ SenderAt(r, "quit")
  /\ UNCHANGED <<output, panicked>>

Ticks(r) ==
  /\ sender[r].pc = "select" /\ ~closed
  /\ SenderAt(r, "bytes")
  /\ UNCHANGED <<output, quit, panicked>>

TakeBytes(r) ==
  /\ sender[r].pc = "bytes"
  /\ IF closed THEN Panic
     ELSE /\ sender' = [sender EXCEPT ![r] =
                          [pc |-> IF buffer = <<>> THEN "select" ELSE "write",
                           bs |-> buffer]]
          /\ UNCHANGED <<output, panicked>>
  /\ UNCHANGED quit

(* The write goes to the websocket the session has now.  An error is       *)
(* logged and otherwise ignored.                                           *)
WriteWs(r) ==
  /\ sender[r].pc = "write"
  /\ sent' = IF open[runs] THEN sent \o sender[r].bs ELSE sent
  /\ SenderAt(r, "log")
  /\ UNCHANGED <<produced, buffer, log, quit, panicked>>

(* Mutant: what was sent is not logged.                                    *)
BugNoLog(r) ==
  /\ sender[r].pc = "log"
  /\ SenderAt(r, "reset")
  /\ UNCHANGED <<output, quit, panicked>>

WriteLog(r) ==
  /\ sender[r].pc = "log"
  /\ IF closed THEN Panic
     ELSE /\ log' = log \o sender[r].bs
          /\ SenderAt(r, "reset")
          /\ UNCHANGED <<produced, buffer, sent, panicked>>
  /\ UNCHANGED quit

Reset(r) ==
  /\ sender[r].pc = "reset"
  /\ IF closed THEN Panic
     ELSE /\ buffer' = <<>>
          /\ sender' = [sender EXCEPT ![r] = Idle]
          /\ UNCHANGED <<produced, sent, log, panicked>>
  /\ UNCHANGED quit

(* comboOutput.Buffer.Reset bypasses the lock of SafeBuffer.  A Write that *)
(* is under way may have read the length of the buffer before the reset    *)
(* and set it after: nothing is removed.                                   *)
ResetRaces(r) ==
  /\ sender[r].pc = "reset" /\ ~closed
  /\ shell = "runs" /\ produced < Portions
  /\ produced' = produced + 1
  /\ buffer' = Append(buffer, produced + 1)
  /\ sender' = [sender EXCEPT ![r] = Idle]
  /\ UNCHANGED <<sent, log, quit, panicked>>

SenderTells(r) ==
  /\ sender[r].pc = "quit"
  /\ SetQuit(r)
  /\ SenderAt(r, "done")
  /\ UNCHANGED <<output, panicked>>

Sends(r) ==
  /\ \/ SenderQuits(r) \/ Ticks(r) \/ TakeBytes(r) \/ WriteWs(r)
     \/ WriteLog(r) \/ Reset(r) \/ ResetRaces(r) \/ SenderTells(r)
  /\ UNCHANGED <<receiver, typed, ends, outside>>

-----------------------------------------------------------------------------
(* receiveWsMsg.                                                           *)

ReceiverAt(r, pc) == receiver' = [receiver EXCEPT ![r].pc = pc]

ReceiverQuits(r) ==
  /\ receiver[r].pc = "select"
  /\ TakeQuit(r)
  /\ ReceiverAt(r, "quit")
  /\ UNCHANGED <<typed, panicked>>

(* The default branch, taken only if there is no token: the read is of the *)
(* websocket that the session has now, and stays with it.                  *)
StartsRead(r) ==
  /\ receiver[r].pc = "select" /\ quit[r] = 0
  /\ receiver' = [receiver EXCEPT ![r] = [pc |-> "read", conn |-> runs, out |-> <<>>]]
  /\ UNCHANGED <<quit, typed, panicked>>

ReadFails(r) ==
  /\ receiver[r].pc = "read" /\ ~open[receiver[r].conn]
  /\ ReceiverAt(r, "quit")
  /\ UNCHANGED <<quit, typed, panicked>>

Mentions(s, w) == \E n \in 0..(Len(s) - Len(w)) : \A i \in 1..Len(w) : s[n + i] = w[i]

Forbidden(s) == \E w \in FilterMap : Mentions(s, w)

EndsLine(cmd) == cmd # <<>> /\ Last(cmd) = "cr"

(* Mutant: it is reset by a return or an interrupt anywhere in a command.  *)
BugResets(cmd) == \E n \in DOMAIN cmd : cmd[n] \in {"cr", "etx"}

(* The commands that reset inputFilterBuff: a whole one is compared with   *)
(* the interrupt, the last byte of one with the return.                    *)
Resets(cmd) == cmd = <<"etx">> \/ EndsLine(cmd)

HandsOn(r, pc, bytes) == receiver' = [receiver EXCEPT ![r].pc = pc, ![r].out = bytes]

(* A command, up to the write to the shell or the question whether a line  *)
(* with a forbidden word is meant.                                         *)
Handles(r, cmd) ==
  LET seen == filter \o cmd
      asks == EndsLine(cmd) /\ Forbidden(seen) IN
  \/ /\ cmd = <<>>
     /\ panicked' = TRUE
     /\ UNCHANGED <<filter, receiver>>
  \/ /\ cmd # <<>> /\ asks
     /\ filter' = seen
     /\ ReceiverAt(r, "ask")
     /\ UNCHANGED panicked
  \/ /\ cmd # <<>> /\ ~asks
     /\ filter' = IF Resets(cmd) THEN <<>> ELSE seen
     /\ HandsOn(r, "stdin", cmd)
     /\ UNCHANGED panicked

(* The answer to the question: the shell gets the return held back.        *)
Confirms(r) ==
  /\ filter' = <<>>
  /\ HandsOn(r, "confirm", <<"cr">>)
  /\ UNCHANGED panicked

(* A new size, or a message of another type.                               *)
Resizes(r) ==
  /\ receiver' = [receiver EXCEPT ![r] = Looks]
  /\ UNCHANGED <<filter, panicked>>

ReadsMessage(r) ==
  /\ receiver[r].pc = "read" /\ open[receiver[r].conn] /\ inputs < MaxInput
  /\ inputs' = inputs + 1
  /\ Resizes(r) \/ Confirms(r) \/ \E cmd \in Commands : Handles(r, cmd)
  /\ UNCHANGED <<quit, line, refused>>

(* The question is written to the websocket, without a lock: a write of    *)
(* the goroutine that sends may be under way, and the library stops the    *)
(* program when it sees two.                                               *)
Asks(r) ==
  /\ receiver[r].pc = "ask"
  /\ \/ /\ filter' = <<>> /\ refused' = line
        /\ receiver' = [receiver EXCEPT ![r] = Looks]
        /\ UNCHANGED panicked
     \/ /\ open[runs] /\ \E s \in Run : sender[s].pc = "write"
        /\ panicked' = TRUE
        /\ UNCHANGED <<receiver, filter, refused>>
  /\ UNCHANGED <<quit, inputs, line>>

(* What the line l comes to when bytes are written after it.               *)
Over(s) == {n \in DOMAIN s : s[n] \in {"cr", "etx"}}

IsLastOver(s, n) == n \in Over(s) /\ \A m \in Over(s) : m <= n

After(l, s) ==
  IF Over(s) = {} THEN l \o s
  ELSE SubSeq(s, (CHOOSE n \in Over(s) : IsLastOver(s, n)) + 1, Len(s))

(* What is left of a refused line once bytes are written after it.         *)
Kept(s) == IF Over(s) = {} THEN refused ELSE <<>>

(* An error, because the shell has ended, is logged.                       *)
Stdin(r) ==
  /\ receiver[r].pc \in {"stdin", "confirm"}
  /\ LET out == receiver[r].out IN
     IF shell = "runs" THEN line' = After(line, out) /\ refused' = Kept(out)
     ELSE UNCHANGED <<line, refused>>
  /\ receiver' = [receiver EXCEPT ![r] = Looks]
  /\ UNCHANGED <<quit, inputs, filter, panicked>>

(* Mutant: the goroutine ends without setQuit.                             *)
BugSilent(r) ==
  /\ receiver[r].pc = "quit"
  /\ ReceiverAt(r, "done")
  /\ UNCHANGED <<typed, quit, panicked>>

ReceiverTells(r) ==
  /\ receiver[r].pc = "quit"
  /\ SetQuit(r)
  /\ ReceiverAt(r, "done")
  /\ UNCHANGED <<typed, panicked>>

Receives(r) ==
  /\ \/ ReceiverQuits(r) \/ StartsRead(r) \/ ReadFails(r)
     \/ Asks(r) \/ Stdin(r) \/ ReceiverTells(r)
  /\ UNCHANGED <<output, sender, ends, outside>>

Message(r) ==
  /\ ReadsMessage(r)
  /\ UNCHANGED <<output, sender, ends, outside>>

-----------------------------------------------------------------------------
Next ==
  /\ ~panicked
  /\ \/ Produce \/ ShellEnds \/ Close \/ GetLogicSshWsSession
     \/ \E r \in Run :
          CloseWs(r) \/ Start(r) \/ Wait(r) \/ Sends(r) \/ Receives(r) \/ Message(r)

Spec == Init /\ [][Next]_vars

(* The caller starts what it asked for, the goroutines run, and one that   *)
(* waits at its select for a token or a tick takes a token some time if    *)
(* there is one each time.                                                 *)
Fairness ==
  \A r \in Run :
    /\ WF_vars(Start(r) /\ ~panicked)
    /\ WF_vars(Wait(r) /\ ~panicked)
    /\ WF_vars(Sends(r) /\ ~panicked)
    /\ SF_vars(SenderQuits(r) /\ UNCHANGED <<receiver, typed, ends, outside>> /\ ~panicked)
    /\ WF_vars(Receives(r) /\ ~panicked)

FairSpec == Spec /\ Fairness

-----------------------------------------------------------------------------
(* Properties.                                                             *)

TypeOK ==
  /\ produced \in 0..Portions /\ inputs \in 0..MaxInput
  /\ quit \in [Run -> 0..QuitCap]
  /\ \A r \in Run :
       /\ sender[r].pc \in {"off", "select", "bytes", "write", "log", "reset", "quit", "done"}
       /\ receiver[r].pc \in {"off", "select", "read", "ask", "stdin", "confirm", "quit", "done"}
       /\ receiver[r].conn \in 0..runs
  /\ {filter, line, refused} \subseteq Seq(Byte)
  /\ wait \in [Run -> {"off", "wait", "error", "done"}]
  /\ shell \in {"runs", "ended", "told"} /\ runs \in Run
  /\ open \in [Run -> BOOLEAN] /\ {closed, panicked} \subseteq BOOLEAN

NewInOrder(seq) ==
  \A n \in DOMAIN seq : LET before == {seq[m] : m \in 1..(n - 1)} IN
    seq[n] \in before \/ \A p \in before : p < seq[n]

(* While there is one run, the browser and the log get portions they did   *)
(* not have in the order the shell wrote them, and the log misses nothing  *)
(* that the browser got, save what is being logged.  (A portion may come   *)
(* twice, ResetRaces; with two runs order is lost as well.)                *)
SentInOrder ==
  runs = 1 =>
  /\ NewInOrder(sent) /\ NewInOrder(log)
  /\ ToSet(sent) \subseteq ToSet(log) \cup UNION {ToSet(sender[r].bs) : r \in Run}

(* The variables have their types, and what was sent is in order.          *)
Inv == TypeOK /\ SentInOrder

OneShell == runs = 1 /\ shell = "runs"

(* While one run reads, inputFilterBuff knows the shell's line: it is what *)
(* the bytes in the buffer make of what a refused line left, whatever was  *)
(* interrupted, confirmed, resized or handed over in pieces before.        *)
SeesLine ==
  OneShell /\ receiver[1].pc \in {"select", "read"} => line = After(refused, filter)

(* A command that ends in a return hands the shell no line with a forbidden*)
(* word unless it is the answer to the question, or the line began as one  *)
(* that was refused.  (Returns inside a command are not looked at.)        *)
LineChecked ==
  OneShell /\ receiver[1].pc = "stdin" /\ EndsLine(receiver[1].out) /\ refused = <<>>
    => ~Forbidden(After(line, Front(receiver[1].out)))

FilterSeesLine == SeesLine /\ LineChecked

(* "every 120ms write combine output bytes into websocket response"        *)
(* (ssh_session.go:199): what the shell has written is in the buffer or    *)
(* has been written to the websocket, while that is open.                  *)
OutputSent ==
  open[runs] => 1..produced = ToSet(buffer) \cup ToSet(sent)

(* "tells other go routine quit" (ssh_session.go:99 and :197): when every  *)
(* websocket has failed, all goroutines that read end, of whichever run,   *)
(* and so do the ones that send; none waits for ever to put its token.     *)
QuitTogether ==
  (\A r \in Run : ~open[r]) ~>
    \/ panicked \/ \E r \in Run : open[r]
    \/ \A r \in 1..runs : receiver[r].pc = "done" /\ sender[r].pc = "done"
=============================================================================
