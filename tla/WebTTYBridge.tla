---------------------------- MODULE WebTTYBridge ----------------------------
(***************************************************************************)
(* WebTTY.Run and the goroutines it starts, src/bbtty/webtty.go, over the  *)
(* websocket of ws.go.                                                     *)
(*                                                                         *)
(* One WebTTY, its slave, and one Run after another, each with a browser   *)
(* connection of its own that NewWebTTY has put into wt.MasterConn.  Run   *)
(* starts a goroutine that copies the slave's output to the master and one *)
(* that hands the master's messages to the slave; each sends the error     *)
(* that ends it to the channel errs.  Run returns at the first error or    *)
(* when its context is canceled, the goroutines go on until they fail.     *)
(*                                                                         *)
(* Output is a sequence of portions, as Slave.Read returns them; a portion *)
(* is a sequence of lines, the pieces strings.Split makes of it; of a line *)
(* it is known which of these it has:                                      *)
(*   start   StartFlag, as its prefix                                      *)
(*   ora     ORA-, as its prefix                                           *)
(*   root    root@, which masterWrite answers by dropping the connection   *)
(* A write to a websocket takes time, and no lock keeps two of them apart. *)
(***************************************************************************)
EXTENDS Integers, Sequences, FiniteSets

CONSTANTS
  Sessions,   \* how many times a browser connects
  Outputs,    \* the sequences of portions the slave may produce
  MaxInput,   \* bound: the messages read from masters
  ErrsCap,    \* the capacity of errs: 2
  InitMessages, \* how many messages begin a Run: the title and what is set
                \* of wt.Reconnect and wt.MasterPrefs
  HasStartFlag  \* whether wt.StartFlag is set

Line == SUBSET {"start", "ora", "root"}

ASSUME BoundAssumption ==
  /\ Sessions \in Nat /\ MaxInput \in Nat /\ ErrsCap \in Nat /\ InitMessages \in Nat
  /\ Outputs \subseteq Seq(Seq(Line)) /\ HasStartFlag \in BOOLEAN

Session == 1..Sessions

(* Who writes to a master: Run and its two goroutines.                     *)
Writer == {"main", "out", "in"} \X Session

VARIABLES
  output,     \* what the slave produces
  produced,   \* how many portions it has written to its terminal
  consumed,   \* how many of them have been read
  slaveOpen,  \* whether the slave's terminal is open
  toSlave,    \* how many commands have been written to the slave
  master,     \* wt.MasterConn: the session whose connection it is, or 0
  connOpen,   \* whether the connection of a session is open
  canceled,   \* whether the context of its Run is canceled
  main,       \* the progress of Run itself and what it returned
  errs,       \* the channel errs of each Run
  out,        \* the goroutine that reads the slave
  in,         \* the goroutine that reads the master
  inputs,     \* how many messages have been read from masters
  writing,    \* the connection that a writer is writing to, or 0
  met,        \* the writers whose write has overlapped with another's
  panicked,   \* whether the websocket library has stopped the program
  delivered,  \* the messages with output that reached each browser
  withheld,   \* the pieces of output kept back at the gate
  torn,       \* those reported written that did not arrive as they were
  failed,     \* those whose write to a master failed
  deleted     \* how often DelWebTTY has been called

slaveVars == <<output, produced, slaveOpen>>
connVars == <<master, connOpen, canceled>>
writeVars == <<writing, met, panicked>>
portions == <<consumed, delivered, withheld, torn, failed, deleted>>
inVars == <<in, inputs, toSlave>>
vars == <<slaveVars, connVars, writeVars, portions, inVars, main, errs, out>>

NoOut == [pc |-> "none", portion |-> 0, lines |-> {}, gated |-> FALSE, open |-> FALSE,
          last |-> FALSE, err |-> "none"]
NoIn == [pc |-> "none", target |-> 0, err |-> "none"]

Init ==
  /\ output \in Outputs
  /\ produced = 0 /\ consumed = 0 /\ slaveOpen = TRUE /\ toSlave = 0
  /\ master = 0
  /\ connOpen = [i \in Session |-> TRUE]
  /\ canceled = [i \in Session |-> FALSE]
  /\ main = [i \in Session |-> [pc |-> "none", left |-> InitMessages, result |-> "none"]]
  /\ errs = [i \in Session |-> <<>>]
  /\ out = [i \in Session |-> NoOut]
  /\ in = [i \in Session |-> NoIn]
  /\ inputs = 0
  /\ writing = [w \in Writer |-> 0] /\ met = {} /\ panicked = FALSE
  /\ delivered = [i \in Session |-> <<>>]
  /\ withheld = {} /\ torn = {} /\ failed = {} /\ deleted = 0

-----------------------------------------------------------------------------
(* The surroundings: the slave's program, browsers, and Run's caller.      *)

Produce ==
  /\ slaveOpen /\ produced < Len(output)
  /\ produced' = produced + 1
  /\ UNCHANGED <<output, slaveOpen, connVars, writeVars, portions, inVars, main, errs, out>>

SlaveExits ==
  /\ slaveOpen
  /\ slaveOpen' = FALSE
  /\ UNCHANGED <<output, produced, connVars, writeVars, portions, inVars, main, errs, out>>

CloseConn(i) ==
  /\ connOpen[i] /\ main[i].pc # "none"
  /\ connOpen' = [connOpen EXCEPT ![i] = FALSE]
  /\ UNCHANGED <<slaveVars, master, canceled, writeVars, portions, inVars, main, errs, out>>

Cancel(i) ==
  /\ ~canceled[i] /\ main[i].pc # "none"
  /\ canceled' = [canceled EXCEPT ![i] = TRUE]
  /\ UNCHANGED <<slaveVars, master, connOpen, writeVars, portions, inVars, main, errs, out>>

(* NewWebTTY attaches the next connection and Run is called.               *)
Attach(i) ==
  /\ main[i].pc = "none"
  /\ \A j \in 1..(i - 1) : main[j].pc # "none"
  /\ master' = i
  /\ main' = [main EXCEPT ![i].pc = "init"]
  /\ UNCHANGED <<slaveVars, connOpen, canceled, writeVars, portions, inVars, errs, out>>

-----------------------------------------------------------------------------
(* A write to the websocket.  wt.MasterConn is looked up where it begins.  *)

BeginWrite(w) ==
  LET others == {v \in Writer : writing[v] = master} IN
  /\ writing' = [writing EXCEPT ![w] = master]
  /\ met' = IF others = {} THEN met ELSE met \cup others \cup {w}
  /\ UNCHANGED panicked

EndWrite(w) ==
  /\ writing' = [writing EXCEPT ![w] = 0]
  /\ met' = met \ {w}
  /\ UNCHANGED panicked

(* The message may arrive; it may be reported written and not arrive, as   *)
(* WsWrapper.Write drops the error of writer.Close, which is where the     *)
(* text is sent, and as writers that meet share one buffer; or it may fail.*)
Arrives(w) == connOpen[writing[w]]
Spoiled(w) == ~connOpen[writing[w]] \/ w \in met

(* gorilla: "concurrent write to websocket connection"                     *)
ConcurrentWrite ==
  /\ met # {}
  /\ panicked' = TRUE
  /\ UNCHANGED <<slaveVars, connVars, writing, met, portions, inVars, main, errs, out>>

-----------------------------------------------------------------------------
(* Run: sendInitializeMessage, start the goroutines, wait.                 *)

Returned(e) == [pc |-> "returned", left |-> 0, result |-> e]

BeginInitialize(i) ==
  /\ main[i].pc = "init" /\ main[i].left > 0
  /\ BeginWrite(<<"main", i>>)
  /\ main' = [main EXCEPT ![i].pc = "writing", ![i].left = main[i].left - 1]
  /\ UNCHANGED <<slaveVars, connVars, portions, inVars, errs, out>>

EndInitialize(i) ==
  LET w == <<"main", i>> IN
  /\ main[i].pc = "writing"
  /\ EndWrite(w)
  /\ \/ (Arrives(w) \/ Spoiled(w)) /\ main' = [main EXCEPT ![i].pc = "init"]
     \/ Spoiled(w) /\ main' = [main EXCEPT ![i] = Returned("init")]
  /\ UNCHANGED <<slaveVars, connVars, portions, inVars, errs, out>>

StartGoroutines(i) ==
  /\ main[i].pc = "init" /\ main[i].left = 0
  /\ main' = [main EXCEPT ![i].pc = "select"]
  /\ \E exitCache \in BOOLEAN :
       out' = [out EXCEPT ![i] = [NoOut EXCEPT !.pc = "read",
                                               !.gated = HasStartFlag /\ ~exitCache,
                                               !.open = ~HasStartFlag \/ exitCache]]
  /\ in' = [in EXCEPT ![i].pc = "load"]
  /\ UNCHANGED <<slaveVars, connVars, writeVars, portions, inputs, toSlave, errs>>

ReturnCanceled(i) ==
  /\ main[i].pc = "select" /\ canceled[i]
  /\ main' = [main EXCEPT ![i] = Returned("canceled")]
  /\ UNCHANGED <<slaveVars, connVars, writeVars, portions, inVars, errs, out>>

ReturnError(i) ==
  /\ main[i].pc = "select" /\ errs[i] # <<>>
  /\ main' = [main EXCEPT ![i] = Returned(Head(errs[i]))]
  /\ errs' = [errs EXCEPT ![i] = Tail(errs[i])]
  /\ UNCHANGED <<slaveVars, connVars, writeVars, portions, inVars, out>>

(* Mutant: errs has no room, a send needs the Run to be at its select.     *)
BugUnbuffered(i, e) ==
  /\ main[i].pc = "select" /\ errs[i] = <<>>
  /\ errs' = [errs EXCEPT ![i] = <<e>>]

(* A send waits while the channel is full.                                 *)
SendError(i, e) ==
  /\ Len(errs[i]) < ErrsCap
  /\ errs' = [errs EXCEPT ![i] = Append(errs[i], e)]

-----------------------------------------------------------------------------
(* The goroutine that reads the slave.                                     *)

Lines(p) == DOMAIN output[p]

Pieces(p, lines) == {p} \X lines

OutputFails(i, e) == out' = [out EXCEPT ![i].pc = "send", ![i].err = e]

ReadSlaveFails(i) ==
  /\ out[i].pc = "read" /\ ~slaveOpen
  /\ OutputFails(i, "slaveClosed")
  /\ UNCHANGED <<slaveVars, connVars, writeVars, portions, inVars, main, errs>>

(* Lines of a portion that are passed on, the others are not; open says    *)
(* whether later portions are, last that the goroutine gives up after it.  *)
Pass(i, p, lines, open, last) ==
  /\ out' = [out EXCEPT ![i] = [pc |-> "begin", portion |-> p, lines |-> lines,
                                gated |-> out[i].gated, open |-> open, last |-> last,
                                err |-> "none"]]
  /\ withheld' = withheld \cup Pieces(p, Lines(p) \ lines)

Withhold(p) ==
  /\ withheld' = withheld \cup Pieces(p, Lines(p))
  /\ UNCHANGED out

Marked(p) == {n \in Lines(p) : output[p][n] \cap {"ora", "start"} # {}}

(* Mutant: the line with StartFlag opens the gate for what precedes it.    *)
BugOpens(i, p) ==
  IF Marked(p) = {} THEN Withhold(p) ELSE Pass(i, p, Lines(p), TRUE, FALSE)

(* Without Output, the first line with ORA- or StartFlag decides: of its   *)
(* portion only the line with ORA- is passed on, or only the last line.    *)
Gate(i, p) ==
  \/ Marked(p) = {} /\ Withhold(p)
  \/ \E n \in Marked(p) :
       /\ \A m \in Marked(p) : n <= m
       /\ \/ "ora" \in output[p][n] /\ Pass(i, p, {n}, FALSE, TRUE)
          \/ "ora" \notin output[p][n] /\ Pass(i, p, {Len(output[p])}, TRUE, FALSE)

ReadSlave(i) ==
  /\ out[i].pc = "read" /\ slaveOpen /\ consumed < produced
  /\ consumed' = consumed + 1
  /\ \/ out[i].open /\ Pass(i, consumed + 1, Lines(consumed + 1), TRUE, FALSE)
     \/ ~out[i].open /\ Gate(i, consumed + 1)
  /\ UNCHANGED <<slaveVars, connVars, writeVars, delivered, torn, failed, deleted, inVars,
                 main, errs>>

(* masterWrite: text with root@ is replaced by the order to disconnect.    *)
HasRoot(p, lines) == \E n \in lines : "root" \in output[p][n]

Message(p, lines) ==
  [portion |-> p, lines |-> lines, type |-> IF HasRoot(p, lines) THEN "error" ELSE "cmd"]

BeginMasterWrite(i) ==
  /\ out[i].pc = "begin"
  /\ BeginWrite(<<"out", i>>)
  /\ out' = [out EXCEPT ![i].pc = "writing"]
  /\ UNCHANGED <<slaveVars, connVars, portions, inVars, main, errs>>

(* The deferred DelWebTTY runs whether or not the write succeeds.          *)
EndMasterWrite(i) ==
  /\ out[i].pc = "writing"
  /\ EndWrite(<<"out", i>>)
  /\ deleted' = IF HasRoot(out[i].portion, out[i].lines) THEN deleted + 1 ELSE deleted
  /\ UNCHANGED <<slaveVars, connVars, consumed, withheld, inVars, main, errs>>

Shows(i) ==
  LET t == writing[<<"out", i>>] IN
  /\ Arrives(<<"out", i>>)
  /\ delivered' =
       [delivered EXCEPT ![t] = Append(delivered[t], Message(out[i].portion, out[i].lines))]
  /\ UNCHANGED <<torn, failed>>

Tears(i) ==
  /\ Spoiled(<<"out", i>>)
  /\ torn' = torn \cup Pieces(out[i].portion, out[i].lines)
  /\ UNCHANGED <<delivered, failed>>

(* Mutant: a portion is written again after it was written.                *)
BugRewrites(i) ==
  /\ EndMasterWrite(i) /\ Shows(i)
  /\ out' = [out EXCEPT ![i].pc = "begin"]

(* handleSlaveReadEvent has returned; "db connection failed" is the last.  *)
WriteMaster(i) ==
  /\ EndMasterWrite(i)
  /\ Shows(i) \/ Tears(i)
  /\ \/ out[i].last /\ OutputFails(i, "connect")
     \/ ~out[i].last /\ out' = [out EXCEPT ![i].pc = "read"]

WriteMasterFails(i) ==
  /\ EndMasterWrite(i)
  /\ Spoiled(<<"out", i>>)
  /\ failed' = failed \cup Pieces(out[i].portion, out[i].lines)
  /\ OutputFails(i, "write")
  /\ UNCHANGED <<delivered, torn>>

SendOutputError(i) ==
  /\ out[i].pc = "send"
  /\ SendError(i, out[i].err)
  /\ out' = [out EXCEPT ![i].pc = "done"]
  /\ UNCHANGED <<slaveVars, connVars, writeVars, portions, inVars, main>>

Copying(i) ==
  ReadSlaveFails(i) \/ ReadSlave(i) \/ BeginMasterWrite(i) \/ WriteMaster(i)
    \/ WriteMasterFails(i) \/ SendOutputError(i)

-----------------------------------------------------------------------------
(* The goroutine that reads the master.                                    *)

(* wt.MasterConn.Read: the connection is looked up before every read.      *)
LoadMaster(i) ==
  /\ in[i].pc = "load"
  /\ in' = [in EXCEPT ![i].pc = "read", ![i].target = master]
  /\ UNCHANGED <<slaveVars, connVars, writeVars, portions, inputs, toSlave, main, errs, out>>

InputFails(i, e) == in' = [in EXCEPT ![i].pc = "send", ![i].err = e]

(* Mutant: a failed read is repeated.                                      *)
BugRereads(i) ==
  /\ in[i].pc = "read" /\ ~connOpen[in[i].target]
  /\ in' = [in EXCEPT ![i].pc = "load"]
  /\ UNCHANGED <<slaveVars, connVars, writeVars, portions, inputs, toSlave, main, errs, out>>

ReadMasterFails(i) ==
  /\ in[i].pc = "read" /\ ~connOpen[in[i].target]
  /\ InputFails(i, "masterClosed")
  /\ UNCHANGED <<slaveVars, connVars, writeVars, portions, inputs, toSlave, main, errs, out>>

(* Two goroutines that read one connection spoil it for each other: a read *)
(* fails, or the library's buffer is left in a state that stops it.        *)
ReadsMeet(i) ==
  /\ \E j \in Session \ {i} :
       in[i].pc = "read" /\ in[j].pc = "read" /\ in[i].target = in[j].target
  /\ \/ InputFails(i, "masterClosed") /\ UNCHANGED panicked
     \/ panicked' = TRUE /\ UNCHANGED in
  /\ UNCHANGED <<slaveVars, connVars, writing, met, portions, inputs, toSlave, main, errs, out>>

ReadMaster(i) ==
  /\ in[i].pc = "read" /\ connOpen[in[i].target]
  /\ inputs < MaxInput
  /\ inputs' = inputs + 1
  /\ UNCHANGED <<slaveVars, connVars, writeVars, portions, main, errs, out>>

(* handleMasterReadEvent: a command is written to the slave.               *)
HandleCmd(i) ==
  /\ ReadMaster(i)
  /\ \/ /\ slaveOpen
        /\ toSlave' = toSlave + 1
        /\ in' = [in EXCEPT ![i].pc = "load"]
     \/ /\ ~slaveOpen
        /\ InputFails(i, "slaveWrite")
        /\ UNCHANGED toSlave

(* A message that is empty, no JSON, or of an unknown type.                *)
HandleBad(i) ==
  /\ ReadMaster(i)
  /\ InputFails(i, "input")
  /\ UNCHANGED toSlave

(* A resize changes only the terminal's size.                              *)
HandleResize(i) ==
  /\ ReadMaster(i)
  /\ in' = [in EXCEPT ![i].pc = "load"]
  /\ UNCHANGED toSlave

HandlePing(i) ==
  /\ ReadMaster(i)
  /\ in' = [in EXCEPT ![i].pc = "pong"]
  /\ UNCHANGED toSlave

BeginPong(i) ==
  /\ in[i].pc = "pong"
  /\ BeginWrite(<<"in", i>>)
  /\ in' = [in EXCEPT ![i].pc = "ponging"]
  /\ UNCHANGED <<slaveVars, connVars, portions, inputs, toSlave, main, errs, out>>

Pong(i) ==
  LET w == <<"in", i>> IN
  /\ in[i].pc = "ponging"
  /\ EndWrite(w)
  /\ \/ (Arrives(w) \/ Spoiled(w)) /\ in' = [in EXCEPT ![i].pc = "load"]
     \/ Spoiled(w) /\ InputFails(i, "write")
  /\ UNCHANGED <<slaveVars, connVars, portions, inputs, toSlave, main, errs, out>>

SendInputError(i) ==
  /\ in[i].pc = "send"
  /\ SendError(i, in[i].err)
  /\ in' = [in EXCEPT ![i].pc = "done"]
  /\ UNCHANGED <<slaveVars, connVars, writeVars, portions, inputs, toSlave, main, out>>

Handle(i) == HandleCmd(i) \/ HandleBad(i) \/ HandleResize(i) \/ HandlePing(i)

Reading(i) ==
  LoadMaster(i) \/ ReadMasterFails(i) \/ BeginPong(i) \/ Pong(i) \/ SendInputError(i)

RunStep(i) ==
  BeginInitialize(i) \/ EndInitialize(i) \/ StartGoroutines(i) \/ ReturnCanceled(i)
    \/ ReturnError(i)

Next ==
  /\ ~panicked
  /\ \/ Produce \/ SlaveExits \/ ConcurrentWrite
     \/ \E i \in Session : CloseConn(i) \/ Cancel(i) \/ Attach(i)
     \/ \E i \in Session : RunStep(i) \/ Copying(i) \/ Reading(i) \/ Handle(i) \/ ReadsMeet(i)

Spec == Init /\ [][Next]_vars

(* Goroutines that can go on do; programs and browsers need not.           *)
Fairness ==
  \A i \in Session : /\ WF_vars(~panicked /\ RunStep(i))
                     /\ WF_vars(~panicked /\ Copying(i))
                     /\ WF_vars(~panicked /\ Reading(i))

FairSpec == Spec /\ Fairness

-----------------------------------------------------------------------------
(* Properties.                                                             *)

Result == {"none", "init", "canceled", "slaveClosed", "masterClosed", "write",
           "connect", "slaveWrite", "input"}

(* The pieces of the first c portions.                                     *)
PiecesTo(c) == UNION {Pieces(p, Lines(p)) : p \in 1..c}

TypeOK ==
  /\ output \in Outputs
  /\ produced \in 0..Len(output) /\ consumed \in 0..produced
  /\ slaveOpen \in BOOLEAN /\ toSlave \in 0..MaxInput /\ inputs \in 0..MaxInput
  /\ master \in 0..Sessions
  /\ connOpen \in [Session -> BOOLEAN] /\ canceled \in [Session -> BOOLEAN]
  /\ main \in [Session -> [pc : {"none", "init", "writing", "select", "returned"},
                           left : 0..InitMessages, result : Result]]
  /\ \A i \in Session : Len(errs[i]) <= ErrsCap
  /\ \A i \in Session :
       /\ out[i].pc \in {"none", "read", "begin", "writing", "send", "done"}
       /\ out[i].portion \in 0..consumed
       /\ Pieces(out[i].portion, out[i].lines) \subseteq PiecesTo(consumed)
       /\ {out[i].gated, out[i].open, out[i].last} \subseteq BOOLEAN /\ out[i].err \in Result
  /\ in \in [Session -> [pc : {"none", "load", "read", "pong", "ponging", "send", "done"},
                         target : 0..Sessions, err : Result]]
  /\ writing \in [Writer -> 0..Sessions] /\ met \subseteq Writer /\ panicked \in BOOLEAN
  /\ UNION {withheld, torn, failed} \subseteq PiecesTo(consumed)
  /\ deleted \in 0..consumed

(* The pieces of output that a sequence of messages stands for.            *)
PiecesOf(d) == UNION {Pieces(d[n].portion, d[n].lines) : n \in DOMAIN d}

Held(i) ==
  IF out[i].pc \in {"begin", "writing"} THEN Pieces(out[i].portion, out[i].lines) ELSE {}

(* Where a piece of output that has been read may be.                      *)
Place == ({"withheld", "torn", "failed"} \X {0}) \cup ({"held", "delivered"} \X Session)

Content(x) ==
  CASE x[1] = "withheld" -> withheld
    [] x[1] = "torn" -> torn
    [] x[1] = "failed" -> failed
    [] x[1] = "held" -> Held(x[2])
    [] x[1] = "delivered" -> PiecesOf(delivered[x[2]])

(* Whatever number of Runs read the slave at once, each line read from it  *)
(* is delivered, kept back at the gate, lost or refused by the websocket,  *)
(* or in the hands of a goroutine, and is so in one place only, and once.  *)
EachPortionOnce ==
  /\ UNION {Content(x) : x \in Place} = PiecesTo(consumed)
  /\ \A x, y \in Place : x # y => Content(x) \cap Content(y) = {}
  /\ \A i \in Session : \A m, n \in DOMAIN delivered[i] :
       m # n => PiecesOf(<<delivered[i][m]>>) \cap PiecesOf(<<delivered[i][n]>>) = {}

Alone == \A i \in Session : i > 1 => main[i].pc = "none"

(* After one message the next one is a whole portion that came later, and  *)
(* what came between them has been lost to a write that overlapped.        *)
Follows(m, n) ==
  /\ m.portion < n.portion /\ n.lines = Lines(n.portion)
  /\ \A p \in (m.portion + 1)..(n.portion - 1) : Pieces(p, Lines(p)) \subseteq torn

(* A browser that is the only one gets the output in the order the slave   *)
(* produced it, and without a gap from the first message on, but for       *)
(* messages that a pong has torn.                                          *)
InOrder ==
  Alone => \A i \in Session : \A n \in 2..Len(delivered[i]) :
    Follows(delivered[i][n - 1], delivered[i][n])

Begun(p, n) ==
  \E q \in 1..p : \E m \in Lines(q) : "start" \in output[q][m] /\ (q < p \/ m <= n)

(* Nothing that precedes the line with StartFlag is shown to the only      *)
(* browser, if its Run has to wait for that line, but a line with which    *)
(* the database refuses.                                                   *)
GateHolds ==
  Alone => \A i \in Session : out[i].gated =>
    \A x \in PiecesOf(delivered[i]) : "ora" \in output[x[1]][x[2]] \/ Begun(x[1], x[2])

(* The portions that have been written with a root prompt, with or without *)
(* success.                                                                *)
RootsWritten ==
  {x[1] : x \in {y \in UNION ({torn, failed} \cup {PiecesOf(delivered[i]) : i \in Session}) :
                   "root" \in output[y[1]][y[2]]}}

(* A root prompt is never shown, but answered with the order to disconnect,*)
(* and each one asks for the WebTTY to be deleted, once.                   *)
RootDeletes ==
  /\ deleted = Cardinality(RootsWritten)
  /\ \A i \in Session : \A n \in DOMAIN delivered[i] :
       HasRoot(delivered[i][n].portion, delivered[i][n].lines) <=>
         delivered[i][n].type = "error"

(* What a browser is shown and what is left for others is right.           *)
Safe == TypeOK /\ EachPortionOnce /\ InOrder /\ GateHolds /\ RootDeletes

(* The goroutines of a Run never wait for a receiver of their error: once  *)
(* the slave and every connection are closed they end, and so does Run,    *)
(* whether it returned before them or not, unless the program stops.       *)
NoneLeft ==
  (~slaveOpen /\ \A i \in Session : ~connOpen[i]) ~>
    \/ panicked
    \/ \A i \in Session : /\ main[i].pc \in {"none", "returned"}
                          /\ out[i].pc \in {"none", "done"}
                          /\ in[i].pc \in {"none", "done"}

(* "If the connection to one end gets closed, returns" (webtty.go:170):    *)
(* the Run of a closed connection ends.                                    *)
ClosedConnEndsRun ==
  \A i \in Session :
    (main[i].pc = "select" /\ ~connOpen[i]) ~> (main[i].pc = "returned" \/ panicked)

(* The code keeps that as long as no other browser attaches.               *)
ClosedConnEndsLoneRun ==
  \A i \in Session :
    (main[i].pc = "select" /\ ~connOpen[i]) ~>
      (main[i].pc = "returned" \/ panicked \/ ~Alone)
=============================================================================
