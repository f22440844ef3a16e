------------------------------- MODULE Tunnel -------------------------------
(***************************************************************************)
(* A tunnel to guacd, src/bbtty/guac: NewGuacamoleTunnel (guac.go) shakes  *)
(* hands over a Stream (stream_conn.go) and hands the stream to a          *)
(* SimpleTunnel (tunnel_pipe.go), whose readers take turns under a         *)
(* CountedLock.  The lock here is readerLock; writerLock is the same code. *)
(*                                                                         *)
(* The stream is taken as what GuacStream implements: instructions arrive  *)
(* whole and in order, a read fails at its deadline or when the connection *)
(* is closed.  guacd is outside: it asks for the values of some names,     *)
(* acknowledges the connection, and may refuse, go silent or hang up at    *)
(* any time.                                                               *)
(***************************************************************************)
EXTENDS CountedLock, Sequences, SequencesExt

CONSTANTS
  NoConnection,  \* no ConnectionID: a new session
  Configs,       \* the configurations a caller uses: ConnectionID and Protocol
  Parameters,    \* Config.Parameters: a value for each name configured
  Asks,          \* the sequences of names guacd may ask for
  Given,         \* the connection IDs guacd gives
  Instructions   \* bound: the instructions guacd sends once connected

ASSUME AsksAssumption == Asks \subseteq Seq(STRING)

VARIABLES
  config,        \* the caller's configuration
  hs,            \* "dial", or the instruction Handshake sends or waits for next
  asked,         \* the names in the args instruction
  ConnectionID,  \* Stream.ConnectionID
  toGuacd,       \* the instructions on their way to guacd
  fromGuacd,     \* the instructions on their way from guacd
  guacd,         \* guacd: where it is, what it got and what it gave
  open,          \* whether the connection is open
  reading,       \* the instruction a reader is returning, 0 for none
  delivered      \* the instructions returned to readers

handshake == <<config, hs, asked, ConnectionID>>
network == <<toGuacd, fromGuacd, guacd, open>>
readers == <<reading, delivered>>
tvars == <<vars, handshake, network, readers>>

Instr(op, args) == [op |-> op, args |-> args]

TunnelInit ==
  /\ Init
  /\ config \in Configs
  /\ hs = "dial" /\ asked = <<>> /\ ConnectionID = NoConnection
  /\ toGuacd = <<>> /\ fromGuacd = <<>> /\ open = FALSE
  /\ guacd = [pc |-> "select", got |-> <<>>, asks |-> <<>>, gave |-> NoConnection, sent |-> 0]
  /\ reading = [g \in Goroutine |-> 0] /\ delivered = <<>>

-----------------------------------------------------------------------------
(* Handshake, on the connection that NewGuacamoleTunnel has dialed.        *)

Dial ==
  /\ hs = "dial"
  /\ \/ hs' = "select" /\ open' = TRUE
     \/ hs' = "failed" /\ UNCHANGED open   \* no address, or nobody answers
  /\ UNCHANGED <<config, asked, ConnectionID, toGuacd, fromGuacd, guacd>>

Selected == IF config.id = NoConnection THEN config.protocol ELSE config.id

(* Go's zero value "" for a name that is not configured.                   *)
ValueOf(name) == IF name \in DOMAIN Parameters THEN Parameters[name] ELSE ""

(* Mutant: names without a value are skipped.                              *)
BugValues(names) == [n \in DOMAIN SelectSeq(names, LAMBDA x : ValueOf(x) # "") |->
  ValueOf(SelectSeq(names, LAMBDA x : ValueOf(x) # "")[n])]

Values(names) == [n \in DOMAIN names |-> ValueOf(names[n])]

(* What is sent, in this order, each with what comes after it.             *)
After == [select |-> "args", size |-> "audio", audio |-> "video", video |-> "image",
          image |-> "connect", connect |-> "ready"]

Payload(op) ==
  IF op = "select" THEN <<Selected>> ELSE IF op = "connect" THEN Values(asked) ELSE <<>>

Send ==
  /\ hs \in DOMAIN After
  /\ \/ /\ open
        /\ toGuacd' = Append(toGuacd, Instr(hs, Payload(hs)))
        /\ hs' = After[hs]
     \/ /\ hs' = "failed"   \* the deadline of the write, or no connection
        /\ UNCHANGED toGuacd
  /\ UNCHANGED <<config, asked, ConnectionID, fromGuacd, guacd, open>>

(* AssertOpcode on an instruction that has come.                           *)
Receive(op) ==
  /\ hs = op /\ fromGuacd # <<>>
  /\ fromGuacd' = Tail(fromGuacd)
  /\ UNCHANGED <<config, toGuacd, guacd, open>>

ReceiveArgs ==
  /\ Receive("args") /\ Head(fromGuacd).op = "args"
  /\ asked' = Head(fromGuacd).args
  /\ hs' = "size"
  /\ UNCHANGED ConnectionID

(* Mutant: Flush at the end drops what has come behind ready.              *)
BugFlush ==
  /\ hs = "ready" /\ fromGuacd # <<>> /\ Head(fromGuacd).op = "ready"
  /\ Head(fromGuacd).args # <<>>
  /\ ConnectionID' = Head(fromGuacd).args[1]
  /\ hs' = "up" /\ fromGuacd' = <<>>
  /\ UNCHANGED <<config, asked, toGuacd, guacd, open>>

ReceiveReady ==
  /\ Receive("ready") /\ Head(fromGuacd).op = "ready" /\ Head(fromGuacd).args # <<>>
  /\ ConnectionID' = Head(fromGuacd).args[1]
  /\ hs' = "up"
  /\ UNCHANGED asked

(* Another opcode, or a ready without an ID.                               *)
ReceiveOther ==
  /\ \E op \in {"args", "ready"} :
       /\ Receive(op)
       /\ \/ Head(fromGuacd).op # op
          \/ op = "ready" /\ Head(fromGuacd).args = <<>>
  /\ hs' = "failed"
  /\ UNCHANGED <<asked, ConnectionID>>

(* Mutant: the handshake reads again after a deadline.                     *)
BugWaits ==
  /\ hs \in {"args", "ready"} /\ fromGuacd = <<>> /\ ~open
  /\ hs' = "failed"
  /\ UNCHANGED <<config, asked, ConnectionID, network>>

(* ReadSome's deadline, or the end of the stream.                          *)
ReadFails ==
  /\ hs \in {"args", "ready"} /\ fromGuacd = <<>>
  /\ hs' = "failed"
  /\ UNCHANGED <<config, asked, ConnectionID, network>>

Handshake == Dial \/ Send \/ ReceiveArgs \/ ReceiveReady \/ ReceiveOther \/ ReadFails

-----------------------------------------------------------------------------
(* guacd.                                                                  *)

GuacdIs(p, got, asks, gave) ==
  guacd' = [pc |-> p, got |-> got, asks |-> asks, gave |-> gave, sent |-> guacd.sent]

GuacdReads ==
  /\ open /\ toGuacd # <<>>
  /\ toGuacd' = Tail(toGuacd)
  /\ LET i == Head(toGuacd)
         got == Append(guacd.got, i)
     IN \/ /\ i.op = "select"
           /\ \E names \in Asks :
                /\ fromGuacd' = Append(fromGuacd, Instr("args", names))
                /\ GuacdIs("setup", got, names, guacd.gave)
        \/ /\ i.op = "connect"
           /\ \E id \in Given :
                /\ fromGuacd' = Append(fromGuacd, Instr("ready", <<id>>))
                /\ GuacdIs("up", got, guacd.asks, id)
        \/ /\ i.op \in {"select", "connect"}
           /\ fromGuacd' \in {Append(fromGuacd, Instr("error", <<>>)), Append(fromGuacd, Instr("ready", <<>>))}
           /\ GuacdIs("refused", got, guacd.asks, guacd.gave)
        \/ /\ i.op \notin {"select", "connect"}
           /\ GuacdIs(guacd.pc, got, guacd.asks, guacd.gave)
           /\ UNCHANGED fromGuacd
  /\ UNCHANGED open

GuacdSends ==
  /\ open /\ guacd.pc = "up" /\ guacd.sent < Instructions
  /\ guacd' = [guacd EXCEPT !.sent = @ + 1]
  /\ fromGuacd' = Append(fromGuacd, Instr("sync", <<guacd.sent + 1>>))
  /\ UNCHANGED <<toGuacd, open>>

(* guacd hangs up, or the caller closes the tunnel.                        *)
Close ==
  /\ open
  /\ open' = FALSE
  /\ UNCHANGED <<toGuacd, fromGuacd, guacd>>

-----------------------------------------------------------------------------
(* The readers of the tunnel: AcquireReader, one ReadSome, ReleaseReader.  *)

(* ReadSome finds the next instruction ...                                 *)
Begin(g) ==
  /\ pc[g] = "holds" /\ reading[g] = 0 /\ fromGuacd # <<>>
  /\ reading' = [reading EXCEPT ![g] = Head(fromGuacd).args[1]]
  /\ UNCHANGED <<vars, handshake, network, delivered>>

(* ... and returns it, with the position of parsing moved behind it.       *)
End(g) ==
  /\ reading[g] # 0 /\ fromGuacd # <<>>
  /\ reading' = [reading EXCEPT ![g] = 0]
  /\ delivered' = Append(delivered, reading[g])
  /\ fromGuacd' = Tail(fromGuacd)
  /\ Unlock(g)
  /\ UNCHANGED <<handshake, toGuacd, guacd, open>>

(* ReadSome fails at its deadline or the end of the stream.                *)
GiveUp(g) ==
  /\ pc[g] = "holds" /\ reading[g] = 0 /\ fromGuacd = <<>>
  /\ Unlock(g)
  /\ UNCHANGED <<handshake, network, readers>>

Acquire(g) == (Lock(g) \/ LockCore(g) \/ UnlockCore(g)) /\ UNCHANGED <<handshake, network, readers>>

Reader(g) == hs = "up" /\ (Acquire(g) \/ Begin(g) \/ End(g) \/ GiveUp(g))

-----------------------------------------------------------------------------
TunnelNext ==
  \/ Handshake /\ UNCHANGED <<vars, readers>>
  \/ (GuacdReads \/ GuacdSends \/ Close) /\ UNCHANGED <<vars, handshake, readers>>
  \/ \E g \in Goroutine : Reader(g)

(* The handshake runs: the dial is given up by the operating system in the *)
(* end, and each of its reads and writes has a deadline.  A                *)
(* reader that holds the lock reads or gives up, also at a deadline, and   *)
(* releases; sync.Mutex passes nobody over for ever.                       *)
TunnelFairness ==
  /\ WF_tvars(Handshake /\ UNCHANGED <<vars, readers>>)
  /\ \A g \in Goroutine :
       /\ SF_tvars(hs = "up" /\ LockCore(g) /\ UNCHANGED <<handshake, network, readers>>)
       /\ WF_tvars(hs = "up" /\ (Begin(g) \/ End(g) \/ GiveUp(g)))
       /\ WF_tvars(hs = "up" /\ UnlockCore(g) /\ UNCHANGED <<handshake, network, readers>>)

TunnelSpec == TunnelInit /\ [][TunnelNext]_tvars /\ TunnelFairness

-----------------------------------------------------------------------------
(* Properties.                                                             *)

(* When Handshake succeeds guacd has had the whole set-up, in its order,   *)
(* with one value for every name it asked for, at that name's place, and   *)
(* both ends know the connection by the same ID.                           *)
Agreed ==
  hs = "up" =>
    /\ [n \in DOMAIN guacd.got |-> guacd.got[n].op]
         = <<"select", "size", "audio", "video", "image", "connect">>
    /\ Head(guacd.got).args = <<Selected>>
    /\ Len(Last(guacd.got).args) = Len(guacd.asks)
    /\ \A n \in DOMAIN guacd.asks : Last(guacd.got).args[n] = ValueOf(guacd.asks[n])
    /\ ConnectionID = guacd.gave

(* The readers get what guacd sends once it is connected, each instruction *)
(* once and in order, whoever reads it; what comes in the packets of the   *)
(* handshake is not lost at its end.                                       *)
HandedOver ==
  hs = "up" => delivered \o [n \in DOMAIN fromGuacd |-> fromGuacd[n].args[1]]
                 = [n \in 1..guacd.sent |-> n]

(* The handshake ends, whatever guacd does.                                *)
HandshakeEnds == <>(hs \in {"up", "failed"})
=============================================================================
