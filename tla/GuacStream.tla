----------------------------- MODULE GuacStream -----------------------------
(***************************************************************************)
(* Stream, src/bbtty/guac/stream_conn.go: reading one instruction at a     *)
(* time from a TCP connection that delivers bytes in any portions.         *)
(*                                                                         *)
(* s.buffer is a window of s.reset, the array behind it.  A returned       *)
(* instruction is cut off the front of the window; unread bytes are copied *)
(* back to the start of the array when the window comes close to its end.  *)
(* s.parseStart remembers how far the instruction in front is complete, so *)
(* that a read that times out can be repeated.  ReadOne parses what was    *)
(* read.  One goroutine reads at a time (SimpleTunnel's reader lock).      *)
(***************************************************************************)
EXTENDS Integers, Sequences, GuacProtocol

CONSTANTS
  Peers,           \* what peers send, and whether they count bytes as String does
  Capacity,        \* cap of the array: 3 * MaxGuacMessage
  MaxGuacMessage   \* the room below which the window is moved

ASSUME SizeAssumption ==
  MaxGuacMessage \in Nat \ {0} /\ Capacity \in Nat /\ MaxGuacMessage <= Capacity

(* An instruction has an opcode.                                           *)
Instruction == Seq(Seq(Seq(Byte))) \ {<<>>}

ASSUME PeersAssumption == Peers \subseteq [countsBytes : BOOLEAN, script : Seq(Instruction)]

VARIABLES
  peer,        \* the peer: its script of instructions and how it counts
  received,    \* how many bytes of it have been read from the connection
  closed,      \* whether the connection is closed on this side
  array,       \* the array behind s.buffer and s.reset
  start,       \* where s.buffer begins in it
  length,      \* len(s.buffer)
  parseStart,  \* s.parseStart
  pc,          \* where the reader is in ReadSome: "idle" outside
  err,         \* what the last call returned as its error
  delivered,   \* how many instructions have been returned
  last         \* the bytes of the instruction returned last

window == <<array, start, length, parseStart>>
result == <<err, delivered, last>>
vars == <<peer, received, closed, window, pc, result>>

Wire ==
  LET encode(instruction) ==
        IF peer.countsBytes THEN String(instruction) ELSE Documented(instruction)
  IN  FlattenSeq([i \in DOMAIN peer.script |-> encode(peer.script[i])])

Blank == "blank"

Init ==
  /\ peer \in Peers
  /\ received = 0
  /\ closed = FALSE
  /\ array = [i \in 0..(Capacity - 1) |-> Blank]
  /\ start = 0 /\ length = 0 /\ parseStart = 0
  /\ pc = "idle"
  /\ err = "none" /\ delivered = 0 /\ last = <<>>

-----------------------------------------------------------------------------
(* The window.  Positions are relative to its start, as in the code.       *)

At(i) == array[start + i]

Slice(i, j) == [n \in 1..(j - i) |-> At(i + n - 1)]

cap == Capacity - start

(* Mutant: the bytes of the window are not copied.                         *)
BugNoCopy ==
  /\ start' = 0
  /\ UNCHANGED <<array, length, parseStart>>

(* copy(s.reset, s.buffer), then s.buffer = s.reset[:len(s.buffer)]        *)
MoveToFront ==
  /\ array' = [i \in DOMAIN array |-> IF i < length THEN At(i) ELSE array[i]]
  /\ start' = 0
  /\ UNCHANGED <<length, parseStart>>

-----------------------------------------------------------------------------
(* The element at parseStart: its length ends at the first byte that is no *)
(* digit; it is complete when its terminator is in the window.             *)

LengthEnd ==
  LET ends == {i \in parseStart..(length - 1) : ~IsDigit(At(i))}
  IN  IF ends = {} THEN length ELSE CHOOSE i \in ends : \A j \in ends : i <= j

HasLength == LengthEnd < length

ElementLength == Number(Slice(parseStart, LengthEnd))

Terminator == LengthEnd + 1 + ElementLength

IsComplete == HasLength /\ At(LengthEnd) = "." /\ Terminator < length

-----------------------------------------------------------------------------
(* ReadSome.                                                               *)

(* SetReadDeadline fails on a closed connection.                           *)
ReadSome ==
  /\ pc = "idle"
  /\ IF closed THEN pc' = "idle" /\ err' = "deadline"
     ELSE pc' = "parse" /\ err' = "none"
  /\ UNCHANGED <<peer, received, closed, window, delivered, last>>

Return(e) == pc' = "idle" /\ err' = e

NextElement ==
  /\ pc = "parse" /\ IsComplete
  /\ At(Terminator) = ","
  /\ parseStart' = Terminator + 1
  /\ UNCHANGED <<peer, received, closed, array, start, length, pc, result>>

(* The instruction is returned; ReadOne parses it at once.                 *)
EndOfInstruction ==
  /\ pc = "parse" /\ IsComplete
  /\ At(Terminator) = ";"
  /\ last' = Slice(0, Terminator + 1)
  /\ delivered' = delivered + 1
  /\ parseStart' = 0
  /\ start' = start + Terminator + 1
  /\ length' = length - (Terminator + 1)
  /\ Return("none")
  /\ UNCHANGED <<peer, received, closed, array>>

BadTerminator ==
  /\ pc = "parse" /\ IsComplete
  /\ At(Terminator) \notin {",", ";"}
  /\ parseStart' = Terminator + 1
  /\ Return("syntax")
  /\ UNCHANGED <<peer, received, closed, array, start, length, delivered, last>>

BadLength ==
  /\ pc = "parse" /\ HasLength
  /\ At(LengthEnd) # "."
  /\ Return("syntax")
  /\ UNCHANGED <<peer, received, closed, window, delivered, last>>

(* The window is moved when the room behind it gets short.                 *)
NeedMore ==
  /\ pc = "parse"
  /\ HasLength => At(LengthEnd) = "." /\ Terminator >= length
  /\ IF cap < MaxGuacMessage THEN MoveToFront ELSE UNCHANGED window
  /\ pc' = "read"
  /\ UNCHANGED <<peer, received, closed, result>>

-----------------------------------------------------------------------------
(* conn.Read into the room behind the window.                              *)

Receive(n) ==
  /\ pc = "read" /\ ~closed
  /\ n <= cap - length /\ n <= Len(Wire) - received
  /\ array' = [i \in DOMAIN array |->
                 IF i - (start + length) \in 0..(n - 1)
                 THEN Wire[received + i - (start + length) + 1]
                 ELSE array[i]]
  /\ length' = length + n
  /\ received' = received + n
  /\ pc' = "parse"
  /\ UNCHANGED <<peer, closed, start, parseStart, result>>

(* A read into no room gives 0 bytes at once; err is set and the loop goes *)
(* on.                                                                     *)
ReceiveNothing ==
  /\ pc = "read" /\ cap = length
  /\ pc' = "parse"
  /\ err' = "zero"
  /\ UNCHANGED <<peer, received, closed, window, delivered, last>>

(* Mutant: a read that times out throws away what was read before.         *)
BugDiscards ==
  /\ pc = "read" /\ length < cap
  /\ Return(IF closed THEN "closed" ELSE "timeout")
  /\ length' = 0 /\ parseStart' = 0
  /\ UNCHANGED <<peer, received, closed, array, start, delivered, last>>

(* A timeout, the end of the stream, or the connection closed on this side. *)
ReadFails ==
  /\ pc = "read" /\ length < cap
  /\ Return(IF closed THEN "closed" ELSE "timeout")
  /\ UNCHANGED <<peer, received, closed, window, delivered, last>>

-----------------------------------------------------------------------------
(* Flush by the reader, between two reads; Close, by anyone.               *)

(* Mutant: Flush empties the window.                                       *)
BugEmpties ==
  /\ pc = "idle"
  /\ start' = 0 /\ length' = 0 /\ parseStart' = 0
  /\ UNCHANGED <<peer, received, closed, array, pc, result>>

Flush ==
  /\ pc = "idle"
  /\ MoveToFront
  /\ UNCHANGED <<peer, received, closed, pc, result>>

Close ==
  /\ closed' = TRUE
  /\ UNCHANGED <<peer, received, window, pc, result>>

Parsing == NextElement \/ EndOfInstruction \/ BadTerminator \/ BadLength \/ NeedMore

Next ==
  \/ ReadSome \/ Parsing
  \/ \E n \in 1..Capacity : Receive(n)
  \/ ReceiveNothing \/ ReadFails
  \/ Flush \/ Close

Spec == Init /\ [][Next]_vars

(* A reader that keeps calling, and a peer whose bytes arrive before the   *)
(* deadline now and then.                                                  *)
Fairness ==
  /\ WF_vars(ReadSome) /\ WF_vars(Parsing) /\ WF_vars(ReadFails)
  /\ SF_vars(\E n \in 1..Capacity : Receive(n))

FairSpec == Spec /\ Fairness

-----------------------------------------------------------------------------
(* Properties.                                                             *)

TypeOK ==
  /\ peer \in Peers
  /\ received \in 0..Len(Wire)
  /\ closed \in BOOLEAN
  /\ DOMAIN array = 0..(Capacity - 1)
  /\ start \in 0..Capacity /\ length \in 0..(Capacity - start)
  /\ parseStart \in 0..length
  /\ pc \in {"idle", "parse", "read"}
  /\ err \in {"none", "deadline", "syntax", "timeout", "closed", "zero"}
  /\ delivered \in Nat
  /\ peer.countsBytes => delivered <= Len(peer.script)

(* The window holds exactly the bytes received and not yet returned,       *)
(* wherever it has been moved to and however often reads timed out.        *)
WindowIsUnread ==
  Slice(0, length) = SubSeq(Wire, received - length + 1, received)

(* A peer whose instructions are within what a Stream promises to read.    *)
Fits ==
  peer.countsBytes /\ \A i \in DOMAIN peer.script : Len(String(peer.script[i])) <= MaxGuacMessage

(* ReadSome never asks the connection for bytes it has no room for.  With  *)
(* an empty slice Read gives 0 bytes for ever and ReadSome does not        *)
(* return; instructions no longer than MaxGuacMessage cannot cause that.   *)
RoomToRead == Fits /\ pc = "read" => length < cap

Safe == TypeOK /\ WindowIsUnread /\ RoomToRead

(* A script as its reader sees it, and what ReadOne gives it from a peer   *)
(* that counts bytes.  Nothing is promised of one that counts characters.  *)
InBytes(s) == [i \in DOMAIN s |-> [j \in DOMAIN s[i] |-> Bytes(s[i][j])]]

Got(x, nothing) == IF peer.countsBytes THEN x ELSE nothing

Promise == INSTANCE InstructionStream WITH
             Scripts <- {InBytes(p.script) : p \in Peers},
             script <- InBytes(peer.script),
             delivered <- Got(delivered, 0),
             last <- Got(Parse(last), <<>>)

(* The reader gets the instructions that were sent, in order and complete. *)
InOrder == Promise!Spec

(* While the connection is open a reader that repeats timed-out reads gets *)
(* everything.                                                             *)
AllDelivered == Fits ~> (delivered = Len(peer.script) \/ closed)

(* guac_instruction.go:11 says that a length "denotes the number of        *)
(* Unicode characters in the value of the element": instructions that are  *)
(* written so should be read.                                              *)
DocumentedAccepted == err # "syntax"
=============================================================================
