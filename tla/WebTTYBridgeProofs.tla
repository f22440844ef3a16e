-------------------------- MODULE WebTTYBridgeProofs --------------------------
(***************************************************************************)
(* Proofs about WebTTYBridge, for any number of browsers, any output of    *)
(* the slave and any number of messages.                                   *)
(***************************************************************************)
EXTENDS WebTTYBridge, FiniteSetTheorems, TLAPS

Outs ==
  [pc : {"none", "read", "begin", "writing", "send", "done"},
   portion : Nat, lines : SUBSET Nat, gated : BOOLEAN, open : BOOLEAN, last : BOOLEAN,
   err : Result]

Ins ==
  [pc : {"none", "load", "read", "pong", "ponging", "send", "done"}, target : 0..Sessions,
   err : Result]

Mains ==
  [pc : {"none", "init", "writing", "select", "returned"}, left : 0..InitMessages,
   result : Result]

Messages == [portion : Nat, lines : SUBSET Nat, type : {"cmd", "error"}]

(* The types, by the actors whose steps change them: the slave's terminal, *)
(* Run with its connections, the websockets, the goroutine of the input,   *)
(* and the one of the output.                                              *)
TermOK ==
  /\ output \in Outputs /\ output \in Seq(Seq(Line)) /\ slaveOpen \in BOOLEAN
  /\ produced \in Nat /\ consumed \in Nat
  /\ produced <= Len(output) /\ consumed <= produced

RunOK ==
  /\ master \in 0..Sessions
  /\ connOpen \in [Session -> BOOLEAN] /\ canceled \in [Session -> BOOLEAN]
  /\ main \in [Session -> Mains]
  /\ errs \in [Session -> Seq(Result)]
  /\ \A i \in Session : Len(errs[i]) <= ErrsCap

SocketOK ==
  /\ writing \in [Writer -> 0..Sessions] /\ met \subseteq Writer /\ panicked \in BOOLEAN

InOK ==
  /\ in \in [Session -> Ins]
  /\ inputs \in Nat /\ toSlave \in Nat /\ toSlave <= inputs /\ inputs <= MaxInput

OutOK ==
  /\ out \in [Session -> Outs]
  /\ delivered \in [Session -> Seq(Messages)]

Types == TermOK /\ RunOK /\ SocketOK /\ InOK /\ OutOK

runVars == <<connVars, main, errs>>
termVars == <<slaveVars, consumed>>
outVars == <<out, delivered>>

LEMMA StillTypes ==
  /\ TermOK /\ UNCHANGED termVars => TermOK'
  /\ RunOK /\ UNCHANGED runVars => RunOK'
  /\ SocketOK /\ UNCHANGED writeVars => SocketOK'
  /\ InOK /\ UNCHANGED inVars => InOK'
  /\ OutOK /\ UNCHANGED outVars => OutOK'
<1>1. TermOK /\ UNCHANGED termVars => TermOK'
  BY DEF TermOK, termVars, slaveVars
<1>2. RunOK /\ UNCHANGED runVars => RunOK'
  BY DEF RunOK, runVars, connVars
<1>3. SocketOK /\ UNCHANGED writeVars => SocketOK'
  BY DEF SocketOK, writeVars
<1>4. InOK /\ UNCHANGED inVars => InOK'
  BY DEF InOK, inVars
<1>5. OutOK /\ UNCHANGED outVars => OutOK'
  BY DEF OutOK, outVars
<1> QED
  BY <1>1, <1>2, <1>3, <1>4, <1>5

LEMMA Writers ==
  ASSUME NEW i \in Session
  PROVE  <<"main", i>> \in Writer /\ <<"out", i>> \in Writer /\ <<"in", i>> \in Writer
BY DEF Writer

LEMMA BeginTypes ==
  ASSUME RunOK, SocketOK, NEW w \in Writer, BeginWrite(w)
  PROVE  SocketOK'
<1>1. writing' \in [Writer -> 0..Sessions] /\ panicked' \in BOOLEAN
  BY DEF RunOK, SocketOK, BeginWrite
<1>2. met' \subseteq Writer
  BY DEF SocketOK, BeginWrite
<1> QED
  BY <1>1, <1>2 DEF SocketOK

LEMMA EndTypes ==
  ASSUME SocketOK, NEW w \in Writer, EndWrite(w)
  PROVE  SocketOK'
BY BoundAssumption DEF SocketOK, EndWrite

(* Sending to and receiving from errs.                                     *)
LEMMA SendTypes ==
  ASSUME RunOK, NEW i \in Session, NEW e \in Result, SendError(i, e),
         UNCHANGED <<connVars, main>>
  PROVE  RunOK'
<1>1. /\ errs \in [Session -> Seq(Result)] /\ \A j \in Session : Len(errs[j]) <= ErrsCap
      /\ Len(errs[i]) < ErrsCap /\ ErrsCap \in Nat
      /\ errs' = [errs EXCEPT ![i] = Append(errs[i], e)]
  BY BoundAssumption DEF RunOK, SendError
<1>2. Append(errs[i], e) \in Seq(Result) /\ Len(Append(errs[i], e)) = Len(errs[i]) + 1
  BY <1>1
<1>3. Len(errs[i]) + 1 <= ErrsCap
  BY <1>1
<1> DEFINE longer == Append(errs[i], e)
<1> HIDE DEF longer
<1>4. /\ errs' \in [Session -> Seq(Result)]
      /\ \A j \in Session : Len(errs'[j]) <= ErrsCap
  BY <1>1, <1>2, <1>3 DEF longer
<1> QED
  BY <1>4 DEF RunOK, connVars

LEMMA ReturnTypes ==
  ASSUME RunOK, NEW i \in Session, ReturnError(i)
  PROVE  RunOK'
<1>1. /\ errs \in [Session -> Seq(Result)] /\ \A j \in Session : Len(errs[j]) <= ErrsCap
      /\ errs[i] # <<>> /\ ErrsCap \in Nat
      /\ errs' = [errs EXCEPT ![i] = Tail(errs[i])]
      /\ main' = [main EXCEPT ![i] = Returned(Head(errs[i]))]
      /\ UNCHANGED connVars
  BY BoundAssumption DEF RunOK, ReturnError, connVars
<1>2. /\ Tail(errs[i]) \in Seq(Result) /\ Head(errs[i]) \in Result
      /\ Len(Tail(errs[i])) <= ErrsCap
  <2>1. errs[i] \in Seq(Result) /\ errs[i] # <<>> /\ Len(errs[i]) <= ErrsCap
    BY <1>1
  <2>2. Tail(errs[i]) \in Seq(Result) /\ Head(errs[i]) \in Result
    BY <2>1
  <2>3. Len(Tail(errs[i])) = Len(errs[i]) - 1 /\ Len(errs[i]) \in Nat
    BY <2>1
  <2>4. Len(Tail(errs[i])) <= ErrsCap
    BY <1>1, <2>1, <2>3
  <2> QED
    BY <2>2, <2>4
<1> DEFINE rest == Tail(errs[i])
           head == Head(errs[i])
<1> HIDE DEF rest, head
<1>3. /\ errs' \in [Session -> Seq(Result)]
      /\ \A j \in Session : Len(errs'[j]) <= ErrsCap
  BY <1>1, <1>2 DEF rest
<1>4. main' \in [Session -> Mains]
  <2>1. main \in [Session -> Mains] /\ main' = [main EXCEPT ![i] = Returned(head)]
        /\ head \in Result
    BY <1>1, <1>2 DEF RunOK, head
  <2>2. Returned(head) \in Mains
    BY <2>1, BoundAssumption DEF Mains, Returned
  <2> QED
    BY <2>1, <2>2
<1> QED
  BY <1>1, <1>3, <1>4 DEF RunOK, connVars

(* The goroutine that a Run starts begins with its output shown or gated.  *)
LEMMA StartIs ==
  ASSUME Types, NEW i \in Session, StartGoroutines(i)
  PROVE  /\ out' \in [Session -> Outs]
         /\ \A j \in Session : j # i => out'[j] = out[j]
         /\ out'[i].pc = "read" /\ out'[i].portion = 0 /\ out'[i].lines = {}
         /\ out'[i].gated => ~out'[i].open
<1>1. PICK cache \in BOOLEAN :
        out' = [out EXCEPT ![i] = [NoOut EXCEPT !.pc = "read",
                                                !.gated = HasStartFlag /\ ~cache,
                                                !.open = ~HasStartFlag \/ cache]]
  BY DEF StartGoroutines
<1> DEFINE g == HasStartFlag /\ ~cache
           o == ~HasStartFlag \/ cache
<1>2. g \in BOOLEAN /\ o \in BOOLEAN /\ (g => ~o)
  BY Zenon
<1> HIDE DEF g, o
<1>3. out' = [out EXCEPT ![i] = [NoOut EXCEPT !.pc = "read", !.gated = g, !.open = o]]
  BY <1>1, Zenon DEF g, o
<1>4. NoOut \in Outs
  BY DEF NoOut, Outs, Result
<1>5. ASSUME NEW a \in BOOLEAN, NEW b \in BOOLEAN,
             NEW r, r = [NoOut EXCEPT !.pc = "read", !.gated = a, !.open = b]
      PROVE  /\ r \in Outs /\ r.pc = "read" /\ r.portion = 0 /\ r.lines = {}
             /\ r.gated = a /\ r.open = b
  <2>1. r \in Outs
    BY <1>4, <1>5 DEF Outs
  <2>2. /\ r.pc = "read" /\ r.portion = NoOut.portion /\ r.lines = NoOut.lines
        /\ r.gated = a /\ r.open = b
    BY <1>4, <1>5 DEF Outs
  <2> QED
    BY <2>1, <2>2 DEF NoOut
<1>6. out \in [Session -> Outs]
  BY DEF Types, OutOK
<1> DEFINE s == [NoOut EXCEPT !.pc = "read", !.gated = g, !.open = o]
<1>7. s \in Outs /\ s.pc = "read" /\ s.portion = 0 /\ s.lines = {} /\ s.gated = g /\ s.open = o
  BY <1>2, <1>5
<1> HIDE DEF s
<1>8. out' = [out EXCEPT ![i] = s]
  BY <1>3 DEF s
<1> QED
  BY <1>2, <1>6, <1>7, <1>8

(* The surroundings and Run.                                               *)
LEMMA OutsideTypes ==
  ASSUME Types, \/ Produce \/ SlaveExits \/ ConcurrentWrite
                \/ \E i \in Session : CloseConn(i) \/ Cancel(i) \/ Attach(i) \/ RunStep(i)
  PROVE  Types'
<1>1. CASE Produce
  <2>1. TermOK'
    BY <1>1 DEF Types, TermOK, Produce, portions
  <2> QED
    BY <1>1, <2>1, StillTypes DEF Types, Produce, runVars, outVars, portions
<1>2. CASE SlaveExits
  <2>1. TermOK'
    BY <1>2 DEF Types, TermOK, SlaveExits, portions
  <2> QED
    BY <1>2, <2>1, StillTypes DEF Types, SlaveExits, runVars, outVars, portions
<1>3. CASE ConcurrentWrite
  <2>1. SocketOK'
    BY <1>3 DEF Types, SocketOK, ConcurrentWrite
  <2> QED
    BY <1>3, <2>1, StillTypes
       DEF Types, ConcurrentWrite, termVars, runVars, outVars, portions
<1>4. ASSUME NEW i \in Session, CloseConn(i) \/ Cancel(i) \/ Attach(i) PROVE Types'
  <2>1. RunOK'
    <3>1. i \in 0..Sessions
      BY BoundAssumption DEF Session
    <3>2. CASE CloseConn(i)
      BY <3>2 DEF Types, RunOK, CloseConn
    <3>3. CASE Cancel(i)
      BY <3>3 DEF Types, RunOK, Cancel
    <3>4. CASE Attach(i)
      BY <3>1, <3>4 DEF Types, RunOK, Mains, Attach
    <3> QED
      BY <1>4, <3>2, <3>3, <3>4
  <2> QED
    BY <1>4, <2>1, StillTypes DEF Types, CloseConn, Cancel, Attach, termVars, outVars, portions
<1>5. ASSUME NEW i \in Session, BeginInitialize(i) PROVE Types'
  <2>1. main' \in [Session -> Mains]
    <3>1. main[i] \in Mains /\ main[i].left > 0
      BY <1>5 DEF Types, RunOK, BeginInitialize
    <3>2. [main[i] EXCEPT !.pc = "writing", !.left = main[i].left - 1] \in Mains
      <4>1. main[i].left - 1 \in 0..InitMessages
        BY <3>1, BoundAssumption DEF Mains
      <4> PICK k \in 0..InitMessages : k = main[i].left - 1
        BY <4>1
      <4>2. [main[i] EXCEPT !.pc = "writing", !.left = k] \in Mains
        BY <3>1 DEF Mains
      <4> QED
        BY <4>2
    <3> QED
      BY <1>5, <3>2 DEF Types, RunOK, BeginInitialize
  <2>2. SocketOK'
    BY <1>5, Writers, BeginTypes DEF Types, BeginInitialize
  <2>3. RunOK'
    BY <1>5, <2>1 DEF Types, RunOK, BeginInitialize, connVars
  <2> QED
    BY <1>5, <2>2, <2>3, StillTypes DEF Types, BeginInitialize, termVars, outVars, portions
<1>6. ASSUME NEW i \in Session, EndInitialize(i) PROVE Types'
  <2>1. main' \in [Session -> Mains]
    <3>1. \/ main' = [main EXCEPT ![i].pc = "init"]
          \/ main' = [main EXCEPT ![i] = Returned("init")]
      BY <1>6, Zenon DEF EndInitialize
    <3>2. main \in [Session -> Mains] /\ Returned("init") \in Mains
      BY BoundAssumption DEF Types, RunOK, Mains, Returned, Result
    <3>3. CASE main' = [main EXCEPT ![i].pc = "init"]
      BY <3>2, <3>3 DEF Mains
    <3>4. CASE main' = [main EXCEPT ![i] = Returned("init")]
      BY <3>2, <3>4
    <3> QED
      BY <3>1, <3>3, <3>4
  <2>2. SocketOK'
    BY <1>6, Writers, EndTypes DEF Types, EndInitialize
  <2>3. RunOK'
    BY <1>6, <2>1 DEF Types, RunOK, EndInitialize, connVars
  <2> QED
    BY <1>6, <2>2, <2>3, StillTypes DEF Types, EndInitialize, termVars, outVars, portions
<1>7. ASSUME NEW i \in Session, StartGoroutines(i) PROVE Types'
  <2>1. /\ UNCHANGED <<termVars, connVars, writeVars, errs, inputs, toSlave, delivered>>
        /\ main' = [main EXCEPT ![i].pc = "select"]
        /\ in' = [in EXCEPT ![i].pc = "load"]
    BY <1>7 DEF StartGoroutines, termVars, portions
  <2>2. main' \in [Session -> Mains]
    BY <2>1 DEF Types, RunOK, Mains
  <2>3. in' \in [Session -> Ins]
    BY <2>1 DEF Types, InOK, Ins
  <2>4. out' \in [Session -> Outs]
    BY <1>7, StartIs
  <2> QED
    BY <2>1, <2>2, <2>3, <2>4, StillTypes DEF Types, RunOK, InOK, OutOK, connVars
<1>8. ASSUME NEW i \in Session, ReturnCanceled(i) PROVE Types'
  <2>1. Returned("canceled") \in Mains
    BY BoundAssumption DEF Mains, Returned, Result
  <2>2. RunOK'
    BY <1>8, <2>1 DEF Types, RunOK, ReturnCanceled, connVars
  <2> QED
    BY <1>8, <2>2, StillTypes DEF Types, ReturnCanceled, termVars, outVars, portions
<1>9. ASSUME NEW i \in Session, ReturnError(i) PROVE Types'
  <2>1. RunOK'
    BY <1>9, ReturnTypes DEF Types
  <2> QED
    BY <1>9, <2>1, StillTypes DEF Types, ReturnError, termVars, outVars, portions
<1> QED
  BY <1>1, <1>2, <1>3, <1>4, <1>5, <1>6, <1>7, <1>8, <1>9 DEF RunStep

(* The goroutine of the input.                                             *)
LEMMA InTypes ==
  ASSUME Types, NEW i \in Session, Reading(i) \/ Handle(i) \/ ReadsMeet(i)
  PROVE  Types'
<1>1. /\ in \in [Session -> Ins] /\ in[i] \in Ins
      /\ inputs \in Nat /\ toSlave \in Nat /\ toSlave <= inputs /\ inputs <= MaxInput
      /\ MaxInput \in Nat
      /\ master \in 0..Sessions
  BY BoundAssumption DEF Types, InOK, RunOK
<1>2. ASSUME Handle(i)
      PROVE  /\ inputs < MaxInput /\ inputs' = inputs + 1
             /\ toSlave' = toSlave \/ toSlave' = toSlave + 1
             /\ \/ in' = [in EXCEPT ![i].pc = "load"]
                \/ in' = [in EXCEPT ![i].pc = "pong"]
                \/ \E e \in {"slaveWrite", "input"} : InputFails(i, e)
             /\ UNCHANGED <<termVars, runVars, writeVars, outVars>>
  <2>1. inputs < MaxInput /\ inputs' = inputs + 1
    BY <1>2 DEF Handle, HandleCmd, HandleBad, HandleResize, HandlePing, ReadMaster
  <2>2. UNCHANGED <<termVars, runVars, writeVars, outVars>>
    BY <1>2 DEF Handle, HandleCmd, HandleBad, HandleResize, HandlePing, ReadMaster, termVars,
                runVars, outVars, portions
  <2>3. /\ toSlave' = toSlave \/ toSlave' = toSlave + 1
        /\ \/ in' = [in EXCEPT ![i].pc = "load"]
           \/ in' = [in EXCEPT ![i].pc = "pong"]
           \/ \E e \in {"slaveWrite", "input"} : InputFails(i, e)
    BY <1>2, Zenon DEF Handle, HandleCmd, HandleBad, HandleResize, HandlePing
  <2> QED
    BY <2>1, <2>2, <2>3
<1>3. ASSUME NEW e \in Result, InputFails(i, e) PROVE in' \in [Session -> Ins]
  BY <1>1, <1>3 DEF InputFails, Ins
<1>4. CASE Handle(i)
  <2>1. inputs' \in Nat /\ toSlave' \in Nat /\ toSlave' <= inputs' /\ inputs' <= MaxInput
    BY <1>1, <1>2, <1>4
  <2>2. in' \in [Session -> Ins]
    <3>1. {"slaveWrite", "input"} \subseteq Result
      BY DEF Result
    <3>2. CASE \/ in' = [in EXCEPT ![i].pc = "load"]
               \/ in' = [in EXCEPT ![i].pc = "pong"]
      BY <1>1, <3>2 DEF Ins
    <3> QED
      BY <1>2, <1>3, <1>4, <3>1, <3>2
  <2>3. InOK'
    BY <2>1, <2>2 DEF InOK
  <2> QED
    BY <1>2, <1>4, <2>3, StillTypes DEF Types
<1>5. CASE LoadMaster(i)
  <2>1. in' \in [Session -> Ins]
    <3>1. [in[i] EXCEPT !.pc = "read", !.target = master] \in Ins
      BY <1>1 DEF Ins
    <3> QED
      BY <1>1, <1>5, <3>1 DEF LoadMaster
  <2> QED
    BY <1>5, <2>1, StillTypes DEF Types, InOK, LoadMaster, termVars, runVars, outVars, portions
<1>6. CASE ReadMasterFails(i)
  <2>1. in' \in [Session -> Ins]
    BY <1>3, <1>6 DEF ReadMasterFails, Result
  <2> QED
    BY <1>6, <2>1, StillTypes
       DEF Types, InOK, ReadMasterFails, termVars, runVars, outVars, portions
<1>7. CASE ReadsMeet(i)
  <2>1. /\ InputFails(i, "masterClosed") \/ in' = in
        /\ panicked' = panicked \/ panicked' = TRUE
        /\ UNCHANGED <<termVars, runVars, outVars, writing, met, inputs, toSlave>>
    BY <1>7, Zenon DEF ReadsMeet, termVars, runVars, outVars, portions
  <2>2. in' \in [Session -> Ins]
    BY <1>1, <1>3, <2>1 DEF Result
  <2>3. SocketOK'
    BY <2>1 DEF Types, SocketOK
  <2> QED
    BY <2>1, <2>2, <2>3, StillTypes DEF Types, InOK
<1>8. CASE BeginPong(i)
  <2>1. in' \in [Session -> Ins]
    BY <1>1, <1>8 DEF BeginPong, Ins
  <2>2. SocketOK'
    BY <1>8, Writers, BeginTypes DEF Types, BeginPong
  <2> QED
    BY <1>8, <2>1, <2>2, StillTypes
       DEF Types, InOK, BeginPong, termVars, runVars, outVars, portions
<1>9. CASE Pong(i)
  <2>1. in' = [in EXCEPT ![i].pc = "load"] \/ InputFails(i, "write")
    BY <1>9, Zenon DEF Pong
  <2>2. in' \in [Session -> Ins]
    <3>1. CASE in' = [in EXCEPT ![i].pc = "load"]
      BY <1>1, <3>1 DEF Ins
    <3>2. CASE InputFails(i, "write")
      BY <1>3, <3>2 DEF Result
    <3> QED
      BY <2>1, <3>1, <3>2
  <2>3. SocketOK'
    BY <1>9, Writers, EndTypes DEF Types, Pong
  <2> QED
    BY <1>9, <2>2, <2>3, StillTypes DEF Types, InOK, Pong, termVars, runVars, outVars, portions
<1>10. CASE SendInputError(i)
  <2>1. in' \in [Session -> Ins] /\ in[i].err \in Result
    BY <1>1, <1>10 DEF SendInputError, Ins
  <2>2. RunOK'
    BY <1>10, <2>1, SendTypes DEF Types, SendInputError
  <2> QED
    BY <1>10, <2>1, <2>2, StillTypes
       DEF Types, InOK, SendInputError, termVars, outVars, portions
<1> QED
  BY <1>4, <1>5, <1>6, <1>7, <1>8, <1>9, <1>10 DEF Reading

(* The goroutine of the output.  A step that leaves it with what it has in *)
(* its hands ...                                                           *)
Steps(i, pcs) ==
  /\ out' \in [Session -> Outs]
  /\ \A j \in Session : j # i => out'[j] = out[j]
  /\ out'[i].pc \in pcs
  /\ out'[i].portion = out[i].portion /\ out'[i].lines = out[i].lines
  /\ out'[i].gated = out[i].gated /\ out'[i].open = out[i].open /\ out'[i].last = out[i].last

LEMMA StepsIs ==
  ASSUME OutOK, NEW i \in Session, NEW c \in {"read", "writing", "send", "done"},
         \/ out' = [out EXCEPT ![i].pc = c]
         \/ \E e \in Result : out' = [out EXCEPT ![i].pc = c, ![i].err = e]
  PROVE  Steps(i, {c})
<1>1. out \in [Session -> Outs] /\ out[i] \in Outs
  BY DEF OutOK
<1>2. CASE out' = [out EXCEPT ![i].pc = c]
  <2>1. [out[i] EXCEPT !.pc = c] \in Outs
    BY <1>1 DEF Outs
  <2>2. out' = [out EXCEPT ![i] = [out[i] EXCEPT !.pc = c]]
    BY <1>1, <1>2
  <2> PICK r : r = [out[i] EXCEPT !.pc = c]
    OBVIOUS
  <2>3. /\ r.pc = c /\ r.portion = out[i].portion /\ r.lines = out[i].lines
        /\ r.gated = out[i].gated /\ r.open = out[i].open /\ r.last = out[i].last
    BY <1>1 DEF Outs
  <2>4. out' \in [Session -> Outs] /\ out'[i] = r /\ \A j \in Session : j # i => out'[j] = out[j]
    BY <1>1, <2>1, <2>2
  <2> QED
    BY <2>3, <2>4 DEF Steps
<1>3. ASSUME NEW e \in Result, out' = [out EXCEPT ![i].pc = c, ![i].err = e]
      PROVE  Steps(i, {c})
  <2>1. [out[i] EXCEPT !.pc = c, !.err = e] \in Outs
    BY <1>1 DEF Outs
  <2>2. out' = [out EXCEPT ![i] = [out[i] EXCEPT !.pc = c, !.err = e]]
    BY <1>1, <1>3
  <2> PICK r : r = [out[i] EXCEPT !.pc = c, !.err = e]
    OBVIOUS
  <2>3. /\ r.pc = c /\ r.portion = out[i].portion /\ r.lines = out[i].lines
        /\ r.gated = out[i].gated /\ r.open = out[i].open /\ r.last = out[i].last
    BY <1>1 DEF Outs
  <2>4. out' \in [Session -> Outs] /\ out'[i] = r /\ \A j \in Session : j # i => out'[j] = out[j]
    BY <1>1, <2>1, <2>2
  <2> QED
    BY <2>3, <2>4 DEF Steps
<1> QED
  BY <1>2, <1>3

(* ... and one that gives it lines of the portion p.                       *)
Passed(i, p, lines, open, last) ==
  /\ out' \in [Session -> Outs]
  /\ \A j \in Session : j # i => out'[j] = out[j]
  /\ out'[i].pc = "begin" /\ out'[i].portion = p /\ out'[i].lines = lines
  /\ out'[i].gated = out[i].gated /\ out'[i].open = open /\ out'[i].last = last

Started(p) ==
  Len(output[p]) \in Lines(p) /\ \E n \in Lines(p) : "start" \in output[p][n]

ReadAs(i, p, lines, open, last) ==
  /\ Passed(i, p, lines, open, last)
  /\ withheld' = withheld \cup Pieces(p, Lines(p) \ lines)
  /\ \/ out[i].open /\ lines = Lines(p) /\ open
     \/ ~out[i].open /\ ~open /\ last /\ \A n \in lines : "ora" \in output[p][n]
     \/ ~out[i].open /\ open /\ lines = {Len(output[p])} /\ Started(p)

LEMMA PassIs ==
  ASSUME Types, NEW i \in Session, NEW p \in Nat, NEW lines \in SUBSET Nat,
         NEW open \in BOOLEAN, NEW last \in BOOLEAN, Pass(i, p, lines, open, last)
  PROVE  /\ Passed(i, p, lines, open, last)
         /\ withheld' = withheld \cup Pieces(p, Lines(p) \ lines)
<1>1. out \in [Session -> Outs] /\ out[i].gated \in BOOLEAN
  BY DEF Types, OutOK, Outs
<1> PICK r : r = [pc |-> "begin", portion |-> p, lines |-> lines, gated |-> out[i].gated,
                  open |-> open, last |-> last, err |-> "none"]
  OBVIOUS
<1>2. r \in Outs
  BY <1>1 DEF Outs, Result
<1>3. out' = [out EXCEPT ![i] = r]
  BY DEF Pass
<1>4. /\ r.pc = "begin" /\ r.portion = p /\ r.lines = lines /\ r.gated = out[i].gated
      /\ r.open = open /\ r.last = last
  OBVIOUS
<1>5. out' \in [Session -> Outs] /\ out'[i] = r /\ \A j \in Session : j # i => out'[j] = out[j]
  BY <1>1, <1>2, <1>3
<1> QED
  BY <1>4, <1>5 DEF Pass, Passed

(* The portion that is read is a sequence of lines.                        *)
LEMMA NextPortion ==
  ASSUME TermOK, consumed < produced
  PROVE  /\ consumed + 1 \in 1..Len(output) /\ consumed + 1 \in Nat
         /\ output[consumed + 1] \in Seq(Line)
         /\ Lines(consumed + 1) = 1..Len(output[consumed + 1])
         /\ Len(output[consumed + 1]) \in Nat
<1>1. /\ output \in Seq(Seq(Line)) /\ consumed \in Nat /\ produced \in Nat
      /\ produced <= Len(output) /\ Len(output) \in Nat
  BY DEF TermOK
<1>2. consumed + 1 \in 1..Len(output) /\ consumed + 1 \in Nat
  BY <1>1
<1>3. output[consumed + 1] \in Seq(Line)
  BY <1>1, <1>2
<1> QED
  BY <1>2, <1>3 DEF Lines

LEMMA ReadSlaveIs ==
  ASSUME Types, NEW i \in Session, ReadSlave(i)
  PROVE  /\ out[i].pc = "read" /\ consumed < produced /\ consumed' = consumed + 1
         /\ UNCHANGED <<slaveVars, runVars, writeVars, inVars, delivered, torn, failed, deleted>>
         /\ \/ \E lines \in SUBSET Lines(consumed + 1), open, last \in BOOLEAN :
                 ReadAs(i, consumed + 1, lines, open, last)
            \/ ~out[i].open /\ Withhold(consumed + 1)
<1> DEFINE p == consumed + 1
<1>1. /\ out[i].pc = "read" /\ consumed < produced /\ consumed' = consumed + 1
      /\ UNCHANGED <<slaveVars, runVars, writeVars, inVars, delivered, torn, failed, deleted>>
  BY DEF ReadSlave, runVars
<1>2. /\ p \in Nat /\ Lines(p) = 1..Len(output[p]) /\ Len(output[p]) \in Nat
      /\ Lines(p) \subseteq Nat
  BY <1>1, NextPortion DEF Types
<1>3. \/ out[i].open /\ Pass(i, p, Lines(p), TRUE, FALSE)
      \/ ~out[i].open /\ Gate(i, p)
  BY Zenon DEF ReadSlave
<1> HIDE DEF p
<1>4. CASE out[i].open /\ Pass(i, p, Lines(p), TRUE, FALSE)
  <2>1. ReadAs(i, p, Lines(p), TRUE, FALSE)
    BY <1>2, <1>4, PassIs DEF ReadAs
  <2> QED
    BY <1>1, <2>1 DEF p
<1>5. CASE ~out[i].open /\ Gate(i, p)
  <2>1. CASE Withhold(p)
    BY <1>1, <1>5, <2>1 DEF p
  <2>2. ASSUME NEW n \in Marked(p),
               \/ "ora" \in output[p][n] /\ Pass(i, p, {n}, FALSE, TRUE)
               \/ "ora" \notin output[p][n] /\ Pass(i, p, {Len(output[p])}, TRUE, FALSE)
        PROVE  \E lines \in SUBSET Lines(p), open, last \in BOOLEAN :
                 ReadAs(i, p, lines, open, last)
    <3>1. n \in Lines(p) /\ n \in Nat /\ output[p][n] \cap {"ora", "start"} # {}
      BY <1>2 DEF Marked
    <3>2. CASE "ora" \in output[p][n] /\ Pass(i, p, {n}, FALSE, TRUE)
      <4>1. ReadAs(i, p, {n}, FALSE, TRUE)
        BY <1>2, <1>5, <3>1, <3>2, PassIs DEF ReadAs
      <4> QED
        BY <3>1, <4>1
    <3>3. CASE "ora" \notin output[p][n] /\ Pass(i, p, {Len(output[p])}, TRUE, FALSE)
      <4>1. "start" \in output[p][n]
        BY <3>1, <3>3
      <4>2. Len(output[p]) \in Lines(p)
        BY <1>2, <3>1
      <4>3. Started(p)
        BY <3>1, <4>1, <4>2 DEF Started
      <4>4. ReadAs(i, p, {Len(output[p])}, TRUE, FALSE)
        BY <1>2, <1>5, <3>3, <4>3, PassIs DEF ReadAs
      <4> QED
        BY <4>2, <4>4
    <3> QED
      BY <2>2, <3>2, <3>3
  <2> QED
    BY <1>1, <1>5, <2>1, <2>2 DEF Gate, p
<1> QED
  BY <1>3, <1>4, <1>5

(* The end of a write: what the browser has got, or has not.               *)
LEMMA MessageTypes ==
  ASSUME NEW p \in Nat, NEW lines \in SUBSET Nat
  PROVE  /\ Message(p, lines) \in Messages
         /\ Message(p, lines).portion = p /\ Message(p, lines).lines = lines
         /\ Message(p, lines).type = "error" <=> HasRoot(p, lines)
<1> DEFINE type == IF HasRoot(p, lines) THEN "error" ELSE "cmd"
<1>1. type \in {"error", "cmd"} /\ (type = "error" <=> HasRoot(p, lines))
  OBVIOUS
<1> HIDE DEF type
<1>2. Message(p, lines) = [portion |-> p, lines |-> lines, type |-> type]
  BY DEF Message, type
<1> QED
  BY <1>1, <1>2 DEF Messages

Shown(t, p, lines) ==
  /\ delivered' = [delivered EXCEPT ![t] = Append(delivered[t], Message(p, lines))]
  /\ UNCHANGED <<torn, failed>>

LEMMA WritesIs ==
  ASSUME OutOK, NEW i \in Session, WriteMaster(i) \/ WriteMasterFails(i)
  PROVE  /\ out[i].pc = "writing" /\ out[i] \in Outs
         /\ UNCHANGED <<slaveVars, connVars, consumed, withheld, inVars, main, errs>>
         /\ EndWrite(<<"out", i>>)
         /\ deleted' = IF HasRoot(out[i].portion, out[i].lines) THEN deleted + 1 ELSE deleted
         /\ Steps(i, {"read", "send"})
         /\ \/ /\ Shown(writing[<<"out", i>>], out[i].portion, out[i].lines)
               /\ out'[i].pc = "read" => ~out[i].last
            \/ /\ torn' = torn \cup Pieces(out[i].portion, out[i].lines)
               /\ UNCHANGED <<delivered, failed>>
               /\ out'[i].pc = "read" => ~out[i].last
            \/ /\ failed' = failed \cup Pieces(out[i].portion, out[i].lines)
               /\ UNCHANGED <<delivered, torn>>
               /\ out'[i].pc = "send"
<1>1. EndMasterWrite(i)
  BY DEF WriteMaster, WriteMasterFails
<1>2. /\ out[i].pc = "writing" /\ EndWrite(<<"out", i>>)
      /\ deleted' = IF HasRoot(out[i].portion, out[i].lines) THEN deleted + 1 ELSE deleted
      /\ UNCHANGED <<slaveVars, connVars, consumed, withheld, inVars, main, errs>>
  BY <1>1, Zenon DEF EndMasterWrite
<1>3. out[i] \in Outs
  BY DEF OutOK
<1>4. {"connect", "write"} \subseteq Result
  BY DEF Result
<1>5. CASE WriteMaster(i)
  <2>1. \/ Shown(writing[<<"out", i>>], out[i].portion, out[i].lines)
        \/ /\ torn' = torn \cup Pieces(out[i].portion, out[i].lines)
           /\ UNCHANGED <<delivered, failed>>
    BY <1>5, Zenon DEF WriteMaster, Shows, Tears, Shown
  <2>2. \/ out[i].last /\ OutputFails(i, "connect")
        \/ ~out[i].last /\ out' = [out EXCEPT ![i].pc = "read"]
    BY <1>5, Zenon DEF WriteMaster
  <2>3. \/ Steps(i, {"send"})
        \/ ~out[i].last /\ Steps(i, {"read"})
    BY <1>4, <2>2, StepsIs DEF OutputFails
  <2> QED
    BY <1>2, <1>3, <2>1, <2>3 DEF Steps
<1>6. CASE WriteMasterFails(i)
  <2>1. /\ failed' = failed \cup Pieces(out[i].portion, out[i].lines)
        /\ UNCHANGED <<delivered, torn>> /\ OutputFails(i, "write")
    BY <1>6, Zenon DEF WriteMasterFails
  <2>2. Steps(i, {"send"})
    BY <1>4, <2>1, StepsIs DEF OutputFails
  <2> QED
    BY <1>2, <1>3, <2>1, <2>2 DEF Steps
<1> QED
  BY <1>5, <1>6

(* What else the goroutine does leaves it with nothing to write, or as it  *)
(* was.                                                                    *)
LEMMA StopsIs ==
  ASSUME OutOK, NEW i \in Session, ReadSlaveFails(i) \/ SendOutputError(i)
  PROVE  /\ out[i].pc \in {"read", "send"} /\ Steps(i, {"send", "done"})
         /\ UNCHANGED <<slaveVars, connVars, writeVars, portions, inVars, main>>
<1>1. CASE ReadSlaveFails(i)
  <2>1. "slaveClosed" \in Result
    BY DEF Result
  <2>2. Steps(i, {"send"})
    BY <1>1, <2>1, StepsIs DEF ReadSlaveFails, OutputFails
  <2> QED
    BY <1>1, <2>2 DEF ReadSlaveFails, Steps
<1>2. CASE SendOutputError(i)
  <2>1. Steps(i, {"done"})
    BY <1>2, StepsIs DEF SendOutputError
  <2> QED
    BY <1>2, <2>1 DEF SendOutputError, Steps
<1> QED
  BY <1>1, <1>2

LEMMA BeginsIs ==
  ASSUME OutOK, NEW i \in Session, BeginMasterWrite(i)
  PROVE  /\ out[i].pc = "begin" /\ Steps(i, {"writing"}) /\ BeginWrite(<<"out", i>>)
         /\ UNCHANGED <<slaveVars, connVars, portions, inVars, main, errs>>
BY StepsIs DEF BeginMasterWrite

LEMMA OutTypes ==
  ASSUME Types, NEW i \in Session, Copying(i)
  PROVE  Types'
<1>1. /\ OutOK /\ out[i] \in Outs /\ delivered \in [Session -> Seq(Messages)]
  BY DEF Types, OutOK
<1>2. CASE ReadSlaveFails(i)
  <2>1. OutOK' /\ UNCHANGED termVars
    BY <1>1, <1>2, StopsIs DEF OutOK, Steps, termVars, portions
  <2> QED
    BY <1>2, <2>1, StillTypes DEF Types, ReadSlaveFails, runVars
<1>3. CASE SendOutputError(i)
  <2>1. OutOK' /\ UNCHANGED termVars
    BY <1>1, <1>3, StopsIs DEF OutOK, Steps, termVars, portions
  <2>2. RunOK'
    <3>1. out[i].err \in Result
      BY <1>1 DEF Outs
    <3> QED
      BY <1>3, <3>1, SendTypes DEF Types, SendOutputError
  <2> QED
    BY <1>3, <2>1, <2>2, StillTypes DEF Types, SendOutputError
<1>4. CASE ReadSlave(i)
  <2>1. consumed < produced /\ consumed' = consumed + 1 /\ UNCHANGED slaveVars
    BY <1>4, ReadSlaveIs
  <2>2. TermOK'
    BY <2>1 DEF Types, TermOK, slaveVars
  <2>3. OutOK'
    <3>1. out' \in [Session -> Outs] /\ delivered' = delivered
      BY <1>1, <1>4, ReadSlaveIs DEF ReadAs, Passed, Withhold, OutOK
    <3> QED
      BY <1>1, <3>1 DEF OutOK
  <2> QED
    BY <1>4, <2>2, <2>3, ReadSlaveIs, StillTypes DEF Types
<1>5. CASE BeginMasterWrite(i)
  <2>1. OutOK'
    BY <1>1, <1>5, BeginsIs DEF OutOK, Steps, portions
  <2>2. SocketOK'
    BY <1>1, <1>5, BeginsIs, BeginTypes, Writers DEF Types
  <2> QED
    BY <1>1, <1>5, <2>1, <2>2, BeginsIs, StillTypes DEF Types, termVars, runVars, portions
<1>6. CASE WriteMaster(i) \/ WriteMasterFails(i)
  <2>1. out' \in [Session -> Outs]
    BY <1>1, <1>6, WritesIs DEF Steps
  <2>2. delivered' \in [Session -> Seq(Messages)]
    <3> DEFINE t == writing[<<"out", i>>]
               m == Message(out[i].portion, out[i].lines)
    <3>1. \/ delivered' = delivered
          \/ delivered' = [delivered EXCEPT ![t] = Append(delivered[t], m)]
      BY <1>1, <1>6, WritesIs DEF Shown
    <3>2. m \in Messages
      BY <1>1, MessageTypes DEF Outs
    <3> HIDE DEF t, m
    <3>3. t \in Session => Append(delivered[t], m) \in Seq(Messages)
      BY <1>1, <3>2
    <3> PICK longer : longer = Append(delivered[t], m)
      OBVIOUS
    <3> QED
      BY <1>1, <3>1, <3>3
  <2>3. SocketOK'
    BY <1>1, <1>6, WritesIs, EndTypes, Writers DEF Types
  <2>4. OutOK'
    BY <2>1, <2>2 DEF OutOK
  <2> QED
    BY <1>1, <1>6, <2>3, <2>4, WritesIs, StillTypes DEF Types, termVars, runVars
<1> QED
  BY <1>2, <1>3, <1>4, <1>5, <1>6 DEF Copying

LEMMA NextTypes == Types /\ [Next]_vars => Types'
<1> SUFFICES ASSUME Types, [Next]_vars PROVE Types'
  OBVIOUS
<1>1. CASE UNCHANGED vars
  BY <1>1, StillTypes DEF Types, vars, portions, termVars, runVars, outVars
<1> QED
  BY <1>1, OutsideTypes, InTypes, OutTypes DEF Next

LEMMA InitTypes == Init => Types
<1> SUFFICES ASSUME Init PROVE Types
  OBVIOUS
<1>1. TermOK
  BY BoundAssumption DEF Init, TermOK
<1>2. RunOK
  BY BoundAssumption DEF Init, RunOK, Mains, Result
<1>3. SocketOK
  <2>1. writing = [w \in Writer |-> 0] /\ 0 \in 0..Sessions /\ met = {} /\ panicked = FALSE
    BY BoundAssumption DEF Init
  <2>2. writing \in [Writer -> 0..Sessions]
    BY <2>1
  <2> QED
    BY <2>1, <2>2 DEF SocketOK
<1>4. InOK
  BY BoundAssumption DEF Init, InOK, NoIn, Ins, Result
<1>5. OutOK
  BY BoundAssumption DEF Init, OutOK, NoOut, Outs, Result
<1> QED
  BY <1>1, <1>2, <1>3, <1>4, <1>5 DEF Types

-----------------------------------------------------------------------------
(* Which Runs have begun, and what their goroutines write to.              *)

Early == {"none", "init", "writing"}

Attached ==
  /\ \A i \in Session : main[i].pc # "none" => master # 0
  /\ master # 0 => main[master].pc # "none"
  /\ \A i \in Session : out[i].pc # "none" => main[i].pc \notin Early
  /\ \A i \in Session : out[i].pc = "writing" =>
       /\ writing[<<"out", i>>] \in Session
       /\ main[writing[<<"out", i>>]].pc # "none"
  /\ \A i \in Session : delivered[i] # <<>> => main[i].pc # "none"

(* A step in which no Run begins, and none goes back.                      *)
Keeps ==
  \A i \in Session : /\ main'[i].pc = "none" <=> main[i].pc = "none"
                     /\ main[i].pc \notin Early => main'[i].pc \notin Early

portionVars == <<output, consumed, delivered, withheld, torn, failed, deleted>>

KeepsOut == \A i \in Session : writing'[<<"out", i>>] = writing[<<"out", i>>]

Quiet == Keeps /\ KeepsOut /\ UNCHANGED <<portionVars, out, master>>

LEMMA OthersWrite ==
  ASSUME SocketOK, NEW k \in {"main", "in"}, NEW i \in Session,
         BeginWrite(<<k, i>>) \/ EndWrite(<<k, i>>)
  PROVE  KeepsOut
<1>1. \E t : writing' = [writing EXCEPT ![<<k, i>>] = t]
  BY DEF BeginWrite, EndWrite
<1>2. \A j \in Session : <<"out", j>> # <<k, i>> /\ <<"out", j>> \in Writer
  BY Writers
<1> QED
  BY <1>1, <1>2 DEF SocketOK, KeepsOut

LEMMA QuietSteps ==
  ASSUME Types,
         \/ Produce \/ SlaveExits \/ ConcurrentWrite \/ UNCHANGED vars
         \/ \E i \in Session : \/ CloseConn(i) \/ Cancel(i) \/ ReturnCanceled(i)
                               \/ ReturnError(i) \/ BeginInitialize(i) \/ EndInitialize(i)
                               \/ Reading(i) \/ Handle(i) \/ ReadsMeet(i)
  PROVE  Quiet
<1>1. main \in [Session -> Mains] /\ SocketOK
  BY DEF Types, RunOK
<1>2. ASSUME main' = main PROVE Keeps
  BY <1>2 DEF Keeps
<1>3. ASSUME UNCHANGED writing PROVE KeepsOut
  BY <1>3 DEF KeepsOut
<1>4. CASE Produce \/ SlaveExits \/ ConcurrentWrite \/ UNCHANGED vars
  BY <1>2, <1>3, <1>4
     DEF Quiet, portionVars, Produce, SlaveExits, ConcurrentWrite, vars, slaveVars, connVars,
         writeVars, portions
<1>5. ASSUME NEW i \in Session, CloseConn(i) \/ Cancel(i) PROVE Quiet
  BY <1>2, <1>3, <1>5 DEF Quiet, portionVars, CloseConn, Cancel, slaveVars, writeVars, portions
<1>6. ASSUME NEW i \in Session, ReturnCanceled(i) \/ ReturnError(i) PROVE Quiet
  <2>1. /\ main[i].pc = "select"
        /\ \E e : main' = [main EXCEPT ![i] = [pc |-> "returned", left |-> 0, result |-> e]]
    BY <1>6 DEF ReturnCanceled, ReturnError, Returned
  <2>2. Keeps
    BY <1>1, <2>1 DEF Keeps, Early
  <2> QED
    BY <1>3, <1>6, <2>2
       DEF Quiet, portionVars, ReturnCanceled, ReturnError, slaveVars, connVars, writeVars,
           portions
<1>7. ASSUME NEW i \in Session, BeginInitialize(i) PROVE Quiet
  <2>1. /\ main[i].pc = "init" /\ BeginWrite(<<"main", i>>)
        /\ UNCHANGED <<portionVars, out, master>>
        /\ \E l : main' = [main EXCEPT ![i] = [main[i] EXCEPT !.pc = "writing", !.left = l]]
    BY <1>1, <1>7 DEF BeginInitialize, portionVars, slaveVars, connVars, portions, Mains
  <2>2. Keeps
    BY <1>1, <2>1 DEF Keeps, Early, Mains
  <2> QED
    BY <1>1, <2>1, <2>2, OthersWrite DEF Quiet
<1>8. ASSUME NEW i \in Session, EndInitialize(i) PROVE Quiet
  <2>1. /\ main[i].pc = "writing" /\ EndWrite(<<"main", i>>)
        /\ UNCHANGED <<portionVars, out, master>>
        /\ \/ main' = [main EXCEPT ![i].pc = "init"]
           \/ main' = [main EXCEPT ![i] = [pc |-> "returned", left |-> 0, result |-> "init"]]
    BY <1>8, Zenon DEF EndInitialize, Returned, portionVars, slaveVars, connVars, portions
  <2>2. Keeps
    BY <1>1, <2>1 DEF Keeps, Early, Mains
  <2> QED
    BY <1>1, <2>1, <2>2, OthersWrite DEF Quiet
<1>9. ASSUME NEW i \in Session, Reading(i) PROVE Quiet
  <2>1. main' = main /\ UNCHANGED <<portionVars, out, master>>
    BY <1>9 DEF portionVars, Reading, LoadMaster, ReadMasterFails, BeginPong, Pong,
                SendInputError, slaveVars, connVars, portions
  <2>2. UNCHANGED writing \/ BeginWrite(<<"in", i>>) \/ EndWrite(<<"in", i>>)
    BY <1>9 DEF Reading, LoadMaster, ReadMasterFails, BeginPong, Pong, SendInputError, writeVars
  <2> QED
    BY <1>1, <1>2, <1>3, <2>1, <2>2, OthersWrite DEF Quiet
<1>10. ASSUME NEW i \in Session, Handle(i) \/ ReadsMeet(i) PROVE Quiet
  BY <1>2, <1>3, <1>10
     DEF Quiet, portionVars, Handle, HandleCmd, HandleBad, HandleResize, HandlePing, ReadMaster,
         ReadsMeet, slaveVars, connVars, writeVars, portions
<1> QED
  BY <1>4, <1>5, <1>6, <1>7, <1>8, <1>9, <1>10

LEMMA AttachIs ==
  ASSUME Types, NEW i \in Session, Attach(i)
  PROVE  /\ UNCHANGED <<portionVars, out, writing>>
         /\ main[i].pc = "none" /\ main'[i].pc = "init" /\ master' = i
         /\ \A j \in Session : j # i => main'[j].pc = main[j].pc
<1>1. /\ main[i].pc = "none" /\ master' = i /\ main' = [main EXCEPT ![i].pc = "init"]
      /\ UNCHANGED <<portionVars, out, writing>>
  BY DEF Attach, portionVars, slaveVars, writeVars, portions
<1>2. main \in [Session -> Mains]
  BY DEF Types, RunOK
<1>3. main'[i].pc = "init" /\ \A j \in Session : j # i => main'[j].pc = main[j].pc
  BY <1>1, <1>2 DEF Mains
<1> QED
  BY <1>1, <1>3

LEMMA GoroutinesIs ==
  ASSUME Types, NEW i \in Session, StartGoroutines(i)
  PROVE  /\ Keeps /\ UNCHANGED <<portionVars, master, writing>>
         /\ main[i].pc = "init" /\ main'[i].pc \notin Early
<1>1. /\ main[i].pc = "init" /\ UNCHANGED <<portionVars, master, writing>>
      /\ main' = [main EXCEPT ![i].pc = "select"]
  BY DEF StartGoroutines, portionVars, slaveVars, connVars, writeVars, portions
<1>2. main \in [Session -> Mains]
  BY DEF Types, RunOK
<1> QED
  BY <1>1, <1>2 DEF Keeps, Mains, Early

LEMMA InitAttached == Init => Attached
BY DEF Init, Attached, NoOut

(* In a step in which no Run begins, a goroutine writes to a connection    *)
(* that belongs to a Run, and starts with a Run that has begun.            *)
LEMMA AttachedStays ==
  ASSUME Attached, Keeps, master' = master, master \in Session \cup {0},
         \A i \in Session :
           /\ \/ out'[i] = out[i] /\ writing'[<<"out", i>>] = writing[<<"out", i>>]
              \/ /\ main'[i].pc \notin Early
                 /\ out'[i].pc = "writing" =>
                      /\ writing'[<<"out", i>>] \in Session
                      /\ main[writing'[<<"out", i>>]].pc # "none"
           /\ delivered'[i] # <<>> => delivered[i] # <<>> \/ main[i].pc # "none"
  PROVE  Attached'
<1>1. \A i \in Session : main'[i].pc # "none" => master' # 0
  BY DEF Attached, Keeps
<1>2. master' # 0 => main'[master].pc # "none"
  BY DEF Attached, Keeps
<1>3. \A i \in Session : out'[i].pc # "none" => main'[i].pc \notin Early
  BY DEF Attached, Keeps
<1>4. ASSUME NEW i \in Session, out'[i].pc = "writing"
      PROVE  writing'[<<"out", i>>] \in Session /\ main'[writing'[<<"out", i>>]].pc # "none"
  <2>1. writing'[<<"out", i>>] \in Session /\ main[writing'[<<"out", i>>]].pc # "none"
    BY <1>4 DEF Attached
  <2> PICK t : t = writing'[<<"out", i>>]
    OBVIOUS
  <2> QED
    BY <2>1 DEF Keeps
<1>5. \A i \in Session : delivered'[i] # <<>> => main'[i].pc # "none"
  BY DEF Attached, Keeps
<1> QED
  BY <1>1, <1>2, <1>3, <1>4, <1>5 DEF Attached, Early

LEMMA NextAttached == Types /\ Attached /\ [Next]_vars => Attached'
<1> SUFFICES ASSUME Types, Attached, [Next]_vars PROVE Attached'
  OBVIOUS
<1>1. /\ main \in [Session -> Mains] /\ out \in [Session -> Outs] /\ OutOK
      /\ delivered \in [Session -> Seq(Messages)]
      /\ \A i \in Session : i # 0
      /\ writing \in [Writer -> 0..Sessions]
  BY DEF Types, RunOK, OutOK, SocketOK, Session
<1>2. master \in Session \cup {0}
  BY BoundAssumption DEF Types, RunOK, Session
<1>3. CASE Quiet
  <2>1. \A i \in Session : out'[i] = out[i] /\ writing'[<<"out", i>>] = writing[<<"out", i>>]
    BY <1>3 DEF Quiet, KeepsOut
  <2> QED
    BY <1>2, <1>3, <2>1, AttachedStays DEF Quiet, portionVars
<1>4. ASSUME NEW i \in Session, Attach(i) PROVE Attached'
  <2>1. /\ out' = out /\ delivered' = delivered /\ master' = i /\ writing' = writing
        /\ main[i].pc = "none" /\ main'[i].pc = "init"
        /\ \A j \in Session : j # i => main'[j].pc = main[j].pc
    BY <1>4, AttachIs DEF portionVars
  <2>2. \A j \in Session : out[j].pc # "none" => j # i
    BY <2>1 DEF Attached, Early
  <2>3. \A j \in Session : main[j].pc # "none" => main'[j].pc # "none"
    BY <2>1
  <2>4. \A j \in Session : out'[j].pc # "none" => main'[j].pc \notin Early
    BY <2>1, <2>2 DEF Attached
  <2>5. \A j \in Session : out'[j].pc = "writing" =>
          writing'[<<"out", j>>] \in Session /\ main'[writing'[<<"out", j>>]].pc # "none"
    BY <2>1, <2>3 DEF Attached
  <2> QED
    BY <1>1, <2>1, <2>3, <2>4, <2>5 DEF Attached, Early
<1>5. ASSUME NEW i \in Session, StartGoroutines(i) PROVE Attached'
  <2>1. /\ Keeps /\ delivered' = delivered /\ master' = master /\ main'[i].pc \notin Early
        /\ writing' = writing
    BY <1>5, GoroutinesIs DEF portionVars
  <2>2. \A j \in Session : \/ out'[j] = out[j]
                           \/ j = i /\ out'[j].pc = "read"
    BY <1>5, StartIs
  <2> QED
    BY <2>1, <2>2, <1>2, AttachedStays
<1>6. ASSUME NEW i \in Session, Steps(i, {"read", "send", "done"}) \/ out' = out,
             out[i].pc # "none", main' = main, master' = master, delivered' = delivered,
             writing' = writing
      PROVE  Attached'
  <2>1. Keeps
    BY <1>6 DEF Keeps
  <2>2. \A j \in Session : out'[j] = out[j] \/ (j = i /\ out'[j].pc # "writing")
    BY <1>6 DEF Steps
  <2>3. main'[i].pc \notin Early
    BY <1>6 DEF Attached
  <2> QED
    BY <1>2, <1>6, <2>1, <2>2, <2>3, AttachedStays
<1>7. ASSUME NEW i \in Session, ReadSlaveFails(i) \/ SendOutputError(i) PROVE Attached'
  BY <1>1, <1>6, <1>7, StopsIs DEF Steps, connVars, writeVars, portions
<1>8. ASSUME NEW i \in Session, ReadSlave(i) PROVE Attached'
  <2>1. /\ Keeps /\ delivered' = delivered /\ master' = master /\ main' = main
        /\ writing' = writing /\ out[i].pc # "none"
    BY <1>8, ReadSlaveIs DEF runVars, connVars, writeVars, Keeps
  <2>2. \A j \in Session : out'[j] = out[j] \/ (j = i /\ out'[j].pc = "begin")
    BY <1>8, ReadSlaveIs DEF ReadAs, Passed, Withhold
  <2>3. main'[i].pc \notin Early
    BY <2>1 DEF Attached
  <2> QED
    BY <2>1, <2>2, <2>3, <1>2, AttachedStays
<1>9. ASSUME NEW i \in Session, BeginMasterWrite(i) PROVE Attached'
  <2>1. /\ Keeps /\ delivered' = delivered /\ master' = master /\ main' = main
        /\ out[i].pc # "none" /\ writing' = [writing EXCEPT ![<<"out", i>>] = master]
        /\ \A j \in Session : j # i => out'[j] = out[j]
    BY <1>1, <1>9, BeginsIs DEF Steps, BeginWrite, Keeps, connVars, portions
  <2>2. master \in Session /\ main[master].pc # "none" /\ main'[i].pc \notin Early
    BY <1>2, <2>1 DEF Attached, Early
  <2>3. /\ writing'[<<"out", i>>] = master
        /\ \A j \in Session : j # i => writing'[<<"out", j>>] = writing[<<"out", j>>]
    BY <1>1, <2>1, Writers
  <2> QED
    BY <2>1, <2>2, <2>3, <1>2, AttachedStays
<1>10. ASSUME NEW i \in Session, WriteMaster(i) \/ WriteMasterFails(i) PROVE Attached'
  <2>1. /\ Keeps /\ master' = master /\ main' = main /\ out[i].pc = "writing"
        /\ \A j \in Session : j # i => out'[j] = out[j]
        /\ out'[i].pc # "writing"
        /\ writing' = [writing EXCEPT ![<<"out", i>>] = 0]
    BY <1>1, <1>10, WritesIs DEF Steps, EndWrite, Keeps, connVars
  <2>2. \A j \in Session : delivered'[j] = delivered[j] \/ j = writing[<<"out", i>>]
    <3>1. \/ delivered' = delivered
          \/ \E m : delivered' = [delivered EXCEPT ![writing[<<"out", i>>]] = m]
      BY <1>1, <1>10, WritesIs DEF Shown
    <3> QED
      BY <1>1, <3>1
  <2>3. /\ writing[<<"out", i>>] \in Session /\ main[writing[<<"out", i>>]].pc # "none"
        /\ main'[i].pc \notin Early
    BY <2>1 DEF Attached
  <2>4. \A j \in Session : j # i => writing'[<<"out", j>>] = writing[<<"out", j>>]
    BY <1>1, <2>1, Writers
  <2> QED
    BY <2>1, <2>2, <2>3, <2>4, <1>2, AttachedStays
<1> QED
  BY <1>3, <1>4, <1>5, <1>7, <1>8, <1>9, <1>10, QuietSteps DEF Next, RunStep, Copying

-----------------------------------------------------------------------------
(* Each line in one place, once.                                           *)

LEMMA Places ==
  /\ \A x \in Place : \/ x = <<"withheld", 0>> \/ x = <<"torn", 0>> \/ x = <<"failed", 0>>
                      \/ \E i \in Session : x = <<"held", i>> \/ x = <<"delivered", i>>
  /\ <<"withheld", 0>> \in Place /\ <<"torn", 0>> \in Place /\ <<"failed", 0>> \in Place
  /\ \A i \in Session : <<"held", i>> \in Place /\ <<"delivered", i>> \in Place
<1>1. ASSUME NEW x \in Place
      PROVE  \/ x = <<"withheld", 0>> \/ x = <<"torn", 0>> \/ x = <<"failed", 0>>
             \/ \E i \in Session : x = <<"held", i>> \/ x = <<"delivered", i>>
  BY DEF Place
<1>2. <<"withheld", 0>> \in Place /\ <<"torn", 0>> \in Place /\ <<"failed", 0>> \in Place
  BY DEF Place
<1>3. \A i \in Session : <<"held", i>> \in Place /\ <<"delivered", i>> \in Place
  BY DEF Place
<1> QED
  BY <1>1, <1>2, <1>3

LEMMA Contents ==
  /\ Content(<<"withheld", 0>>) = withheld
  /\ Content(<<"torn", 0>>) = torn
  /\ Content(<<"failed", 0>>) = failed
  /\ \A i : Content(<<"held", i>>) = Held(i)
  /\ \A i : Content(<<"delivered", i>>) = PiecesOf(delivered[i])
BY DEF Content

LEMMA ContentsNext ==
  /\ Content(<<"withheld", 0>>)' = withheld'
  /\ Content(<<"torn", 0>>)' = torn'
  /\ Content(<<"failed", 0>>)' = failed'
  /\ \A i : Content(<<"held", i>>)' = Held(i)'
  /\ \A i : Content(<<"delivered", i>>)' = PiecesOf(delivered'[i])
BY DEF Content

LEMMA PieceIs ==
  ASSUME NEW p, NEW lines
  PROVE  /\ \A x : x \in Pieces(p, lines) <=> \E n \in lines : x = <<p, n>>
         /\ \A x \in Pieces(p, lines) : x[1] = p /\ x[2] \in lines
         /\ \A n : <<p, n>> \in Pieces(p, lines) <=> n \in lines
BY DEF Pieces

LEMMA PiecesAppend ==
  ASSUME NEW d \in Seq(Messages), NEW m \in Messages
  PROVE  /\ PiecesOf(Append(d, m)) = PiecesOf(d) \cup Pieces(m.portion, m.lines)
         /\ Len(Append(d, m)) = Len(d) + 1 /\ Append(d, m)[Len(d) + 1] = m
         /\ \A n \in DOMAIN d : Append(d, m)[n] = d[n]
         /\ DOMAIN d = 1..Len(d) /\ DOMAIN Append(d, m) = 1..(Len(d) + 1) /\ Len(d) \in Nat
<1>1. /\ Len(d) \in Nat /\ Len(Append(d, m)) = Len(d) + 1 /\ Append(d, m)[Len(d) + 1] = m
      /\ \A n \in 1..Len(d) : Append(d, m)[n] = d[n]
      /\ DOMAIN d = 1..Len(d) /\ DOMAIN Append(d, m) = 1..(Len(d) + 1)
  OBVIOUS
<1> DEFINE longer == Append(d, m)
           k == Len(d)
           P(x) == Pieces(x.portion, x.lines)
<1> HIDE DEF longer, k, P
<1>2. /\ k \in Nat /\ longer[k + 1] = m /\ \A n \in 1..k : longer[n] = d[n]
      /\ DOMAIN d = 1..k /\ DOMAIN longer = 1..(k + 1)
  BY <1>1 DEF longer, k
<1>3. PiecesOf(longer) = UNION {P(longer[n]) : n \in 1..(k + 1)}
  BY <1>2 DEF PiecesOf, P
<1>4. PiecesOf(d) = UNION {P(d[n]) : n \in 1..k}
  BY <1>2 DEF PiecesOf, P
<1>5. ASSUME NEW x PROVE x \in PiecesOf(longer) <=> x \in PiecesOf(d) \cup P(m)
  <2>1. ASSUME x \in PiecesOf(longer) PROVE x \in PiecesOf(d) \cup P(m)
    <3>1. PICK n \in 1..(k + 1) : x \in P(longer[n])
      BY <1>3, <2>1
    <3>2. n \in 1..k \/ n = k + 1
      BY <1>2
    <3>3. CASE n \in 1..k
      BY <1>2, <1>4, <3>1, <3>3
    <3>4. CASE n = k + 1
      BY <1>2, <3>1, <3>4
    <3> QED
      BY <3>2, <3>3, <3>4
  <2>2. ASSUME x \in PiecesOf(d) PROVE x \in PiecesOf(longer)
    <3>1. PICK n \in 1..k : x \in P(d[n])
      BY <1>4, <2>2
    <3>2. n \in 1..(k + 1) /\ longer[n] = d[n]
      BY <1>2
    <3> QED
      BY <1>3, <3>1, <3>2
  <2>3. ASSUME x \in P(m) PROVE x \in PiecesOf(longer)
    <3>1. k + 1 \in 1..(k + 1)
      BY <1>2
    <3> QED
      BY <1>2, <1>3, <2>3, <3>1
  <2> QED
    BY <2>1, <2>2, <2>3
<1>6. PiecesOf(longer) = PiecesOf(d) \cup P(m)
  BY <1>5
<1> QED
  BY <1>1, <1>6 DEF longer, P

LEMMA PiecesToNext ==
  ASSUME NEW c \in Nat
  PROVE  /\ PiecesTo(c + 1) = PiecesTo(c) \cup Pieces(c + 1, Lines(c + 1))
         /\ \A x \in PiecesTo(c) : x[1] \in 1..c
         /\ PiecesTo(0) = {}
<1>1. 1..(c + 1) = (1..c) \cup {c + 1} /\ 1..0 = {}
  OBVIOUS
<1> DEFINE P(p) == Pieces(p, Lines(p))
<1>2. \A S : \A x : x \in UNION {P(p) : p \in S} <=> \E p \in S : x \in P(p)
  OBVIOUS
<1>3. \A k : PiecesTo(k) = UNION {P(p) : p \in 1..k}
  BY DEF PiecesTo
<1>4. \A p : \A x \in P(p) : x[1] = p
  BY PieceIs
<1> HIDE DEF P
<1>5. PiecesTo(c + 1) = PiecesTo(c) \cup P(c + 1)
  <2>1. ASSUME NEW x PROVE x \in PiecesTo(c + 1) <=> x \in PiecesTo(c) \cup P(c + 1)
    BY <1>1, <1>2, <1>3
  <2> QED
    BY <2>1
<1>6. \A x \in PiecesTo(c) : x[1] \in 1..c
  BY <1>2, <1>3, <1>4
<1>7. PiecesTo(0) = {}
  BY <1>1, <1>2, <1>3
<1> QED
  BY <1>5, <1>6, <1>7 DEF P

Parted ==
  /\ UNION {Content(x) : x \in Place} = PiecesTo(consumed)
  /\ \A x, y \in Place : x # y => Content(x) \cap Content(y) = {}

Single ==
  \A i \in Session : \A m, n \in DOMAIN delivered[i] :
    m # n => PiecesOf(<<delivered[i][m]>>) \cap PiecesOf(<<delivered[i][n]>>) = {}

LEMMA PartedIs ==
  ASSUME Parted
  PROVE  /\ \A x : x \in PiecesTo(consumed) <=> \E y \in Place : x \in Content(y)
         /\ \A y \in Place : Content(y) \subseteq PiecesTo(consumed)
         /\ consumed \in Nat => \A y \in Place : \A x \in Content(y) : x[1] \in 1..consumed
<1>1. \A x : x \in UNION {Content(y) : y \in Place} <=> \E y \in Place : x \in Content(y)
  OBVIOUS
<1>2. \A x : x \in PiecesTo(consumed) <=> \E y \in Place : x \in Content(y)
  BY <1>1 DEF Parted
<1> QED
  BY <1>2, PiecesToNext

(* The lines of a portion that is read come to two places: what is passed  *)
(* on and what is kept back ...                                            *)
LEMMA PiecesCome ==
  ASSUME Parted, consumed \in Nat, consumed' = consumed + 1, output' = output,
         NEW y \in Place, NEW z \in Place, y # z, NEW A, NEW B, A \cap B = {},
         A \cup B = Pieces(consumed + 1, Lines(consumed + 1)),
         Content(y)' = Content(y) \cup A, Content(z)' = Content(z) \cup B,
         \A x \in Place : x # y /\ x # z => Content(x)' = Content(x)
  PROVE  Parted'
<1>1. \A x \in Place : \A u \in Content(x) : u[1] # consumed + 1
  BY PartedIs
<1>2. \A u \in A \cup B : u[1] = consumed + 1
  BY PieceIs
<1>3. ASSUME NEW u \in Place, NEW v \in Place, u # v
      PROVE  Content(u)' \cap Content(v)' = {}
  <2>1. ASSUME NEW a \in Content(u)', a \in Content(v)' PROVE FALSE
    <3>1. CASE a \in A \cup B
      <4>1. a \notin Content(u) /\ a \notin Content(v)
        BY <1>1, <1>2, <3>1
      <4> QED
        BY <1>3, <2>1, <3>1, <4>1
    <3>2. CASE a \notin A \cup B
      <4>1. a \in Content(u) /\ a \in Content(v)
        BY <2>1, <3>2
      <4> QED
        BY <1>3, <4>1 DEF Parted
    <3> QED
      BY <3>1, <3>2
  <2> QED
    BY <2>1
<1>4. PiecesTo(consumed)' = PiecesTo(consumed) \cup (A \cup B)
  <2>1. PiecesTo(consumed)' = PiecesTo(consumed + 1)
    BY DEF PiecesTo, Pieces, Lines
  <2> QED
    BY <2>1, PiecesToNext
<1>5. ASSUME NEW a
      PROVE  (\E x \in Place : a \in Content(x)') <=> a \in PiecesTo(consumed)'
  <2>1. ASSUME NEW x \in Place, a \in Content(x)' PROVE a \in PiecesTo(consumed)'
    BY <1>4, <2>1, PartedIs
  <2>2. ASSUME a \in PiecesTo(consumed)' PROVE \E x \in Place : a \in Content(x)'
    <3>1. CASE a \in PiecesTo(consumed)
      <4>1. PICK x \in Place : a \in Content(x)
        BY <3>1, PartedIs
      <4>2. a \in Content(x)'
        BY <4>1
      <4> QED
        BY <4>2
    <3>2. CASE a \in A
      BY <3>2
    <3>3. CASE a \in B
      BY <3>3
    <3> QED
      BY <1>4, <2>2, <3>1, <3>2, <3>3
  <2> QED
    BY <2>1, <2>2
<1>6. UNION {Content(x)' : x \in Place} = PiecesTo(consumed)'
  BY <1>5
<1> QED
  BY <1>3, <1>6 DEF Parted

(* ... and those that are written leave the goroutine for another place.   *)
LEMMA PiecesMove ==
  ASSUME Parted, UNCHANGED <<consumed, output>>, NEW x \in Place, NEW y \in Place, x # y,
         Content(x)' = {}, Content(y)' = Content(y) \cup Content(x),
         \A z \in Place : z # x /\ z # y => Content(z)' = Content(z)
  PROVE  Parted'
<1>1. ASSUME NEW u \in Place, NEW v \in Place, u # v
      PROVE  Content(u)' \cap Content(v)' = {}
  <2>1. ASSUME NEW a \in Content(u)', a \in Content(v)' PROVE FALSE
    <3>1. u # x /\ v # x
      BY <2>1
    <3>2. CASE u = y
      BY <1>1, <2>1, <3>1, <3>2 DEF Parted
    <3>3. CASE v = y
      BY <1>1, <2>1, <3>1, <3>3 DEF Parted
    <3>4. CASE u # y /\ v # y
      BY <1>1, <2>1, <3>1, <3>4 DEF Parted
    <3> QED
      BY <3>2, <3>3, <3>4
  <2> QED
    BY <2>1
<1>2. PiecesTo(consumed)' = PiecesTo(consumed)
  BY DEF PiecesTo, Pieces, Lines
<1>3. ASSUME NEW a
      PROVE  (\E z \in Place : a \in Content(z)') <=> \E z \in Place : a \in Content(z)
  <2>1. ASSUME NEW z \in Place, a \in Content(z)' PROVE \E u \in Place : a \in Content(u)
    BY <2>1
  <2>2. ASSUME NEW z \in Place, a \in Content(z) PROVE \E u \in Place : a \in Content(u)'
    <3>1. CASE z = x
      BY <2>2, <3>1
    <3>2. CASE z # x
      <4>1. a \in Content(z)'
        BY <2>2, <3>2
      <4> QED
        BY <4>1
    <3> QED
      BY <3>1, <3>2
  <2> QED
    BY <2>1, <2>2
<1>4. UNION {Content(z)' : z \in Place} = PiecesTo(consumed)'
  BY <1>2, <1>3, PartedIs
<1> QED
  BY <1>1, <1>4 DEF Parted

(* What has been written, with or without success.                         *)
Written == UNION ({torn, failed} \cup {PiecesOf(delivered[i]) : i \in Session})

Holds(i) == out[i].pc \in {"begin", "writing"}

(* What a goroutine has in its hands is of a portion that no other has and *)
(* of which nothing has been written.                                      *)
Fresh ==
  /\ \A i \in Session :
       /\ out[i].portion <= consumed
       /\ Pieces(out[i].portion, out[i].lines) \subseteq PiecesTo(consumed)
       /\ Holds(i) => \A x \in Written : x[1] # out[i].portion
  /\ \A i, j \in Session : i # j /\ Holds(i) /\ Holds(j) => out[i].portion # out[j].portion

Typed ==
  \A i \in Session : \A n \in DOMAIN delivered[i] :
    HasRoot(delivered[i][n].portion, delivered[i][n].lines) <=> delivered[i][n].type = "error"

PortionsOK == Parted /\ Single /\ Fresh /\ Typed /\ deleted = Cardinality(RootsWritten)

LEMMA WrittenIs ==
  \A x : x \in Written <=> x \in torn \/ x \in failed
                             \/ \E i \in Session : x \in PiecesOf(delivered[i])
BY DEF Written

LEMMA WrittenNext ==
  \A x : x \in Written' <=> x \in torn' \/ x \in failed'
                              \/ \E i \in Session : x \in PiecesOf(delivered'[i])
BY DEF Written

LEMMA RootsIs ==
  /\ \A p : p \in RootsWritten <=> \E x \in Written : "root" \in output[x[1]][x[2]] /\ p = x[1]
  /\ \A p : p \in RootsWritten' <=>
              \E x \in Written' : "root" \in output'[x[1]][x[2]] /\ p = x[1]
<1>1. RootsWritten = {x[1] : x \in {y \in Written : "root" \in output[y[1]][y[2]]}}
  BY DEF RootsWritten, Written
<1>2. RootsWritten' = {x[1] : x \in {y \in Written' : "root" \in output'[y[1]][y[2]]}}
  BY DEF RootsWritten, Written
<1> QED
  BY <1>1, <1>2

LEMMA RootsFinite ==
  ASSUME Parted, consumed \in Nat
  PROVE  /\ \A x \in Written : x[1] \in 1..consumed
         /\ IsFiniteSet(RootsWritten) /\ Cardinality(RootsWritten) <= consumed
<1>1. \A y \in Place : \A x \in Content(y) : x[1] \in 1..consumed
  BY PartedIs
<1>2. \A x \in Written : x[1] \in 1..consumed
  <2>1. \A x \in torn \cup failed : x[1] \in 1..consumed
    BY <1>1, Places, Contents
  <2>2. ASSUME NEW i \in Session PROVE \A x \in PiecesOf(delivered[i]) : x[1] \in 1..consumed
    BY <1>1, Places, Contents
  <2> QED
    BY <2>1, <2>2, WrittenIs
<1>3. RootsWritten \subseteq 1..consumed
  BY <1>2, RootsIs
<1>4. IsFiniteSet(1..consumed) /\ Cardinality(1..consumed) = consumed
  BY FS_Interval
<1> QED
  BY <1>2, <1>3, <1>4, FS_Subset

LEMMA HeldIs ==
  ASSUME NEW i \in Session
  PROVE  /\ Holds(i) => Held(i) = Pieces(out[i].portion, out[i].lines)
         /\ ~Holds(i) => Held(i) = {}
         /\ Holds(i)' <=> out'[i].pc \in {"begin", "writing"}
         /\ Holds(i)' => Held(i)' = Pieces(out'[i].portion, out'[i].lines)
         /\ ~Holds(i)' => Held(i)' = {}
         /\ out'[i] = out[i] => Held(i)' = Held(i)
BY DEF Held, Holds, Pieces

(* Steps that leave every portion where it is.                             *)
LEMMA PortionsStay ==
  ASSUME PortionsOK, consumed \in Nat, UNCHANGED portionVars,
         \A j \in Session :
           \/ out'[j] = out[j]
           \/ /\ Holds(j)' <=> Holds(j)
              /\ out'[j].portion = out[j].portion /\ out'[j].lines = out[j].lines
           \/ ~Holds(j) /\ ~Holds(j)' /\ out'[j].portion = 0 /\ out'[j].lines = {}
  PROVE  PortionsOK'
<1>1. /\ Parted /\ Single /\ Fresh /\ Typed /\ deleted = Cardinality(RootsWritten)
      /\ UNCHANGED <<output, consumed, delivered, withheld, torn, failed, deleted>>
  BY DEF PortionsOK, portionVars
<1>2. \A j \in Session : Held(j)' = Held(j)
  BY HeldIs
<1>3. ASSUME NEW x \in Place PROVE Content(x)' = Content(x)
  BY <1>1, <1>2, Places, Contents, ContentsNext
<1>4. PiecesTo(consumed)' = PiecesTo(consumed)
  BY <1>1 DEF PiecesTo, Pieces, Lines
<1>5. Parted'
  BY <1>1, <1>3, <1>4 DEF Parted
<1>6. Single' /\ Typed'
  BY <1>1 DEF Single, Typed, HasRoot, PiecesOf, Pieces
<1>7. Written' = Written /\ RootsWritten' = RootsWritten
  BY <1>1 DEF Written, RootsWritten, PiecesOf, Pieces
<1>8. Fresh'
  <2>1. ASSUME NEW j \in Session
        PROVE  /\ out'[j].portion <= consumed'
               /\ Pieces(out'[j].portion, out'[j].lines) \subseteq PiecesTo(consumed)'
               /\ Holds(j)' => Holds(j) /\ out'[j].portion = out[j].portion
    <3>1. CASE out'[j] = out[j]
      BY <1>1, <1>4, <3>1 DEF Fresh, Holds
    <3>2. CASE /\ Holds(j)' <=> Holds(j)
               /\ out'[j].portion = out[j].portion /\ out'[j].lines = out[j].lines
      BY <1>1, <1>4, <3>2 DEF Fresh
    <3>3. CASE ~Holds(j) /\ ~Holds(j)' /\ out'[j].portion = 0 /\ out'[j].lines = {}
      BY <1>1, <3>3, PieceIs
    <3> QED
      BY <3>1, <3>2, <3>3
  <2>2. \A j \in Session : Holds(j)' => \A x \in Written' : x[1] # out'[j].portion
    BY <1>1, <1>7, <2>1 DEF Fresh
  <2>3. \A i, j \in Session : i # j /\ Holds(i)' /\ Holds(j)' => out'[i].portion # out'[j].portion
    BY <1>1, <2>1 DEF Fresh
  <2> QED
    BY <2>1, <2>2, <2>3 DEF Fresh, Pieces
<1> QED
  BY <1>1, <1>5, <1>6, <1>7, <1>8 DEF PortionsOK

LEMMA InitPortions == Init => PortionsOK
<1> SUFFICES ASSUME Init PROVE PortionsOK
  OBVIOUS
<1>1. /\ consumed = 0 /\ withheld = {} /\ torn = {} /\ failed = {} /\ deleted = 0
      /\ \A i \in Session : /\ out[i].portion = 0 /\ out[i].lines = {} /\ ~Holds(i)
                            /\ delivered[i] = <<>>
  BY DEF Init, NoOut, Holds
<1>2. \A i \in Session : PiecesOf(delivered[i]) = {} /\ Held(i) = {}
  BY <1>1, HeldIs DEF PiecesOf
<1>3. \A x \in Place : Content(x) = {}
  BY <1>1, <1>2, Places, Contents
<1>4. Parted
  BY <1>1, <1>3, PiecesToNext DEF Parted
<1>5. Single /\ Typed
  BY <1>1 DEF Single, Typed
<1>6. Written = {}
  BY <1>1, <1>2, WrittenIs
<1>7. RootsWritten = {}
  BY <1>6, RootsIs
<1>8. Fresh
  BY <1>1, PieceIs DEF Fresh
<1> QED
  BY <1>1, <1>4, <1>5, <1>7, <1>8, FS_EmptySet DEF PortionsOK

(* A portion is read: the goroutine holds what is passed on, the rest is   *)
(* kept back.                                                              *)
LEMMA ReadPortions ==
  ASSUME Types, PortionsOK, NEW i \in Session, ReadSlave(i)
  PROVE  PortionsOK'
<1> DEFINE p == consumed + 1
           All == Pieces(p, Lines(p))
<1>1. /\ Parted /\ Single /\ Fresh /\ Typed /\ deleted = Cardinality(RootsWritten)
      /\ consumed \in Nat /\ \A j \in Session : out[j].portion \in Nat
  BY DEF PortionsOK, Types, TermOK, OutOK, Outs
<1>2. /\ consumed' = p /\ out[i].pc = "read"
      /\ UNCHANGED <<output, delivered, torn, failed, deleted>>
      /\ \/ \E lines \in SUBSET Lines(p), open, last \in BOOLEAN :
              ReadAs(i, p, lines, open, last)
         \/ Withhold(p)
  BY ReadSlaveIs DEF slaveVars
<1>3. ~Holds(i)
  BY <1>2 DEF Holds
<1>4. Single' /\ Typed'
  BY <1>1, <1>2 DEF Single, Typed, HasRoot
<1>5. Written' = Written /\ deleted' = Cardinality(RootsWritten')
  <2>1. Written' = Written
    BY <1>2 DEF Written
  <2>2. RootsWritten' = RootsWritten
    BY <1>2, <2>1, RootsIs
  <2> QED
    BY <1>1, <1>2, <2>1, <2>2
<1>6. PiecesTo(consumed)' = PiecesTo(consumed) \cup All
  <2>1. PiecesTo(consumed)' = PiecesTo(p)
    BY <1>2 DEF PiecesTo, Lines
  <2> QED
    BY <1>1, <2>1, PiecesToNext
<1>7. \A j \in Session : out[j].portion <= consumed /\ out[j].portion # p
  BY <1>1 DEF Fresh
<1>8. \A x \in Written : x[1] # p
  BY <1>1, RootsFinite
<1> HIDE DEF p, All
<1>9. ASSUME NEW lines \in SUBSET Lines(p), NEW open, NEW last, ReadAs(i, p, lines, open, last)
      PROVE  PortionsOK'
  <2> DEFINE A == Pieces(p, lines)
             B == Pieces(p, Lines(p) \ lines)
  <2>1. /\ \A j \in Session : j # i => out'[j] = out[j]
        /\ out'[i].pc = "begin" /\ out'[i].portion = p /\ out'[i].lines = lines
        /\ withheld' = withheld \cup B
    BY <1>9 DEF ReadAs, Passed
  <2>2. A \cap B = {} /\ A \cup B = All
    BY PieceIs DEF All
  <2>3. Held(i) = {} /\ Held(i)' = A /\ \A j \in Session : j # i => Held(j)' = Held(j)
    BY <1>3, <2>1, HeldIs
  <2> HIDE DEF A, B
  <2>4. /\ Content(<<"held", i>>)' = Content(<<"held", i>>) \cup A
        /\ Content(<<"withheld", 0>>)' = Content(<<"withheld", 0>>) \cup B
    BY <2>1, <2>3, Contents, ContentsNext
  <2>5. \A x \in Place : x # <<"held", i>> /\ x # <<"withheld", 0>> => Content(x)' = Content(x)
    BY <1>2, <2>3, Places, Contents, ContentsNext
  <2>6. <<"held", i>> # <<"withheld", 0>>
    OBVIOUS
  <2>7. Parted'
    <3>1. /\ consumed' = consumed + 1 /\ output' = output
          /\ A \cap B = {} /\ A \cup B = Pieces(consumed + 1, Lines(consumed + 1))
      BY <1>2, <2>2 DEF p, All
    <3>2. <<"held", i>> \in Place /\ <<"withheld", 0>> \in Place
      BY Places
    <3> PICK y \in Place : y = <<"held", i>>
      BY <3>2
    <3> PICK z \in Place : z = <<"withheld", 0>>
      BY <3>2
    <3>3. y # z /\ Content(y)' = Content(y) \cup A /\ Content(z)' = Content(z) \cup B
      BY <2>4, <2>6
    <3>4. \A x \in Place : x # y /\ x # z => Content(x)' = Content(x)
      BY <2>5
    <3> QED
      BY <1>1, <3>1, <3>3, <3>4, PiecesCome
  <2>8. Fresh'
    <3>1. ASSUME NEW j \in Session
          PROVE  /\ out'[j].portion <= consumed'
                 /\ Pieces(out'[j].portion, out'[j].lines) \subseteq PiecesTo(consumed)'
                 /\ Holds(j)' => \A x \in Written' : x[1] # out'[j].portion
      <4>1. CASE j = i
        BY <1>1, <1>2, <1>5, <1>6, <1>8, <2>1, <2>2, <4>1 DEF p, A
      <4>2. CASE j # i
        BY <1>1, <1>2, <1>5, <1>6, <2>1, <4>2 DEF Fresh, p, Holds
      <4> QED
        BY <4>1, <4>2
    <3>2. ASSUME NEW j \in Session, NEW k \in Session, j # k, Holds(j)', Holds(k)'
          PROVE  out'[j].portion # out'[k].portion
      BY <1>1, <1>7, <2>1, <3>2 DEF Fresh, Holds
    <3> QED
      BY <3>1, <3>2 DEF Fresh
  <2> QED
    BY <1>4, <1>5, <2>7, <2>8 DEF PortionsOK
<1>10. CASE Withhold(p)
  <2>1. withheld' = withheld \cup All /\ out' = out
    BY <1>10 DEF Withhold, All
  <2>2. \A j \in Session : Held(j)' = Held(j)
    BY <2>1, HeldIs
  <2>3. /\ Content(<<"withheld", 0>>)' = Content(<<"withheld", 0>>) \cup All
        /\ Content(<<"torn", 0>>)' = Content(<<"torn", 0>>) \cup {}
    BY <1>2, <2>1, Contents, ContentsNext
  <2>4. \A x \in Place : x # <<"withheld", 0>> /\ x # <<"torn", 0>> => Content(x)' = Content(x)
    BY <1>2, <2>2, Places, Contents, ContentsNext
  <2>5. <<"withheld", 0>> # <<"torn", 0>> /\ All \cap {} = {} /\ All \cup {} = All
    OBVIOUS
  <2>6. Parted'
    BY <1>1, <1>2, <2>3, <2>4, <2>5, Places, PiecesCome DEF p, All
  <2>7. Fresh'
    BY <1>1, <1>2, <1>5, <1>6, <2>1 DEF Fresh, Holds, p
  <2> QED
    BY <1>4, <1>5, <2>6, <2>7 DEF PortionsOK
<1> QED
  BY <1>2, <1>9, <1>10 DEF p

(* What is written is of a portion of which nothing has been.              *)
LEMMA RootShown ==
  ASSUME Parted, consumed \in Nat, deleted = Cardinality(RootsWritten), output' = output,
         NEW p, NEW lines, \A x \in Written : x[1] # p,
         Written' = Written \cup Pieces(p, lines),
         deleted' = IF HasRoot(p, lines) THEN deleted + 1 ELSE deleted
  PROVE  deleted' = Cardinality(RootsWritten')
<1>1. IsFiniteSet(RootsWritten) /\ p \notin RootsWritten
  BY RootsFinite, RootsIs
<1>2. HasRoot(p, lines) <=> \E x \in Pieces(p, lines) : "root" \in output[x[1]][x[2]]
  <2>1. ASSUME NEW n \in lines, "root" \in output[p][n]
        PROVE  \E x \in Pieces(p, lines) : "root" \in output[x[1]][x[2]]
    <3>1. <<p, n>> \in Pieces(p, lines) /\ <<p, n>>[1] = p /\ <<p, n>>[2] = n
      BY PieceIs
    <3> QED
      BY <2>1, <3>1
  <2> QED
    BY <2>1, PieceIs DEF HasRoot
<1>3. CASE HasRoot(p, lines)
  <2>1. RootsWritten' = RootsWritten \cup {p}
    BY <1>2, <1>3, PieceIs, RootsIs
  <2> QED
    BY <1>1, <1>3, <2>1, FS_AddElement
<1>4. CASE ~HasRoot(p, lines)
  <2>1. \A x : x \in Written' => x \in Written \/ "root" \notin output[x[1]][x[2]]
    BY <1>2, <1>4
  <2>2. ASSUME NEW q PROVE q \in RootsWritten' <=> q \in RootsWritten
    BY <2>1, RootsIs
  <2>3. RootsWritten' = RootsWritten
    <3>1. RootsWritten' \subseteq RootsWritten /\ RootsWritten \subseteq RootsWritten'
      BY <2>2
    <3> QED
      BY <3>1
  <2> QED
    BY <1>4, <2>3
<1> QED
  BY <1>3, <1>4

(* What the goroutine of a Run has written has left its hands for a place  *)
(* in which it is the newest.                                              *)
LEMMA PortionWritten ==
  ASSUME PortionsOK, consumed \in Nat, UNCHANGED <<output, consumed>>,
         NEW i \in Session, Holds(i), Steps(i, {"read", "send"}),
         NEW y \in Place, y # <<"held", i>>,
         Content(y)' = Content(y) \cup Pieces(out[i].portion, out[i].lines),
         \A z \in Place : z # <<"held", i>> /\ z # y /\ z \notin {"held"} \X Session
           => Content(z)' = Content(z),
         y \notin {"held"} \X Session,
         Written' = Written \cup Pieces(out[i].portion, out[i].lines),
         deleted' = IF HasRoot(out[i].portion, out[i].lines) THEN deleted + 1 ELSE deleted
  PROVE  Parted' /\ Fresh' /\ deleted' = Cardinality(RootsWritten')
<1>1. /\ Parted /\ Fresh /\ deleted = Cardinality(RootsWritten)
      /\ \A x \in Written : x[1] # out[i].portion
  BY DEF PortionsOK, Fresh
<1>2. /\ \A j \in Session : j # i => out'[j] = out[j]
      /\ ~Holds(i)' /\ out'[i].portion = out[i].portion /\ out'[i].lines = out[i].lines
  BY DEF Steps, Holds
<1>3. /\ Held(i) = Pieces(out[i].portion, out[i].lines) /\ Held(i)' = {}
      /\ \A j \in Session : j # i => Held(j)' = Held(j)
  BY <1>2, HeldIs
<1>4. Content(<<"held", i>>)' = {} /\ Content(y)' = Content(y) \cup Content(<<"held", i>>)
  BY <1>3, Contents, ContentsNext
<1>5. ASSUME NEW z \in Place, z # <<"held", i>>, z # y PROVE Content(z)' = Content(z)
  <2>1. CASE z \in {"held"} \X Session
    <3>1. PICK j \in Session : z = <<"held", j>>
      BY <2>1
    <3> QED
      BY <1>3, <1>5, <3>1, Contents, ContentsNext
  <2>2. CASE z \notin {"held"} \X Session
    BY <1>5, <2>2
  <2> QED
    BY <2>1, <2>2
<1>6. Parted'
  BY <1>1, <1>4, <1>5, Places, PiecesMove
<1>7. deleted' = Cardinality(RootsWritten')
  BY <1>1, RootShown
<1>8. PiecesTo(consumed)' = PiecesTo(consumed)
  BY DEF PiecesTo, Lines
<1>9. Fresh'
  <2>1. ASSUME NEW j \in Session
        PROVE  /\ out'[j].portion <= consumed'
               /\ Pieces(out'[j].portion, out'[j].lines) \subseteq PiecesTo(consumed)'
    BY <1>1, <1>2, <1>8 DEF Fresh
  <2>2. ASSUME NEW j \in Session, Holds(j)', NEW x \in Written'
        PROVE  x[1] # out'[j].portion
    <3>1. j # i /\ out'[j] = out[j] /\ Holds(j)
      BY <1>2, <2>2 DEF Holds
    <3>2. CASE x \in Written
      BY <1>1, <3>1, <3>2 DEF Fresh
    <3>3. CASE x \in Pieces(out[i].portion, out[i].lines)
      BY <1>1, <3>1, <3>3, PieceIs DEF Fresh
    <3> QED
      BY <2>2, <3>2, <3>3
  <2>3. ASSUME NEW j \in Session, NEW k \in Session, j # k, Holds(j)', Holds(k)'
        PROVE  out'[j].portion # out'[k].portion
    <3>1. j # i /\ k # i /\ out'[j] = out[j] /\ out'[k] = out[k] /\ Holds(j) /\ Holds(k)
      BY <1>2, <2>3 DEF Holds
    <3> QED
      BY <1>1, <2>3, <3>1 DEF Fresh
  <2> QED
    BY <2>1, <2>2, <2>3 DEF Fresh
<1> QED
  BY <1>6, <1>7, <1>9

LEMMA WritePortions ==
  ASSUME Types, Attached, PortionsOK,
         NEW i \in Session, WriteMaster(i) \/ WriteMasterFails(i)
  PROVE  PortionsOK'
<1> PICK t : t = writing[<<"out", i>>]
  OBVIOUS
<1> PICK p : p = out[i].portion
  OBVIOUS
<1> PICK lines : lines = out[i].lines
  OBVIOUS
<1>1. /\ OutOK /\ delivered \in [Session -> Seq(Messages)] /\ consumed \in Nat
      /\ Single /\ Typed /\ Fresh /\ out[i] \in Outs /\ p \in Nat /\ lines \in SUBSET Nat
  BY DEF Types, OutOK, TermOK, Outs, PortionsOK
<1>2. /\ UNCHANGED <<output, consumed, withheld>> /\ out[i].pc = "writing" /\ Holds(i)
      /\ deleted' = IF HasRoot(p, lines) THEN deleted + 1 ELSE deleted
      /\ Steps(i, {"read", "send"})
      /\ \/ Shown(t, p, lines)
         \/ torn' = torn \cup Pieces(p, lines) /\ UNCHANGED <<delivered, failed>>
         \/ failed' = failed \cup Pieces(p, lines) /\ UNCHANGED <<delivered, torn>>
  BY <1>1, WritesIs DEF slaveVars, Holds
<1>3. t \in Session /\ \A x \in Written : x[1] # p
  BY <1>1, <1>2 DEF Attached, Fresh
<1>4. /\ \A j \in Session : <<"delivered", j>> \notin {"held"} \X Session
      /\ <<"torn", 0>> \notin {"held"} \X Session /\ <<"failed", 0>> \notin {"held"} \X Session
      /\ <<"torn", 0>> # <<"held", i>> /\ <<"failed", 0>> # <<"held", i>>
      /\ <<"delivered", t>> # <<"held", i>>
  OBVIOUS
<1>5. \A z \in Place : z \notin {"held"} \X Session =>
        \/ z = <<"withheld", 0>> \/ z = <<"torn", 0>> \/ z = <<"failed", 0>>
        \/ \E j \in Session : z = <<"delivered", j>>
  BY Places
<1>6. CASE Shown(t, p, lines)
  <2> PICK m : m = Message(p, lines)
    OBVIOUS
  <2>1. /\ delivered' = [delivered EXCEPT ![t] = Append(delivered[t], m)]
        /\ UNCHANGED <<torn, failed>>
        /\ m \in Messages /\ m.portion = p /\ m.lines = lines
        /\ m.type = "error" <=> HasRoot(p, lines)
    BY <1>1, <1>6, MessageTypes DEF Shown
  <2>2. /\ delivered'[t] = Append(delivered[t], m)
        /\ \A j \in Session : j # t => delivered'[j] = delivered[j]
    BY <1>1, <1>3, <2>1
  <2>3. PiecesOf(delivered'[t]) = PiecesOf(delivered[t]) \cup Pieces(p, lines)
    BY <1>1, <1>3, <2>1, <2>2, PiecesAppend
  <2>4. Content(<<"delivered", t>>)' = Content(<<"delivered", t>>) \cup Pieces(p, lines)
    BY <2>3, Contents, ContentsNext
  <2>5. \A z \in Place : z # <<"delivered", t>> /\ z \notin {"held"} \X Session
                           => Content(z)' = Content(z)
    BY <1>2, <1>5, <2>1, <2>2, Contents, ContentsNext
  <2>6. Written' = Written \cup Pieces(p, lines)
    BY <1>3, <2>1, <2>2, <2>3, WrittenIs, WrittenNext
  <2>7. Parted' /\ Fresh' /\ deleted' = Cardinality(RootsWritten')
    BY <1>1, <1>2, <1>3, <1>4, <2>4, <2>5, <2>6, Places, PortionWritten
  <2>8. /\ \A n \in DOMAIN delivered[t] : delivered'[t][n] = delivered[t][n]
        /\ delivered'[t][Len(delivered[t]) + 1] = m
        /\ DOMAIN delivered'[t] = DOMAIN delivered[t] \cup {Len(delivered[t]) + 1}
    <3> PICK d \in Seq(Messages) : d = delivered[t]
      BY <1>1, <1>3
    <3>1. /\ \A n \in DOMAIN d : Append(d, m)[n] = d[n]
          /\ Append(d, m)[Len(d) + 1] = m
          /\ DOMAIN d = 1..Len(d) /\ DOMAIN Append(d, m) = 1..(Len(d) + 1) /\ Len(d) \in Nat
      BY <2>1, PiecesAppend
    <3>2. DOMAIN Append(d, m) = DOMAIN d \cup {Len(d) + 1}
      BY <3>1
    <3> QED
      BY <2>2, <3>1, <3>2
  <2> PICK last : last = Len(delivered[t]) + 1
    OBVIOUS
  <2>9. Typed'
    <3>1. ASSUME NEW j \in Session, NEW n \in DOMAIN delivered'[j]
          PROVE  HasRoot(delivered'[j][n].portion, delivered'[j][n].lines)
                   <=> delivered'[j][n].type = "error"
      <4>1. \/ n \in DOMAIN delivered[j] /\ delivered'[j][n] = delivered[j][n]
            \/ delivered'[j][n] = m
        BY <2>2, <2>8
      <4>2. CASE n \in DOMAIN delivered[j] /\ delivered'[j][n] = delivered[j][n]
        BY <1>1, <4>2 DEF Typed
      <4>3. CASE delivered'[j][n] = m
        BY <2>1, <4>3
      <4> QED
        BY <4>1, <4>2, <4>3
    <3>2. \A q, ls : HasRoot(q, ls)' <=> HasRoot(q, ls)
      BY <1>2 DEF HasRoot
    <3> QED
      BY <3>1, <3>2 DEF Typed
  <2>10. \A x : x \in PiecesOf(<<m>>) => x[1] = p
    <3>1. PiecesOf(<<m>>) = Pieces(p, lines)
      BY <2>1 DEF PiecesOf
    <3> QED
      BY <3>1, PieceIs
  <2>11. \A n \in DOMAIN delivered[t] : PiecesOf(<<delivered[t][n]>>) \subseteq Written
    <3>1. ASSUME NEW n \in DOMAIN delivered[t], NEW x \in PiecesOf(<<delivered[t][n]>>)
          PROVE  x \in PiecesOf(delivered[t])
      <4> PICK k : k = delivered[t][n]
        OBVIOUS
      <4>1. PiecesOf(<<k>>) = Pieces(k.portion, k.lines)
        BY DEF PiecesOf
      <4> QED
        BY <3>1, <4>1 DEF PiecesOf
    <3> QED
      BY <1>3, <3>1, WrittenIs
  <2>12. \A n \in DOMAIN delivered[t] :
           PiecesOf(<<m>>) \cap PiecesOf(<<delivered[t][n]>>) = {}
    BY <1>3, <2>10, <2>11
  <2>13. Single'
    <3>1. ASSUME NEW j \in Session, NEW k \in DOMAIN delivered'[j],
                 NEW n \in DOMAIN delivered'[j], k # n
          PROVE  PiecesOf(<<delivered'[j][k]>>) \cap PiecesOf(<<delivered'[j][n]>>) = {}
      <4>1. CASE j # t
        BY <1>1, <2>2, <3>1, <4>1 DEF Single
      <4>2. CASE j = t
        <5>1. CASE k \in DOMAIN delivered[t] /\ n \in DOMAIN delivered[t]
          BY <1>1, <2>8, <3>1, <4>2, <5>1 DEF Single
        <5>2. CASE k \in DOMAIN delivered[t] /\ n \notin DOMAIN delivered[t]
          <6>1. delivered'[j][n] = m /\ delivered'[j][k] = delivered[t][k]
            BY <2>8, <3>1, <4>2, <5>2
          <6> QED
            BY <2>12, <5>2, <6>1
        <5>3. CASE n \in DOMAIN delivered[t] /\ k \notin DOMAIN delivered[t]
          <6>1. delivered'[j][k] = m /\ delivered'[j][n] = delivered[t][n]
            BY <2>8, <3>1, <4>2, <5>3
          <6> QED
            BY <2>12, <5>3, <6>1
        <5> QED
          BY <2>8, <3>1, <4>2, <5>1, <5>2, <5>3
      <4> QED
        BY <4>1, <4>2
    <3> QED
      BY <3>1 DEF Single
  <2> QED
    BY <2>7, <2>9, <2>13 DEF PortionsOK
<1>7. CASE UNCHANGED delivered
  <2>1. Single' /\ Typed'
    BY <1>1, <1>2, <1>7 DEF Single, Typed, HasRoot
  <2>2. CASE torn' = torn \cup Pieces(p, lines) /\ failed' = failed
    <3>1. Content(<<"torn", 0>>)' = Content(<<"torn", 0>>) \cup Pieces(p, lines)
      BY <2>2, Contents, ContentsNext
    <3>2. \A z \in Place : z # <<"torn", 0>> /\ z \notin {"held"} \X Session
                             => Content(z)' = Content(z)
      BY <1>2, <1>5, <1>7, <2>2, Contents, ContentsNext
    <3>3. Written' = Written \cup Pieces(p, lines)
      BY <1>7, <2>2, WrittenIs, WrittenNext
    <3>4. Parted' /\ Fresh' /\ deleted' = Cardinality(RootsWritten')
      BY <1>1, <1>2, <1>3, <1>4, <3>1, <3>2, <3>3, Places, PortionWritten
    <3> QED
      BY <2>1, <3>4 DEF PortionsOK
  <2>3. CASE failed' = failed \cup Pieces(p, lines) /\ torn' = torn
    <3>1. Content(<<"failed", 0>>)' = Content(<<"failed", 0>>) \cup Pieces(p, lines)
      BY <2>3, Contents, ContentsNext
    <3>2. \A z \in Place : z # <<"failed", 0>> /\ z \notin {"held"} \X Session
                             => Content(z)' = Content(z)
      BY <1>2, <1>5, <1>7, <2>3, Contents, ContentsNext
    <3>3. Written' = Written \cup Pieces(p, lines)
      BY <1>7, <2>3, WrittenIs, WrittenNext
    <3>4. Parted' /\ Fresh' /\ deleted' = Cardinality(RootsWritten')
      BY <1>1, <1>2, <1>3, <1>4, <3>1, <3>2, <3>3, Places, PortionWritten
    <3> QED
      BY <2>1, <3>4 DEF PortionsOK
  <2>4. CASE Shown(t, p, lines)
    BY <1>6, <2>4
  <2> QED
    BY <1>2, <2>2, <2>3, <2>4
<1> QED
  BY <1>2, <1>6, <1>7

LEMMA NextPortions == Types /\ Attached /\ PortionsOK /\ [Next]_vars => PortionsOK'
<1> SUFFICES ASSUME Types, Attached, PortionsOK, [Next]_vars PROVE PortionsOK'
  OBVIOUS
<1>1. OutOK /\ consumed \in Nat
  BY DEF Types, TermOK
<1>2. CASE Quiet
  BY <1>1, <1>2, PortionsStay DEF Quiet
<1>3. ASSUME NEW i \in Session, Attach(i) PROVE PortionsOK'
  BY <1>1, <1>3, AttachIs, PortionsStay
<1>4. ASSUME NEW i \in Session, StartGoroutines(i) PROVE PortionsOK'
  <2>1. UNCHANGED portionVars /\ main[i].pc = "init"
    BY <1>4, GoroutinesIs
  <2>2. out[i].pc = "none"
    BY <2>1 DEF Attached, Early
  <2>3. /\ \A j \in Session : j # i => out'[j] = out[j]
        /\ out'[i].pc = "read" /\ out'[i].portion = 0 /\ out'[i].lines = {}
    BY <1>4, StartIs
  <2>4. ~Holds(i) /\ ~Holds(i)'
    BY <2>2, <2>3 DEF Holds
  <2> QED
    BY <1>1, <2>1, <2>3, <2>4, PortionsStay
<1>5. ASSUME NEW i \in Session, ReadSlaveFails(i) \/ SendOutputError(i) PROVE PortionsOK'
  <2>1. /\ UNCHANGED portionVars /\ out[i].pc \in {"read", "send"}
        /\ Steps(i, {"send", "done"})
    BY <1>1, <1>5, StopsIs DEF portionVars, portions, slaveVars
  <2>2. \A j \in Session : \/ out'[j] = out[j]
                           \/ /\ Holds(j)' <=> Holds(j)
                              /\ out'[j].portion = out[j].portion /\ out'[j].lines = out[j].lines
    BY <2>1 DEF Steps, Holds
  <2> QED
    BY <1>1, <2>1, <2>2, PortionsStay
<1>6. ASSUME NEW i \in Session, BeginMasterWrite(i) PROVE PortionsOK'
  <2>1. UNCHANGED portionVars /\ out[i].pc = "begin" /\ Steps(i, {"writing"})
    BY <1>1, <1>6, BeginsIs DEF portionVars, portions, slaveVars
  <2>2. \A j \in Session : \/ out'[j] = out[j]
                           \/ /\ Holds(j)' <=> Holds(j)
                              /\ out'[j].portion = out[j].portion /\ out'[j].lines = out[j].lines
    BY <2>1 DEF Steps, Holds
  <2> QED
    BY <1>1, <2>1, <2>2, PortionsStay
<1> QED
  BY <1>2, <1>3, <1>4, <1>5, <1>6, QuietSteps, ReadPortions, WritePortions
     DEF Next, RunStep, Copying


-----------------------------------------------------------------------------
(* What the only browser is shown, d, of the portions s, when c have been  *)
(* read, the pieces q have been torn, and o is the goroutine that copies.  *)

Lost(s, q, a, b) == \A p \in a..b : {p} \X DOMAIN s[p] \subseteq q

Final(d) == d[Len(d)].portion

ComesAfter(s, q, m, n) ==
  /\ m.portion < n.portion /\ n.lines = DOMAIN s[n.portion]
  /\ Lost(s, q, m.portion + 1, n.portion - 1)

Permitted(s, p, n) ==
  \/ "ora" \in s[p][n]
  \/ \E k \in 1..p : \E m \in DOMAIN s[k] : "start" \in s[k][m] /\ (k < p \/ m <= n)

Hands(o) == o.pc \in {"begin", "writing"}
Live(o) == o.pc = "read" \/ Hands(o)

(* In order: the next message is the portion in the goroutine's hands, or  *)
(* the one that it reads next, and nothing has been shown while the gate   *)
(* is closed.                                                              *)
OrderedBy(s, c, q, d, o) ==
  /\ \A n \in 2..Len(d) : ComesAfter(s, q, d[n - 1], d[n])
  /\ o.pc = "none" => d = <<>>
  /\ o.pc = "read" /\ d # <<>> => Final(d) <= c /\ Lost(s, q, Final(d) + 1, c)
  /\ Hands(o) => o.portion = c
  /\ Hands(o) /\ d # <<>> =>
       o.lines = DOMAIN s[c] /\ Final(d) < c /\ Lost(s, q, Final(d) + 1, c - 1)
  /\ Live(o) /\ ~o.open => d = <<>>
  /\ Hands(o) /\ ~o.open => o.last

(* At the gate: an open one has seen the line with StartFlag.              *)
StartRead(s, c) == \E k \in 1..c : \E m \in DOMAIN s[k] : "start" \in s[k][m]

GatedBy(s, c, d, o) ==
  o.gated => /\ \A x \in PiecesOf(d) : Permitted(s, x[1], x[2])
             /\ Hands(o) => \A n \in o.lines : Permitted(s, o.portion, n)
             /\ Live(o) /\ o.open => StartRead(s, c)

FlowBy(s, c, q, d, o) == OrderedBy(s, c, q, d, o) /\ GatedBy(s, c, d, o)

LEMMA FinalType ==
  ASSUME NEW d \in Seq(Messages), d # <<>>
  PROVE  Final(d) \in Nat
<1>1. Len(d) \in 1..Len(d) /\ \A n \in 1..Len(d) : d[n] \in Messages
  OBVIOUS
<1>2. d[Len(d)] \in Messages
  BY <1>1
<1> QED
  BY <1>2 DEF Final, Messages

LEMMA FlowEmpty ==
  ASSUME NEW s, NEW c, NEW q, NEW o, o.pc = "none"
  PROVE  FlowBy(s, c, q, <<>>, o)
<1>1. PiecesOf(<<>>) = {}
  BY DEF PiecesOf
<1>2. ~Hands(o) /\ ~Live(o)
  BY DEF Hands, Live
<1>3. OrderedBy(s, c, q, <<>>, o)
  BY <1>2 DEF OrderedBy
<1>4. GatedBy(s, c, <<>>, o)
  BY <1>1, <1>2 DEF GatedBy
<1> QED
  BY <1>3, <1>4 DEF FlowBy

LEMMA FlowStarts ==
  ASSUME NEW s, NEW c, NEW q, NEW d, NEW o, NEW r, FlowBy(s, c, q, d, o),
         o.pc = "none", r.pc = "read", r.gated => ~r.open
  PROVE  FlowBy(s, c, q, d, r)
<1>1. d = <<>>
  BY DEF FlowBy, OrderedBy
<1>2. ~Hands(r) /\ PiecesOf(<<>>) = {}
  BY DEF Hands, PiecesOf
<1>3. OrderedBy(s, c, q, d, r)
  BY <1>1, <1>2 DEF FlowBy, OrderedBy
<1>4. GatedBy(s, c, d, r)
  BY <1>1, <1>2 DEF GatedBy
<1> QED
  BY <1>3, <1>4 DEF FlowBy

LEMMA FlowReads ==
  ASSUME NEW s, NEW c \in Nat, NEW q, NEW d \in Seq(Messages), NEW o, NEW r,
         FlowBy(s, c, q, d, o), o.pc = "read", r.pc = "begin", r.portion = c + 1, r.gated = o.gated,
         DOMAIN s[c + 1] \subseteq Nat, o.open \in BOOLEAN, r.open \in BOOLEAN,
         \/ o.open /\ r.lines = DOMAIN s[c + 1] /\ r.open
         \/ ~o.open /\ ~r.open /\ r.last /\ \A n \in r.lines : "ora" \in s[c + 1][n]
         \/ /\ ~o.open /\ r.open /\ r.lines = {Len(s[c + 1])}
            /\ Len(s[c + 1]) \in DOMAIN s[c + 1]
            /\ \E n \in DOMAIN s[c + 1] : "start" \in s[c + 1][n] /\ n <= Len(s[c + 1])
  PROVE  FlowBy(s, c + 1, q, d, r)
<1>1. /\ Hands(r) /\ Live(r) /\ Live(o) /\ r.pc # "none" /\ r.pc # "read"
      /\ (c + 1) - 1 = c /\ \A a \in Nat : a <= c => a < c + 1
  BY DEF Hands, Live
<1>2. ~o.open => d = <<>>
  BY <1>1 DEF FlowBy, OrderedBy
<1>3. /\ d # <<>> => Final(d) <= c /\ Lost(s, q, Final(d) + 1, c)
      /\ \A n \in 2..Len(d) : ComesAfter(s, q, d[n - 1], d[n])
  BY DEF FlowBy, OrderedBy
<1>4. OrderedBy(s, c + 1, q, d, r)
  <2>1. d # <<>> => r.lines = DOMAIN s[c + 1] /\ Final(d) < c + 1
                      /\ Lost(s, q, Final(d) + 1, (c + 1) - 1)
    BY <1>1, <1>2, <1>3, FinalType
  <2>2. ~r.open => r.last /\ d = <<>>
    BY <1>2
  <2> QED
    BY <1>1, <1>3, <2>1, <2>2 DEF OrderedBy
<1>5. ASSUME r.gated
      PROVE  /\ \A x \in PiecesOf(d) : Permitted(s, x[1], x[2])
             /\ \A n \in r.lines : Permitted(s, r.portion, n)
             /\ r.open => StartRead(s, c + 1)
  <2>1. /\ \A x \in PiecesOf(d) : Permitted(s, x[1], x[2])
        /\ o.open => StartRead(s, c)
    BY <1>1, <1>5 DEF FlowBy, GatedBy
  <2>2. c + 1 \in 1..(c + 1) /\ \A k \in 1..c : k \in 1..(c + 1) /\ k < c + 1
    OBVIOUS
  <2>3. CASE o.open
    <3>1. PICK k \in 1..c : \E m \in DOMAIN s[k] : "start" \in s[k][m]
      BY <2>1, <2>3 DEF StartRead
    <3>2. StartRead(s, c + 1)
      BY <2>2, <3>1 DEF StartRead
    <3>3. \A n : Permitted(s, c + 1, n)
      BY <2>2, <3>1 DEF Permitted
    <3> QED
      BY <2>1, <3>2, <3>3
  <2>4. CASE ~o.open /\ ~r.open
    <3>1. \A n \in r.lines : Permitted(s, c + 1, n)
      BY <2>4 DEF Permitted
    <3> QED
      BY <2>1, <2>4, <3>1
  <2>5. CASE ~o.open /\ r.open
    <3>1. PICK n \in DOMAIN s[c + 1] : "start" \in s[c + 1][n] /\ n <= Len(s[c + 1])
      BY <2>5
    <3>2. StartRead(s, c + 1)
      BY <2>2, <3>1 DEF StartRead
    <3>3. r.lines = {Len(s[c + 1])}
      BY <2>5
    <3>4. Permitted(s, c + 1, Len(s[c + 1]))
      BY <2>2, <3>1 DEF Permitted
    <3> QED
      BY <2>1, <3>2, <3>3, <3>4
  <2> QED
    BY <2>3, <2>4, <2>5
<1>6. GatedBy(s, c + 1, d, r)
  BY <1>5 DEF GatedBy
<1> QED
  BY <1>4, <1>6 DEF FlowBy

LEMMA FlowWithholds ==
  ASSUME NEW s, NEW c \in Nat, NEW q, NEW d, NEW o, FlowBy(s, c, q, d, o),
         o.pc = "read", ~o.open
  PROVE  FlowBy(s, c + 1, q, d, o)
<1>1. ~Hands(o) /\ Live(o)
  BY DEF Hands, Live
<1>2. d = <<>>
  BY <1>1 DEF FlowBy, OrderedBy
<1>3. OrderedBy(s, c + 1, q, d, o)
  BY <1>1, <1>2 DEF FlowBy, OrderedBy
<1>4. GatedBy(s, c + 1, d, o)
  BY <1>1 DEF FlowBy, GatedBy
<1> QED
  BY <1>3, <1>4 DEF FlowBy

LEMMA FlowSteps ==
  ASSUME NEW s, NEW c, NEW q, NEW d, NEW o, NEW r, FlowBy(s, c, q, d, o),
         r.pc \in {"begin", "writing", "send", "done"}, Hands(r) => Hands(o),
         r.portion = o.portion, r.lines = o.lines, r.gated = o.gated, r.open = o.open,
         r.last = o.last
  PROVE  FlowBy(s, c, q, d, r)
<1>1. /\ r.pc # "none" /\ r.pc # "read" /\ (Live(r) => Hands(r)) /\ (Hands(o) => Live(o))
  BY DEF Live
<1>2. OrderedBy(s, c, q, d, r)
  BY <1>1 DEF FlowBy, OrderedBy
<1>3. GatedBy(s, c, d, r)
  BY <1>1 DEF FlowBy, GatedBy
<1> QED
  BY <1>2, <1>3 DEF FlowBy

LEMMA FlowWrites ==
  ASSUME NEW s, NEW c \in Nat, NEW q, NEW d \in Seq(Messages), NEW o, NEW r, NEW m \in Messages,
         FlowBy(s, c, q, d, o), Hands(o), r.pc \in {"read", "send"}, r.pc = "read" => ~o.last,
         r.gated = o.gated, r.open = o.open, m.portion = o.portion, m.lines = o.lines
  PROVE  FlowBy(s, c, q, Append(d, m), r)
<1> PICK e : e = Append(d, m)
  OBVIOUS
<1> PICK k : k = Len(d)
  OBVIOUS
<1>1. /\ PiecesOf(e) = PiecesOf(d) \cup Pieces(m.portion, m.lines)
      /\ k \in Nat /\ Len(e) = k + 1 /\ e[k + 1] = m /\ \A n \in 1..k : e[n] = d[n]
  BY PiecesAppend
<1>2. /\ ~Hands(r) /\ Live(o) /\ r.pc # "none" /\ (Live(r) => r.pc = "read")
      /\ m.portion = c
  BY DEF Hands, Live, FlowBy, OrderedBy
<1>3. e # <<>> /\ Final(e) = c
  <2>1. e # <<>>
    BY <1>1
  <2> QED
    BY <1>1, <1>2, <2>1 DEF Final
<1>4. o.open \/ r.pc # "read"
  BY DEF FlowBy, OrderedBy
<1>5. ASSUME NEW n \in 2..Len(e) PROVE ComesAfter(s, q, e[n - 1], e[n])
  <2>1. CASE n \in 2..k
    <3>1. e[n] = d[n] /\ e[n - 1] = d[n - 1]
      BY <1>1, <2>1
    <3> QED
      BY <2>1, <3>1 DEF FlowBy, OrderedBy
  <2>2. CASE n = k + 1
    <3>1. /\ e[n] = m /\ e[n - 1] = d[k] /\ k >= 2 - 1
      <4>1. n - 1 = k /\ k \in 1..k
        BY <1>1, <2>2
      <4> QED
        BY <1>1, <2>2, <4>1
    <3>2. d # <<>>
      BY <1>1, <3>1
    <3>3. Final(d) = d[k].portion
      BY DEF Final
    <3>4. o.lines = DOMAIN s[c] /\ Final(d) < c /\ Lost(s, q, Final(d) + 1, c - 1)
      BY <3>2 DEF FlowBy, OrderedBy
    <3> QED
      BY <1>2, <3>1, <3>3, <3>4 DEF ComesAfter
  <2> QED
    BY <1>1, <2>1, <2>2
<1>6. Lost(s, q, c + 1, c)
  BY DEF Lost
<1>7. OrderedBy(s, c, q, e, r)
  BY <1>2, <1>3, <1>4, <1>5, <1>6 DEF OrderedBy
<1>8. GatedBy(s, c, e, r)
  <2>1. ASSUME r.gated, NEW x \in PiecesOf(e) PROVE Permitted(s, x[1], x[2])
    <3>1. CASE x \in PiecesOf(d)
      BY <2>1, <3>1 DEF FlowBy, GatedBy
    <3>2. CASE x \in Pieces(m.portion, m.lines)
      <4>1. x[1] = o.portion /\ x[2] \in o.lines
        BY <3>2, PieceIs
      <4> QED
        BY <2>1, <4>1 DEF FlowBy, GatedBy
    <3> QED
      BY <1>1, <2>1, <3>1, <3>2
  <2>2. r.gated /\ r.open => StartRead(s, c)
    BY <1>2 DEF FlowBy, GatedBy
  <2> QED
    BY <1>2, <2>1, <2>2 DEF GatedBy
<1> QED
  BY <1>7, <1>8 DEF FlowBy

LEMMA FlowTears ==
  ASSUME NEW s, NEW c \in Nat, NEW q, NEW d \in Seq(Messages), NEW o, NEW r,
         FlowBy(s, c, q, d, o), Hands(o), r.pc \in {"read", "send"}, r.pc = "read" => ~o.last,
         r.gated = o.gated, r.open = o.open
  PROVE  FlowBy(s, c, q \cup Pieces(o.portion, o.lines), d, r)
<1> PICK t : t = q \cup Pieces(o.portion, o.lines)
  OBVIOUS
<1>1. \A a, b : Lost(s, q, a, b) => Lost(s, t, a, b)
  BY DEF Lost
<1>2. /\ ~Hands(r) /\ Live(o) /\ r.pc # "none" /\ (Live(r) => r.pc = "read")
      /\ o.portion = c
  BY DEF Hands, Live, FlowBy, OrderedBy
<1>3. o.open \/ r.pc # "read"
  BY DEF FlowBy, OrderedBy
<1>4. \A n \in 2..Len(d) : ComesAfter(s, t, d[n - 1], d[n])
  BY <1>1 DEF FlowBy, OrderedBy, ComesAfter
<1>5. ASSUME d # <<>> PROVE Final(d) <= c /\ Lost(s, t, Final(d) + 1, c)
  <2>1. o.lines = DOMAIN s[c] /\ Final(d) < c /\ Lost(s, q, Final(d) + 1, c - 1)
    BY <1>5 DEF FlowBy, OrderedBy
  <2>2. Final(d) \in Nat
    BY <1>5, FinalType
  <2>3. ASSUME NEW p \in (Final(d) + 1)..c PROVE {p} \X DOMAIN s[p] \subseteq t
    <3>1. CASE p = c
      BY <1>2, <2>1, <3>1 DEF Pieces
    <3>2. CASE p # c
      <4>1. p \in (Final(d) + 1)..(c - 1)
        BY <2>2, <3>2
      <4> QED
        BY <2>1, <4>1 DEF Lost
    <3> QED
      BY <3>1, <3>2
  <2> QED
    BY <2>1, <2>2, <2>3 DEF Lost
<1>6. OrderedBy(s, c, t, d, r)
  BY <1>2, <1>3, <1>4, <1>5 DEF OrderedBy
<1>7. GatedBy(s, c, d, r)
  BY <1>2 DEF FlowBy, GatedBy
<1> QED
  BY <1>6, <1>7 DEF FlowBy

FlowOf(i) == FlowBy(output, consumed, torn, delivered[i], out[i])

Flow == Alone => \A i \in Session : FlowOf(i)

LEMMA FlowNext ==
  ASSUME NEW i \in Session, output' = output,
         FlowBy(output, consumed', torn', delivered'[i], out'[i])
  PROVE  FlowOf(i)'
BY DEF FlowOf, FlowBy, OrderedBy, GatedBy, ComesAfter, Lost, Permitted, StartRead

(* Only one Run has a goroutine that steps, and shows messages, if only    *)
(* one browser has come.                                                   *)
LEMMA FlowOne ==
  ASSUME Attached, Flow, Keeps, output' = output, NEW i \in Session, main[i].pc # "none",
         \A j \in Session : j # i => out'[j] = out[j] /\ delivered'[j] = delivered[j],
         Alone /\ FlowOf(i) => FlowBy(output, consumed', torn', delivered'[i], out'[i])
  PROVE  Flow'
<1> SUFFICES ASSUME Alone', NEW j \in Session PROVE FlowOf(j)'
  BY DEF Flow
<1>1. Alone
  BY DEF Alone, Keeps
<1>2. CASE j = i
  BY <1>1, <1>2, FlowNext DEF Flow
<1>3. CASE j # i
  <2>1. i = 1
    BY <1>1 DEF Alone, Session
  <2>2. main[j].pc = "none"
    BY <1>1, <1>3, <2>1 DEF Alone, Session
  <2>3. out[j].pc = "none" /\ delivered[j] = <<>>
    BY <2>2 DEF Attached, Early
  <2>4. FlowBy(output, consumed', torn', delivered'[j], out'[j])
    BY <1>3, <2>3, FlowEmpty
  <2> QED
    BY <2>4, FlowNext
<1> QED
  BY <1>2, <1>3

LEMMA InitFlow == Init => Flow
<1> SUFFICES ASSUME Init, NEW i \in Session PROVE FlowOf(i)
  BY DEF Flow
<1>1. delivered[i] = <<>> /\ out[i].pc = "none"
  BY DEF Init, NoOut
<1> QED
  BY <1>1, FlowEmpty DEF FlowOf

LEMMA NextFlow == Types /\ Attached /\ Flow /\ [Next]_vars => Flow'
<1> SUFFICES ASSUME Types, Attached, Flow, [Next]_vars PROVE Flow'
  OBVIOUS
<1>1. /\ OutOK /\ consumed \in Nat /\ out \in [Session -> Outs]
      /\ delivered \in [Session -> Seq(Messages)]
      /\ \A i \in Session : /\ delivered[i] \in Seq(Messages) /\ out[i] \in Outs
                            /\ out[i].open \in BOOLEAN /\ out[i].portion \in Nat
                            /\ out[i].lines \in SUBSET Nat
  BY DEF Types, TermOK, OutOK, Outs
<1>2. ASSUME NEW i \in Session, out[i].pc # "none" PROVE main[i].pc # "none"
  BY <1>2 DEF Attached, Early
<1>3. CASE Quiet
  <2>1. Alone' => Alone
    BY <1>3 DEF Quiet, Keeps, Alone
  <2>2. output' = output /\ consumed' = consumed /\ torn' = torn /\ delivered' = delivered
        /\ out' = out
    BY <1>3 DEF Quiet, portionVars
  <2> QED
    BY <2>1, <2>2, FlowNext DEF Flow, FlowOf
<1>4. ASSUME NEW i \in Session, Attach(i) PROVE Flow'
  <2>1. /\ output' = output /\ consumed' = consumed /\ torn' = torn /\ delivered' = delivered
        /\ out' = out
        /\ main'[i].pc = "init" /\ \A j \in Session : j # i => main'[j].pc = main[j].pc
    BY <1>4, AttachIs DEF portionVars
  <2>2. Alone' => Alone
    BY <2>1 DEF Alone
  <2> QED
    BY <2>1, <2>2, FlowNext DEF Flow, FlowOf
<1>5. ASSUME NEW i \in Session, StartGoroutines(i) PROVE Flow'
  <2>1. /\ Keeps /\ main[i].pc # "none" /\ main[i].pc \in Early
        /\ output' = output /\ consumed' = consumed /\ torn' = torn /\ delivered' = delivered
    BY <1>5, GoroutinesIs DEF portionVars, Early
  <2>2. out[i].pc = "none"
    BY <2>1 DEF Attached
  <2>3. /\ \A j \in Session : j # i => out'[j] = out[j]
        /\ out'[i].pc = "read" /\ (out'[i].gated => ~out'[i].open)
    BY <1>5, StartIs
  <2>4. FlowOf(i) => FlowBy(output, consumed', torn', delivered'[i], out'[i])
    BY <2>1, <2>2, <2>3, FlowStarts DEF FlowOf
  <2> QED
    BY <2>1, <2>3, <2>4, FlowOne
<1>6. ASSUME NEW i \in Session, NEW c \in {"begin", "writing", "send", "done"}, Steps(i, {c}),
             c \in {"begin", "writing"} => Hands(out[i]), out[i].pc # "none", main' = main,
             UNCHANGED <<output, consumed, torn, delivered>>
      PROVE  Flow'
  <2>1. /\ \A j \in Session : j # i => out'[j] = out[j]
        /\ out'[i].pc = c /\ out'[i].portion = out[i].portion /\ out'[i].lines = out[i].lines
        /\ out'[i].gated = out[i].gated /\ out'[i].open = out[i].open
        /\ out'[i].last = out[i].last
    BY <1>6 DEF Steps
  <2>2. FlowOf(i) => FlowBy(output, consumed', torn', delivered'[i], out'[i])
    <3>1. Hands(out'[i]) => Hands(out[i])
      BY <1>6, <2>1 DEF Hands
    <3> QED
      BY <1>6, <2>1, <3>1, FlowSteps DEF FlowOf
  <2>3. Keeps
    BY <1>6 DEF Keeps
  <2> QED
    BY <1>2, <1>6, <2>1, <2>2, <2>3, FlowOne
<1>7. ASSUME NEW i \in Session, ReadSlaveFails(i) \/ SendOutputError(i) PROVE Flow'
  <2>1. /\ out[i].pc # "none" /\ Steps(i, {"send", "done"}) /\ main' = main
        /\ UNCHANGED <<output, consumed, torn, delivered>>
    BY <1>1, <1>7, StopsIs DEF slaveVars, portions
  <2>2. Steps(i, {"send"}) \/ Steps(i, {"done"})
    BY <2>1 DEF Steps
  <2> QED
    BY <1>6, <2>1, <2>2
<1>8. ASSUME NEW i \in Session, BeginMasterWrite(i) PROVE Flow'
  <2>1. /\ out[i].pc = "begin" /\ Steps(i, {"writing"}) /\ main' = main
        /\ UNCHANGED <<output, consumed, torn, delivered>>
    BY <1>1, <1>8, BeginsIs DEF slaveVars, portions
  <2>2. Hands(out[i]) /\ out[i].pc # "none"
    BY <2>1 DEF Hands
  <2> QED
    BY <1>6, <2>1, <2>2
<1>9. ASSUME NEW i \in Session, ReadSlave(i) PROVE Flow'
  <2> PICK p : p = consumed + 1
    OBVIOUS
  <2>1. /\ out[i].pc = "read" /\ consumed < produced /\ consumed' = p
        /\ output' = output /\ torn' = torn /\ delivered' = delivered /\ main' = main
        /\ \/ \E lines \in SUBSET Lines(p), open, last \in BOOLEAN :
                ReadAs(i, p, lines, open, last)
           \/ ~out[i].open /\ Withhold(p)
    BY <1>9, ReadSlaveIs DEF slaveVars, runVars
  <2>2. Keeps /\ main[i].pc # "none"
    BY <1>2, <2>1 DEF Keeps
  <2>3. DOMAIN output[p] = 1..Len(output[p]) /\ DOMAIN output[p] \subseteq Nat
        /\ Lines(p) = DOMAIN output[p]
    BY <2>1, NextPortion DEF Types, Lines
  <2>4. ASSUME NEW lines \in SUBSET Lines(p), NEW open \in BOOLEAN, NEW last \in BOOLEAN,
               ReadAs(i, p, lines, open, last)
        PROVE  Flow'
    <3>1. /\ \A j \in Session : j # i => out'[j] = out[j]
          /\ out'[i].pc = "begin" /\ out'[i].portion = p /\ out'[i].lines = lines
          /\ out'[i].gated = out[i].gated /\ out'[i].open = open /\ out'[i].last = last
      BY <2>4 DEF ReadAs, Passed
    <3>2. \/ out[i].open /\ lines = Lines(p) /\ open
          \/ ~out[i].open /\ ~open /\ last /\ \A n \in lines : "ora" \in output[p][n]
          \/ ~out[i].open /\ open /\ lines = {Len(output[p])} /\ Started(p)
      BY <2>4 DEF ReadAs
    <3>3. Started(p) => /\ Len(output[p]) \in DOMAIN output[p]
                        /\ \E n \in DOMAIN output[p] :
                             "start" \in output[p][n] /\ n <= Len(output[p])
      BY <2>3 DEF Started
    <3>4. FlowOf(i) => FlowBy(output, p, torn, delivered[i], out'[i])
      <4> SUFFICES ASSUME FlowOf(i) PROVE FlowBy(output, consumed + 1, torn, delivered[i], out'[i])
        OBVIOUS
      <4> PICK r : r = out'[i]
        OBVIOUS
      <4> PICK o : o = out[i]
        OBVIOUS
      <4>1. FlowBy(output, consumed, torn, delivered[i], o) /\ delivered[i] \in Seq(Messages)
        BY <1>1 DEF FlowOf
      <4>2. o.open \in BOOLEAN /\ r.open \in BOOLEAN /\ o.pc = "read" /\ consumed \in Nat
        BY <1>1, <2>1, <3>1
      <4>3. \/ o.open /\ r.lines = DOMAIN output[consumed + 1] /\ r.open
            \/ /\ ~o.open /\ ~r.open /\ r.last
               /\ \A n \in r.lines : "ora" \in output[consumed + 1][n]
            \/ /\ ~o.open /\ r.open /\ r.lines = {Len(output[consumed + 1])}
               /\ Len(output[consumed + 1]) \in DOMAIN output[consumed + 1]
               /\ \E n \in DOMAIN output[consumed + 1] :
                    "start" \in output[consumed + 1][n] /\ n <= Len(output[consumed + 1])
        BY <2>3, <3>1, <3>2, <3>3
      <4>4. r.pc = "begin" /\ r.portion = consumed + 1 /\ r.gated = o.gated
            /\ DOMAIN output[consumed + 1] \subseteq Nat
        BY <2>3, <3>1
      <4> QED
        BY <4>1, <4>2, <4>3, <4>4, FlowReads
    <3> QED
      BY <2>1, <2>2, <3>1, <3>4, FlowOne
  <2>5. CASE ~out[i].open /\ Withhold(p)
    <3>1. out' = out
      BY <2>5 DEF Withhold
    <3>2. FlowOf(i) => FlowBy(output, p, torn, delivered[i], out[i])
      BY <1>1, <2>1, <2>5, FlowWithholds DEF FlowOf
    <3> QED
      BY <2>1, <2>2, <3>1, <3>2, FlowOne
  <2> QED
    BY <2>1, <2>4, <2>5
<1>10. ASSUME NEW i \in Session, WriteMaster(i) \/ WriteMasterFails(i) PROVE Flow'
  <2> PICK t : t = writing[<<"out", i>>]
    OBVIOUS
  <2> PICK o : o = out[i]
    OBVIOUS
  <2> PICK r : r = out'[i]
    OBVIOUS
  <2>1. /\ o.pc = "writing" /\ o \in Outs
        /\ output' = output /\ consumed' = consumed /\ main' = main
        /\ Steps(i, {"read", "send"})
        /\ \/ Shown(t, o.portion, o.lines) /\ (r.pc = "read" => ~o.last)
           \/ /\ torn' = torn \cup Pieces(o.portion, o.lines) /\ delivered' = delivered
              /\ r.pc = "read" => ~o.last
           \/ torn' = torn /\ delivered' = delivered /\ r.pc = "send"
    BY <1>1, <1>10, WritesIs DEF slaveVars
  <2>2. /\ \A j \in Session : j # i => out'[j] = out[j]
        /\ r.pc \in {"read", "send"} /\ r.portion = o.portion /\ r.lines = o.lines
        /\ r.gated = o.gated /\ r.open = o.open /\ r.last = o.last
    BY <2>1 DEF Steps
  <2>3. /\ Keeps /\ main[i].pc # "none" /\ Hands(o)
        /\ t \in Session /\ main[t].pc # "none"
    BY <1>2, <2>1 DEF Keeps, Hands, Attached
  <2>4. CASE Shown(t, o.portion, o.lines) /\ (r.pc = "read" => ~o.last)
    <3> PICK m : m = Message(o.portion, o.lines)
      OBVIOUS
    <3>1. m \in Messages /\ m.portion = o.portion /\ m.lines = o.lines
      BY <1>1, MessageTypes
    <3>2. torn' = torn /\ delivered' = [delivered EXCEPT ![t] = Append(delivered[t], m)]
      BY <2>4 DEF Shown
    <3>3. Alone => t = i
      BY <2>3 DEF Alone, Session
    <3>4. ASSUME Alone, FlowOf(i) PROVE FlowBy(output, consumed, torn, delivered'[i], r)
      <4> PICK d \in Seq(Messages) : d = delivered[i]
        BY <1>1
      <4>1. delivered'[i] = Append(d, m)
        <5> PICK longer : longer = Append(d, m)
          OBVIOUS
        <5>1. delivered' = [delivered EXCEPT ![i] = longer]
          BY <3>2, <3>3, <3>4
        <5> QED
          BY <1>1, <5>1
      <4>2. FlowBy(output, consumed, torn, d, o) /\ consumed \in Nat
        BY <1>1, <3>4 DEF FlowOf
      <4>3. FlowBy(output, consumed, torn, Append(d, m), r)
        BY <2>2, <2>3, <2>4, <3>1, <4>2, FlowWrites
      <4> QED
        BY <4>1, <4>3
    <3>5. ASSUME Alone, NEW j \in Session, j # i PROVE delivered'[j] = delivered[j]
      <4> PICK longer : longer = Append(delivered[t], m)
        OBVIOUS
      <4> QED
        BY <1>1, <3>2, <3>3, <3>5
    <3>6. Alone' => Alone
      BY <2>3 DEF Alone, Keeps
    <3> QED
      <4>1. CASE Alone
        BY <2>1, <2>2, <2>3, <3>2, <3>4, <3>5, <4>1, FlowOne
      <4>2. CASE ~Alone
        BY <3>6, <4>2 DEF Flow
      <4> QED
        BY <4>1, <4>2
  <2>5. CASE /\ torn' = torn \cup Pieces(o.portion, o.lines) /\ delivered' = delivered
             /\ r.pc = "read" => ~o.last
    <3>1. ASSUME FlowOf(i)
          PROVE  FlowBy(output, consumed, torn \cup Pieces(o.portion, o.lines), delivered[i], r)
      BY <1>1, <2>2, <2>3, <2>5, <3>1, FlowTears DEF FlowOf
    <3> QED
      BY <2>1, <2>2, <2>3, <2>5, <3>1, FlowOne
  <2>6. CASE torn' = torn /\ delivered' = delivered /\ r.pc = "send"
    <3>1. Steps(i, {"send"})
      BY <2>1, <2>6 DEF Steps
    <3> QED
      BY <1>6, <2>1, <2>6, <3>1
  <2> QED
    BY <2>1, <2>4, <2>5, <2>6
<1> QED
  BY <1>3, <1>4, <1>5, <1>7, <1>8, <1>9, <1>10, QuietSteps DEF Next, RunStep, Copying

-----------------------------------------------------------------------------
BridgeInv == Types /\ Attached /\ PortionsOK /\ Flow

LEMMA InitBridge == Init => BridgeInv
BY InitTypes, InitAttached, InitPortions, InitFlow DEF BridgeInv

LEMMA NextBridge == BridgeInv /\ [Next]_vars => BridgeInv'
BY NextTypes, NextAttached, NextPortions, NextFlow DEF BridgeInv

LEMMA BridgeTypes == BridgeInv => TypeOK
<1> SUFFICES ASSUME BridgeInv PROVE TypeOK
  OBVIOUS
<1> PICK len : len = Len(output)
  OBVIOUS
<1>1. /\ TermOK /\ RunOK /\ SocketOK /\ InOK /\ OutOK /\ Parted /\ Fresh
      /\ deleted = Cardinality(RootsWritten)
  BY DEF BridgeInv, Types, PortionsOK
<1>2. /\ output \in Outputs /\ slaveOpen \in BOOLEAN
      /\ consumed \in Nat /\ produced \in Nat /\ consumed <= produced /\ produced <= len
      /\ len \in Nat
  BY <1>1 DEF TermOK
<1>3. produced \in 0..len /\ consumed \in 0..produced
  BY <1>2
<1>4. toSlave \in 0..MaxInput /\ inputs \in 0..MaxInput
  BY <1>1, BoundAssumption DEF InOK
<1>5. /\ master \in 0..Sessions
      /\ connOpen \in [Session -> BOOLEAN] /\ canceled \in [Session -> BOOLEAN]
      /\ main \in [Session -> [pc : {"none", "init", "writing", "select", "returned"},
                               left : 0..InitMessages, result : Result]]
      /\ \A i \in Session : Len(errs[i]) <= ErrsCap
      /\ in \in [Session -> [pc : {"none", "load", "read", "pong", "ponging", "send", "done"},
                             target : 0..Sessions, err : Result]]
      /\ writing \in [Writer -> 0..Sessions] /\ met \subseteq Writer /\ panicked \in BOOLEAN
  BY <1>1 DEF RunOK, InOK, SocketOK, Mains, Ins
<1>6. ASSUME NEW i \in Session
      PROVE  /\ out[i].pc \in {"none", "read", "begin", "writing", "send", "done"}
             /\ out[i].portion \in 0..consumed
             /\ Pieces(out[i].portion, out[i].lines) \subseteq PiecesTo(consumed)
             /\ {out[i].gated, out[i].open, out[i].last} \subseteq BOOLEAN
             /\ out[i].err \in Result
  <2>1. out[i] \in Outs
    BY <1>1 DEF OutOK
  <2>2. out[i].portion \in 0..consumed
    BY <1>1, <1>2, <2>1 DEF Outs, Fresh
  <2>3. Pieces(out[i].portion, out[i].lines) \subseteq PiecesTo(consumed)
    BY <1>1 DEF Fresh
  <2> QED
    BY <2>1, <2>2, <2>3 DEF Outs
<1>7. UNION {withheld, torn, failed} \subseteq PiecesTo(consumed)
  BY <1>1, PartedIs, Places, Contents
<1>8. deleted \in 0..consumed
  <2>1. Cardinality(RootsWritten) \in Nat /\ Cardinality(RootsWritten) <= consumed
    BY <1>1, <1>2, RootsFinite, FS_CardinalityType
  <2> QED
    BY <1>1, <1>2, <2>1
<1> QED
  BY <1>2, <1>3, <1>4, <1>5, <1>6, <1>7, <1>8 DEF TypeOK

LEMMA BridgeSafe == BridgeInv => Safe
<1> SUFFICES ASSUME BridgeInv PROVE Safe
  OBVIOUS
<1>1. EachPortionOnce
  BY DEF BridgeInv, PortionsOK, Parted, Single, EachPortionOnce
<1>2. Alone => \A i \in Session : FlowOf(i)
  BY DEF BridgeInv, Flow
<1>3. InOrder
  BY <1>2 DEF InOrder, Follows, FlowOf, FlowBy, OrderedBy, ComesAfter, Lost, Pieces, Lines
<1>4. GateHolds
  BY <1>2 DEF GateHolds, Begun, FlowOf, FlowBy, GatedBy, Permitted, Lines
<1>5. RootDeletes
  BY DEF BridgeInv, PortionsOK, Typed, RootDeletes
<1> QED
  BY <1>1, <1>3, <1>4, <1>5, BridgeTypes DEF Safe

(* Whatever number of browsers come and go while the slave produces its    *)
(* output, and whichever writes to a websocket overlap: every line that is *)
(* read is in one place, and shown at most once; a browser that is the     *)
(* only one gets whole portions in order, with a gap only where a message  *)
(* was torn, and no line that precedes StartFlag but a refusal of the      *)
(* database; and every portion with a root prompt that was written is one  *)
(* call of DelWebTTY, and is answered with the order to disconnect.  The   *)
(* code is masterWrite and the goroutines of Run, src/bbtty/webtty.go.     *)
THEOREM BridgeIsSafe == Spec => []Safe
<1>1. Init => BridgeInv
  BY InitBridge
<1>2. BridgeInv /\ [Next]_vars => BridgeInv'
  BY NextBridge
<1>3. BridgeInv => Safe
  BY BridgeSafe
<1> QED
  BY <1>1, <1>2, <1>3, PTL DEF Spec

=============================================================================
