---------------------------- MODULE TunnelProofs ----------------------------
(***************************************************************************)
(* Proofs about CountedLock, for every finite set of goroutines, and about *)
(* Tunnel, which uses one, for any configurations and any names guacd may  *)
(* ask for.                                                                *)
(***************************************************************************)
EXTENDS Tunnel, FiniteSetTheorems, SequenceTheorems, TLAPS

-----------------------------------------------------------------------------
(* CountedLock.                                                            *)

(* The inductive invariant: the mutex belongs to the goroutines past       *)
(* LockCore, at most one, and the counter is exact.                        *)
Sole == \A g, h \in core : g = h

IInv ==
  /\ TypeOK
  /\ core = {g \in Goroutine : pc[g] \in {"holds", "unlocks"}}
  /\ Sole
  /\ CountIsExact

(* The counted goroutines are finitely many.                               *)
LEMMA InsideFinite == IsFiniteSet(Inside)
<1>1. Inside \subseteq Goroutine
  BY DEF Inside
<1> QED
  BY <1>1, GoroutineAssumption, FS_Subset

(* A goroutine that moves between the counted places leaves Inside as it   *)
(* is, one that comes in adds itself, one that leaves removes itself.      *)
LEMMA InsideMoves ==
  ASSUME TypeOK, NEW g \in Goroutine, NEW l \in {"out", "waits", "holds", "unlocks"}, Goto(g, l)
  PROVE  Inside' = IF l \in {"waits", "holds"} THEN Inside \cup {g} ELSE Inside \ {g}
BY DEF Inside, Goto, TypeOK

(* The invariant holds initially.                                          *)
LEMMA InitInv == Init => IInv
<1> SUFFICES ASSUME Init PROVE IInv
  OBVIOUS
<1>1. Inside = {}
  BY DEF Init, Inside
<1>2. Cardinality(Inside) = 0
  BY <1>1, FS_EmptySet
<1> QED
  BY <1>2 DEF Init, IInv, TypeOK, Sole, CountIsExact

(* Each step of Lock and Unlock preserves the invariant.                   *)
LEMMA StepInv == IInv /\ [Next]_vars => IInv'
<1> SUFFICES ASSUME IInv, [Next]_vars PROVE IInv'
  OBVIOUS
<1> USE DEF IInv
<1>0. IsFiniteSet(Inside) /\ Cardinality(Inside) \in Nat
  BY InsideFinite, FS_CardinalityType
<1>1. ASSUME NEW g \in Goroutine, Lock(g) PROVE IInv'
  <2>1. Inside' = Inside \cup {g} /\ g \notin Inside
    BY <1>1, InsideMoves DEF Lock, Inside
  <2>2. Cardinality(Inside') = Cardinality(Inside) + 1
    BY <1>0, <2>1, FS_AddElement
  <2>3. TypeOK'
    BY <1>1 DEF Lock, Goto, TypeOK
  <2>4. core' = {h \in Goroutine : pc'[h] \in {"holds", "unlocks"}} /\ Sole'
    BY <1>1 DEF Lock, Goto, TypeOK, Sole
  <2> QED
    BY <1>1, <2>2, <2>3, <2>4 DEF Lock, CountIsExact
<1>2. ASSUME NEW g \in Goroutine, LockCore(g) PROVE IInv'
  <2>1. Inside' = Inside
    BY <1>2, InsideMoves DEF LockCore, Inside
  <2>2. TypeOK'
    BY <1>2 DEF LockCore, Goto, TypeOK
  <2>3. core' = {h \in Goroutine : pc'[h] \in {"holds", "unlocks"}}
    BY <1>2 DEF LockCore, Goto, TypeOK
  <2>4. Sole'
    BY <1>2 DEF LockCore, Sole
  <2> QED
    BY <1>2, <2>1, <2>2, <2>3, <2>4 DEF LockCore, CountIsExact
<1>3. ASSUME NEW g \in Goroutine, Unlock(g) PROVE IInv'
  <2>1. Inside' = Inside \ {g} /\ g \in Inside
    BY <1>3, InsideMoves DEF Unlock, Inside
  <2>2. Cardinality(Inside') = Cardinality(Inside) - 1
    BY <1>0, <2>1, FS_RemoveElement
  <2>3. IsFiniteSet(Inside') /\ Cardinality(Inside') \in Nat
    BY <1>0, <2>1, FS_RemoveElement, FS_CardinalityType
  <2>4. numLocks' = Cardinality(Inside')
    BY <1>3, <2>2 DEF Unlock, CountIsExact
  <2>5. TypeOK'
    BY <1>3, <2>3, <2>4 DEF Unlock, Goto, TypeOK
  <2>6. core' = {h \in Goroutine : pc'[h] \in {"holds", "unlocks"}} /\ Sole'
    BY <1>3 DEF Unlock, Goto, TypeOK, Sole
  <2> QED
    BY <2>4, <2>5, <2>6 DEF CountIsExact
<1>4. ASSUME NEW g \in Goroutine, UnlockCore(g) PROVE IInv'
  <2>1. Inside' = Inside
    BY <1>4, InsideMoves DEF UnlockCore, Inside
  <2>2. TypeOK'
    BY <1>4 DEF UnlockCore, Goto, TypeOK
  <2>3. core' = {h \in Goroutine : pc'[h] \in {"holds", "unlocks"}}
    BY <1>4 DEF UnlockCore, Goto, TypeOK
  <2>4. Sole'
    BY <1>4 DEF UnlockCore, Sole
  <2> QED
    BY <1>4, <2>1, <2>2, <2>3, <2>4 DEF UnlockCore, CountIsExact
<1>5. CASE UNCHANGED vars
  BY <1>5 DEF vars, TypeOK, Sole, CountIsExact, Inside
<1> QED
  BY <1>1, <1>2, <1>3, <1>4, <1>5 DEF Next

(* The invariant holds in every reachable state.                           *)
LEMMA Invariance == Spec => []IInv
BY InitInv, StepInv, PTL DEF Spec

(* A finite set without two distinct elements has at most one.             *)
LEMMA SoleCardinality == ASSUME NEW S, \A g, h \in S : g = h PROVE Cardinality(S) <= 1
<1>1. CASE S = {}
  <2>1. Cardinality(S) = 0
    BY <1>1, FS_EmptySet
  <2> QED
    BY <2>1
<1>2. CASE S # {}
  <2>1. PICK g : g \in S
    BY <1>2
  <2>2. S = {g}
    BY <2>1
  <2>3. Cardinality(S) = 1
    BY <2>2, FS_Singleton
  <2> QED
    BY <2>3
<1> QED
  BY <1>1, <1>2

(* The reader, or the writer, of a tunnel is acquired by one goroutine at  *)
(* a time: CountedLock's mutex excludes, whatever the counter does.        *)
LEMMA HoldersExclude == IInv => OneHolder
BY SoleCardinality DEF IInv, OneHolder, Sole

(* HasQueued gives no false alarm: two goroutines are counted, one of them *)
(* holds the lock at most, so that the other waits.                        *)
LEMMA NoFalseAlarm == IInv => QueuedWaits
<1> SUFFICES ASSUME IInv, HasQueued, \A g \in Goroutine : pc[g] # "waits" PROVE FALSE
  BY DEF QueuedWaits
<1>1. \A g, h \in Inside : g = h
  BY DEF IInv, Sole, Inside
<1>2. Cardinality(Inside) <= 1
  BY <1>1, SoleCardinality
<1>3. Cardinality(Inside) \in Nat
  BY InsideFinite, FS_CardinalityType
<1> QED
  BY <1>2, <1>3 DEF IInv, CountIsExact, HasQueued

(* CountedLock excludes, counts the goroutines between the start of Lock   *)
(* and the start of Unlock exactly, and raises no false alarm, for every   *)
(* finite set of goroutines.                                               *)
THEOREM LockIsSafe == Spec => []LockInv
<1>1. IInv => LockInv
  BY HoldersExclude, NoFalseAlarm DEF IInv, LockInv
<1> QED
  BY <1>1, Invariance, PTL

-----------------------------------------------------------------------------
(* Tunnel.                                                                 *)

(* What Handshake sends, one after the other: what is selected, and a      *)
(* value for each of the names guacd has asked for.                        *)
Wire(selected, names) ==
  << Instr("select", <<selected>>), Instr("size", <<>>), Instr("audio", <<>>),
     Instr("video", <<>>), Instr("image", <<>>), Instr("connect", Values(names)) >>

Selections == {c.id : c \in Configs} \cup {c.protocol : c \in Configs}

ToGuacd == {Wire(s, names)[n] : n \in 1..6, s \in Selections, names \in Asks \cup {<<>>}}

FromGuacd ==
  [op : {"args"}, args : Asks] \cup [op : {"ready"}, args : Seq(Given)]
    \cup [op : {"sync"}, args : Seq(Nat)] \cup {Instr("error", <<>>)}

(* How many of them have been sent.                                        *)
SentAt ==
  [dial |-> 0, select |-> 0, args |-> 1, size |-> 1, audio |-> 2, video |-> 3, image |-> 4,
   connect |-> 5, ready |-> 6, up |-> 6]

Steps == {"dial", "select", "args", "size", "audio", "video", "image", "connect", "ready", "up"}

Guacd ==
  [pc : {"select", "setup", "up", "refused"}, got : Seq(ToGuacd),
   asks : Asks \cup {<<>>}, gave : Given \cup {NoConnection}, sent : Nat]

TunnelTypeOK ==
  /\ config \in Configs
  /\ hs \in Steps \cup {"failed"}
  /\ asked \in Asks \cup {<<>>}
  /\ toGuacd \in Seq(ToGuacd) /\ fromGuacd \in Seq(FromGuacd)
  /\ guacd \in Guacd
  /\ reading \in [Goroutine -> Nat] /\ delivered \in Seq(Nat)

(* How many of them guacd has got.                                         *)
Got == Len(guacd.got)

(* guacd has got, or has on its way to it, what Handshake has sent.        *)
InTransit ==
  /\ Got + Len(toGuacd) = SentAt[hs]
  /\ \A n \in 1..Got : guacd.got[n] = Wire(Selected, asked)[n]
  /\ \A n \in 1..Len(toGuacd) : toGuacd[n] = Wire(Selected, asked)[Got + n]

(* What guacd may send to select or to connect before it is up.            *)
Refusal == {Instr("error", <<>>), Instr("ready", <<>>)}

(* guacd answers select and connect, nothing else, and sends instructions  *)
(* behind ready only.                                                      *)
Answered ==
  /\ hs \in {"dial", "select", "args"} => asked = <<>>
  /\ Got = 0 => fromGuacd = <<>>
  /\ Got \in 1..5 =>
       IF hs = "args"
         THEN /\ Len(fromGuacd) = 1
              /\ fromGuacd[1] \in Refusal \cup {Instr("args", guacd.asks)}
         ELSE fromGuacd = <<>>
  /\ hs \notin {"dial", "select", "args"} => asked = guacd.asks /\ Got > 0
  /\ guacd.pc = "up" => Got = 6
  /\ (Got = 6 /\ guacd.pc # "up") => Len(fromGuacd) = 1 /\ fromGuacd[1] \in Refusal
  /\ hs = "up" => guacd.pc = "up" /\ ConnectionID = guacd.gave
  /\ guacd.pc # "up" => guacd.sent = 0

(* What guacd has sent once it was connected is in order, behind ready     *)
(* until Handshake has read that.                                          *)
Behind == IF hs = "up" THEN 0 ELSE 1

Stream ==
  guacd.pc = "up" =>
    /\ Len(delivered) + Len(fromGuacd) = guacd.sent + Behind
    /\ hs # "up" => fromGuacd[1] = Instr("ready", <<guacd.gave>>)
    /\ \A n \in 1..Len(fromGuacd) :
         n > Behind => fromGuacd[n] = Instr("sync", <<Len(delivered) + n - Behind>>)

(* A reader that has found the next instruction holds the lock, and no     *)
(* instruction has been returned twice or left out.                        *)
ReadsNext ==
  /\ \A n \in 1..Len(delivered) : delivered[n] = n
  /\ hs # "up" => delivered = <<>> /\ \A g \in Goroutine : reading[g] = 0
  /\ \A g \in Goroutine : reading[g] # 0 =>
       pc[g] = "holds" /\ fromGuacd # <<>> /\ reading[g] = Len(delivered) + 1

(* The inductive invariant.  Once Handshake has failed nothing is claimed  *)
(* of what is under way.                                                   *)
TunnelInv ==
  /\ IInv /\ TunnelTypeOK
  /\ hs # "failed" => InTransit /\ Answered /\ Stream /\ ReadsNext

(* Nothing has been sent when the handshake begins.                        *)
LEMMA TunnelInitInv == TunnelInit => TunnelInv
<1> SUFFICES ASSUME TunnelInit PROVE TunnelInv
  OBVIOUS
<1>1. IInv
  BY InitInv DEF TunnelInit
<1>2. TunnelTypeOK
  BY DEF TunnelInit, TunnelTypeOK, Steps, Guacd
<1>3. InTransit /\ Answered /\ Stream /\ ReadsNext
  BY DEF TunnelInit, InTransit, Answered, Stream, ReadsNext, SentAt, Got
<1> QED
  BY <1>1, <1>2, <1>3 DEF TunnelInv

(* The lock is not touched by what does not concern its readers.           *)
LEMMA LockUntouched == ASSUME IInv, UNCHANGED vars PROVE IInv'
BY StepInv

(* The instructions of the handshake, by their places.                     *)
LEMMA WireAt ==
  ASSUME NEW s, NEW names
  PROVE  /\ Wire(s, names)[1] = Instr("select", <<s>>)
         /\ Wire(s, names)[2] = Instr("size", <<>>) /\ Wire(s, names)[3] = Instr("audio", <<>>)
         /\ Wire(s, names)[4] = Instr("video", <<>>) /\ Wire(s, names)[5] = Instr("image", <<>>)
         /\ Wire(s, names)[6] = Instr("connect", Values(names))
BY DEF Wire

LEMMA WireOps ==
  ASSUME NEW s, NEW names
  PROVE  /\ Wire(s, names)[1].op = "select" /\ Wire(s, names)[2].op = "size"
         /\ Wire(s, names)[3].op = "audio" /\ Wire(s, names)[4].op = "video"
         /\ Wire(s, names)[5].op = "image" /\ Wire(s, names)[6].op = "connect"
BY DEF Wire, Instr

(* What guacd answers, and what Handshake sends, is of its type.           *)
LEMMA MessageTypes ==
  /\ \A n \in 1..6, s \in Selections, names \in Asks \cup {<<>>} : Wire(s, names)[n] \in ToGuacd
  /\ \A names \in Asks : Instr("args", names) \in FromGuacd
  /\ \A id \in Given : Instr("ready", <<id>>) \in FromGuacd
  /\ \A n \in Nat : Instr("sync", <<n>>) \in FromGuacd
  /\ Instr("error", <<>>) \in FromGuacd /\ Instr("ready", <<>>) \in FromGuacd
<1>1. \A n \in 1..6, s \in Selections, names \in Asks \cup {<<>>} : Wire(s, names)[n] \in ToGuacd
  BY DEF ToGuacd
<1>2. \A id \in Given : <<id>> \in Seq(Given)
  OBVIOUS
<1>3. \A n \in Nat : <<n>> \in Seq(Nat)
  OBVIOUS
<1>4. << >> \in Seq(Given)
  OBVIOUS
<1> QED
  BY <1>1, <1>2, <1>3, <1>4 DEF FromGuacd, Instr

LEMMA SelectedType == ASSUME config \in Configs PROVE Selected \in Selections
BY DEF Selected, Selections

(* Counting what is on its way.                                            *)
LEMMA OneMore ==
  \A a, b \in Nat, c \in 0..5 : \A d : a + b = c /\ d = c + 1 => a + (b + 1) = d /\ a + (b + 1) = c + 1
OBVIOUS

LEMMA OnlyOne == \A a, b \in Nat : a + b = 1 /\ a # 0 => a = 1 /\ b = 0
OBVIOUS

LEMMA AllSix == \A a, b \in Nat : a + b = 6 /\ a > 0 /\ a \notin 1..5 => a = 6
OBVIOUS

(* A step of Handshake that sends.                                         *)
LEMMA SendInv ==
  ASSUME TunnelInv, hs # "failed", Send, UNCHANGED <<vars, readers>>
  PROVE  TunnelInv'
<1>0. IInv'
  BY LockUntouched DEF TunnelInv
<1>1. /\ config \in Configs /\ asked \in Asks \cup {<<>>} /\ guacd \in Guacd
      /\ toGuacd \in Seq(ToGuacd) /\ fromGuacd \in Seq(FromGuacd)
      /\ reading \in [Goroutine -> Nat] /\ delivered \in Seq(Nat)
      /\ guacd.got \in Seq(ToGuacd)
  BY DEF TunnelInv, TunnelTypeOK, Guacd
<1>l. Got \in Nat /\ Len(toGuacd) \in Nat
  BY <1>1, LenProperties DEF Got
<1>2. UNCHANGED <<config, asked, ConnectionID, fromGuacd, guacd, open, reading, delivered, pc>>
  BY DEF Send, vars, readers
<1>g. Got' = Got
  BY <1>2 DEF Got
<1>3. CASE hs' = "failed" /\ UNCHANGED toGuacd
  BY <1>0, <1>1, <1>2, <1>3 DEF TunnelInv, TunnelTypeOK
<1>4. CASE toGuacd' = Append(toGuacd, Instr(hs, Payload(hs))) /\ hs' = After[hs]
  <2>1. /\ hs \in {"select", "size", "audio", "video", "image", "connect"}
        /\ hs' \in {"args", "audio", "video", "image", "connect", "ready"}
        /\ hs = "select" <=> hs' = "args"
        /\ SentAt[hs'] = SentAt[hs] + 1 /\ SentAt[hs] \in 0..5
    BY <1>4 DEF Send, After, SentAt
  <2>2. Instr(hs, Payload(hs)) = Wire(Selected, asked)[SentAt[hs] + 1]
    BY <2>1, WireAt DEF Payload, SentAt
  <2>3. Selected \in Selections /\ Selected' = Selected
    BY <1>1, <1>2, SelectedType DEF Selected
  <2>4. Instr(hs, Payload(hs)) \in ToGuacd
    BY <1>1, <2>1, <2>2, <2>3, MessageTypes
  <2>5. TunnelTypeOK'
    BY <1>1, <1>2, <1>4, <2>1, <2>4 DEF TunnelTypeOK, Steps
  <2>6. InTransit'
    <3>1. /\ Got + Len(toGuacd) = SentAt[hs]
          /\ \A n \in 1..Got : guacd.got[n] = Wire(Selected, asked)[n]
          /\ \A n \in 1..Len(toGuacd) : toGuacd[n] = Wire(Selected, asked)[Got + n]
      BY DEF TunnelInv, InTransit
    <3>2. /\ Len(toGuacd') = Len(toGuacd) + 1
          /\ \A n \in 1..Len(toGuacd) : toGuacd'[n] = toGuacd[n]
          /\ toGuacd'[Len(toGuacd) + 1] = Wire(Selected, asked)[SentAt[hs] + 1]
      BY <1>1, <1>4, <2>2, <2>4
    <3>3. Got + Len(toGuacd') = SentAt[hs']
      <4>1. Got + (Len(toGuacd) + 1) = SentAt[hs']
        BY <1>l, <2>1, <3>1, OneMore
      <4> QED
        BY <3>2, <4>1
    <3>4. ASSUME NEW n \in 1..Len(toGuacd')
          PROVE  toGuacd'[n] = Wire(Selected, asked)[Got + n]
      <4>1. CASE n = Len(toGuacd) + 1
        <5>1. Got + n = SentAt[hs] + 1
          BY <1>l, <2>1, <3>1, <4>1, OneMore
        <5> QED
          BY <3>2, <4>1, <5>1
      <4>2. CASE n \in 1..Len(toGuacd)
        BY <3>1, <3>2, <4>2
      <4> QED
        BY <1>l, <3>2, <4>1, <4>2
    <3> QED
      BY <1>g, <1>2, <2>3, <3>1, <3>3, <3>4 DEF InTransit
  <2>7. Answered' /\ Behind' = Behind
    <3>1. Answered
      BY <2>1 DEF TunnelInv
    <3>2. Got + Len(toGuacd) = SentAt[hs]
      BY <2>1 DEF TunnelInv, InTransit
    <3>3. hs = "select" => Got = 0
      BY <1>l, <3>2 DEF SentAt
    <3> QED
      BY <1>g, <1>2, <2>1, <3>1, <3>3 DEF Answered, Behind
  <2>8. Stream' /\ ReadsNext'
    BY <1>2, <2>1, <2>7 DEF TunnelInv, Stream, ReadsNext
  <2> QED
    BY <1>0, <2>5, <2>6, <2>7, <2>8 DEF TunnelInv
<1> QED
  BY <1>3, <1>4 DEF Send

(* The args instruction has come: guacd has had select and nothing else.   *)
LEMMA ReceiveArgsInv ==
  ASSUME TunnelInv, ReceiveArgs, UNCHANGED <<vars, readers>>
  PROVE  TunnelInv'
<1>0. IInv'
  BY LockUntouched DEF TunnelInv
<1>1. /\ config \in Configs /\ asked \in Asks \cup {<<>>} /\ guacd \in Guacd
      /\ toGuacd \in Seq(ToGuacd) /\ fromGuacd \in Seq(FromGuacd)
      /\ reading \in [Goroutine -> Nat] /\ delivered \in Seq(Nat)
      /\ guacd.got \in Seq(ToGuacd)
      /\ guacd.asks \in Asks \cup {<<>>}
  BY DEF TunnelInv, TunnelTypeOK, Guacd
<1>l. Got \in Nat /\ Len(toGuacd) \in Nat
  BY <1>1, LenProperties DEF Got
<1>2. /\ UNCHANGED <<config, toGuacd, guacd, open, ConnectionID, reading, delivered, pc>>
      /\ hs = "args" /\ fromGuacd # <<>> /\ fromGuacd' = Tail(fromGuacd) /\ hs' = "size"
      /\ Head(fromGuacd).op = "args" /\ asked' = Head(fromGuacd).args
  BY DEF ReceiveArgs, Receive, vars, readers
<1>g. Got' = Got
  BY <1>2 DEF Got
<1>3. InTransit /\ Answered /\ Stream /\ ReadsNext
  BY <1>2 DEF TunnelInv
<1>4. Got = 1 /\ Len(toGuacd) = 0
  <2>1. Got + Len(toGuacd) = 1
    BY <1>2, <1>3 DEF InTransit, SentAt
  <2>2. Got # 0
    BY <1>2, <1>3 DEF Answered
  <2> QED
    BY <1>l, <2>1, <2>2, OnlyOne
<1>5. Len(fromGuacd) = 1 /\ fromGuacd[1] = Instr("args", guacd.asks)
  BY <1>1, <1>2, <1>3, <1>4 DEF Answered, Refusal, Instr
<1>6. fromGuacd' = <<>> /\ asked' = guacd.asks
  <2>1. Tail(fromGuacd) \in Seq(FromGuacd) /\ Len(Tail(fromGuacd)) = 0
    BY <1>1, <1>2, <1>5, HeadTailProperties
  <2>2. Tail(fromGuacd) = <<>>
    BY <2>1, EmptySeq
  <2> QED
    BY <1>1, <1>2, <1>5, <2>2 DEF Instr
<1>7. TunnelTypeOK'
  BY <1>1, <1>2, <1>6 DEF TunnelTypeOK, Steps
<1>8. InTransit'
  <2>0. Selected' = Selected
    BY <1>2 DEF Selected
  <2>1. Wire(Selected', asked')[1] = Wire(Selected, asked)[1]
    BY <2>0, WireAt
  <2>2. guacd.got[1] = Wire(Selected, asked)[1]
    BY <1>3, <1>4 DEF InTransit
  <2>3. SentAt[hs'] = 1
    BY <1>2 DEF SentAt
  <2> QED
    BY <1>g, <1>2, <1>4, <2>1, <2>2, <2>3 DEF InTransit
<1>9. Answered' /\ Stream' /\ ReadsNext'
  BY <1>g, <1>2, <1>3, <1>4, <1>6 DEF Answered, Stream, ReadsNext
<1> QED
  BY <1>0, <1>7, <1>8, <1>9 DEF TunnelInv

(* The ready instruction has come: what guacd has sent behind it is left.  *)
LEMMA ReceiveReadyInv ==
  ASSUME TunnelInv, ReceiveReady, UNCHANGED <<vars, readers>>
  PROVE  TunnelInv'
<1>0. IInv'
  BY LockUntouched DEF TunnelInv
<1>1. /\ config \in Configs /\ asked \in Asks \cup {<<>>} /\ guacd \in Guacd
      /\ toGuacd \in Seq(ToGuacd) /\ fromGuacd \in Seq(FromGuacd)
      /\ reading \in [Goroutine -> Nat] /\ delivered \in Seq(Nat)
      /\ guacd.got \in Seq(ToGuacd)
      /\ guacd.sent \in Nat
  BY DEF TunnelInv, TunnelTypeOK, Guacd
<1>l. Got \in Nat /\ Len(toGuacd) \in Nat
  BY <1>1, LenProperties DEF Got
<1>2. /\ UNCHANGED <<config, toGuacd, guacd, open, asked, reading, delivered, pc>>
      /\ hs = "ready" /\ fromGuacd # <<>> /\ fromGuacd' = Tail(fromGuacd) /\ hs' = "up"
      /\ Head(fromGuacd).op = "ready" /\ Head(fromGuacd).args # <<>>
      /\ ConnectionID' = Head(fromGuacd).args[1]
  BY DEF ReceiveReady, Receive, vars, readers
<1>g. Got' = Got
  BY <1>2 DEF Got
<1>3. InTransit /\ Answered /\ Stream /\ ReadsNext
  BY <1>2 DEF TunnelInv
<1>4. Got = 6 /\ guacd.pc = "up"
  <2>1. Got + Len(toGuacd) = 6
    BY <1>2, <1>3 DEF InTransit, SentAt
  <2>2. Got > 0 /\ (Got \in 1..5 => fromGuacd = <<>>)
    BY <1>2, <1>3 DEF Answered
  <2>3. Got = 6
    BY <1>2, <1>l, <2>1, <2>2, AllSix
  <2> QED
    BY <1>1, <1>2, <1>3, <2>3 DEF Answered, Refusal, Instr
<1>5. /\ delivered = <<>> /\ fromGuacd[1] = Instr("ready", <<guacd.gave>>)
      /\ Len(fromGuacd) = guacd.sent + 1
      /\ \A n \in 1..Len(fromGuacd) : n > 1 => fromGuacd[n] = Instr("sync", <<n - 1>>)
      /\ \A g \in Goroutine : reading[g] = 0
  BY <1>1, <1>2, <1>3, <1>4 DEF Stream, ReadsNext, Behind
<1>6. ConnectionID' = guacd.gave
  BY <1>1, <1>2, <1>5 DEF Instr
<1>7. /\ fromGuacd' \in Seq(FromGuacd) /\ Len(fromGuacd') = Len(fromGuacd) - 1
      /\ \A n \in 1..Len(fromGuacd') : fromGuacd'[n] = fromGuacd[n + 1]
  BY <1>1, <1>2, HeadTailProperties
<1>8. TunnelTypeOK'
  BY <1>1, <1>2, <1>7 DEF TunnelTypeOK, Steps
<1>9. InTransit' /\ Answered'
  <2>1. SentAt[hs'] = SentAt[hs] /\ Selected' = Selected
    BY <1>2 DEF SentAt, Selected
  <2> QED
    BY <1>g, <1>2, <1>3, <1>4, <1>6, <2>1 DEF InTransit, Answered
<1>10. Stream' /\ ReadsNext'
  <2>1. ASSUME NEW n \in 1..Len(fromGuacd') PROVE fromGuacd'[n] = Instr("sync", <<n>>)
    <3>1. n + 1 \in 1..Len(fromGuacd) /\ n + 1 > 1 /\ (n + 1) - 1 = n
      BY <1>1, <1>5, <1>7
    <3> QED
      BY <1>5, <1>7, <3>1
  <2>2. Len(delivered') = 0 /\ Behind' = 0
    BY <1>2, <1>5 DEF Behind
  <2>3. ASSUME NEW n \in 1..Len(fromGuacd')
        PROVE  fromGuacd'[n] = Instr("sync", <<Len(delivered') + n - Behind'>>)
    <3>1. Len(delivered') + n - Behind' = n
      BY <2>2
    <3> QED
      BY <2>1, <3>1
  <2>4. Len(delivered') + Len(fromGuacd') = guacd'.sent + Behind'
    BY <1>1, <1>2, <1>5, <1>7, <2>2
  <2>5. Stream'
    BY <1>2, <2>3, <2>4 DEF Stream
  <2>6. ReadsNext'
    BY <1>2, <1>5 DEF ReadsNext
  <2> QED
    BY <2>5, <2>6
<1> QED
  BY <1>0, <1>8, <1>9, <1>10 DEF TunnelInv

(* Nothing is sent before there is a connection.                           *)
LEMMA DialsInv ==
  ASSUME TunnelInv, Dial, hs' # "failed", UNCHANGED <<vars, readers>>
  PROVE  TunnelInv'
<1>0. IInv'
  BY LockUntouched DEF TunnelInv
<1>1. /\ hs = "dial" /\ hs' = "select"
      /\ UNCHANGED <<config, asked, ConnectionID, toGuacd, fromGuacd, guacd, reading, delivered, pc>>
  BY DEF Dial, vars, readers
<1>2. TunnelTypeOK'
  BY <1>1 DEF TunnelInv, TunnelTypeOK, Steps
<1>3. Selected' = Selected /\ Behind' = Behind /\ Got' = Got /\ SentAt["dial"] = SentAt["select"]
  BY <1>1 DEF Selected, Behind, Got, SentAt
<1>4. InTransit' /\ Stream' /\ ReadsNext'
  BY <1>1, <1>3 DEF TunnelInv, InTransit, Stream, ReadsNext
<1>5. Answered'
  BY <1>1, <1>3 DEF TunnelInv, Answered
<1> QED
  BY <1>0, <1>2, <1>4, <1>5 DEF TunnelInv

(* A dial or a handshake that fails leaves the lock and the types.         *)
LEMMA FailsInv ==
  ASSUME TunnelInv, (Dial /\ hs' = "failed") \/ ReceiveOther \/ ReadFails, UNCHANGED <<vars, readers>>
  PROVE  TunnelInv'
<1>0. IInv'
  BY LockUntouched DEF TunnelInv
<1>1. hs' = "failed" /\ UNCHANGED <<config, asked, toGuacd, guacd, reading, delivered>>
  BY DEF Dial, ReceiveOther, ReadFails, Receive, network, readers
<1>2. fromGuacd \in Seq(FromGuacd)
  BY DEF TunnelInv, TunnelTypeOK
<1>3. fromGuacd' \in Seq(FromGuacd)
  <2>1. CASE ReceiveOther
    BY <1>2, <2>1 DEF ReceiveOther, Receive
  <2>2. CASE ReadFails
    BY <1>2, <2>2 DEF ReadFails, network
  <2>3. CASE Dial
    BY <1>2, <2>3 DEF Dial
  <2> QED
    BY <2>1, <2>2, <2>3
<1>4. TunnelTypeOK'
  BY <1>1, <1>3 DEF TunnelInv, TunnelTypeOK
<1> QED
  BY <1>0, <1>1, <1>4 DEF TunnelInv

(* guacd has read one more instruction: the types and what is in transit.  *)
LEMMA GuacdReadsTypes ==
  ASSUME TunnelInv, GuacdReads, UNCHANGED <<vars, handshake, readers>>
  PROVE  /\ TunnelTypeOK'
         /\ guacd'.got = Append(guacd.got, Head(toGuacd))
<1>1. /\ config \in Configs /\ asked \in Asks \cup {<<>>} /\ guacd \in Guacd
      /\ toGuacd \in Seq(ToGuacd) /\ fromGuacd \in Seq(FromGuacd)
      /\ reading \in [Goroutine -> Nat] /\ delivered \in Seq(Nat)
      /\ guacd.got \in Seq(ToGuacd) /\ hs \in Steps \cup {"failed"}
      /\ guacd.pc \in {"select", "setup", "up", "refused"} /\ guacd.sent \in Nat
      /\ guacd.asks \in Asks \cup {<<>>} /\ guacd.gave \in Given \cup {NoConnection}
  BY DEF TunnelInv, TunnelTypeOK, Guacd
<1>2. UNCHANGED <<config, hs, asked, ConnectionID, reading, delivered>>
  BY DEF handshake, readers
<1>3. toGuacd # <<>> /\ toGuacd' = Tail(toGuacd)
  BY DEF GuacdReads
<1>4. Head(toGuacd) \in ToGuacd /\ toGuacd' \in Seq(ToGuacd)
  BY <1>1, <1>3
<1>5. Append(guacd.got, Head(toGuacd)) \in Seq(ToGuacd)
  BY <1>1, <1>4
<1>6. fromGuacd' \in Seq(FromGuacd)
  <2>1. fromGuacd' = fromGuacd \/ \E a \in FromGuacd : fromGuacd' = Append(fromGuacd, a)
    BY MessageTypes DEF GuacdReads
  <2>2. \A a \in FromGuacd : Append(fromGuacd, a) \in Seq(FromGuacd)
    BY <1>1
  <2> QED
    BY <1>1, <2>1, <2>2
<1>7. guacd' \in Guacd /\ guacd'.got = Append(guacd.got, Head(toGuacd))
  <2>1. PICK p \in {"select", "setup", "up", "refused"}, names \in Asks \cup {<<>>},
             id \in Given \cup {NoConnection} :
          GuacdIs(p, Append(guacd.got, Head(toGuacd)), names, id)
    BY <1>1 DEF GuacdReads
  <2> QED
    BY <1>1, <1>5, <2>1 DEF GuacdIs, Guacd
<1> QED
  BY <1>1, <1>2, <1>4, <1>6, <1>7 DEF TunnelTypeOK

LEMMA GuacdReadsTransit ==
  ASSUME TunnelInv, hs # "failed", GuacdReads, UNCHANGED <<vars, handshake, readers>>
  PROVE  /\ InTransit'
         /\ Got \in 0..5 /\ Got' = Got + 1 /\ Got < SentAt[hs]
         /\ Head(toGuacd) = Wire(Selected, asked)[Got + 1]
<1>1. /\ toGuacd \in Seq(ToGuacd) /\ guacd.got \in Seq(ToGuacd) /\ hs \in Steps
  BY DEF TunnelInv, TunnelTypeOK, Guacd
<1>2. UNCHANGED <<config, hs, asked>> /\ Selected' = Selected
  BY DEF handshake, Selected
<1>3. toGuacd # <<>> /\ toGuacd' = Tail(toGuacd) /\ guacd'.got = Append(guacd.got, Head(toGuacd))
  BY GuacdReadsTypes DEF GuacdReads
<1> DEFINE k == Len(toGuacd)
<1>4. /\ Got + k = SentAt[hs]
      /\ \A n \in 1..Got : guacd.got[n] = Wire(Selected, asked)[n]
      /\ \A n \in 1..k : toGuacd[n] = Wire(Selected, asked)[Got + n]
  BY DEF TunnelInv, InTransit
<1>5. SentAt[hs] \in 0..6
  BY <1>1 DEF SentAt, Steps
<1>6. Got \in Nat /\ k \in Nat /\ k > 0
  BY <1>1, <1>3, LenProperties, EmptySeq DEF Got
<1>7. /\ Head(toGuacd) \in ToGuacd /\ Len(Tail(toGuacd)) = k - 1
      /\ \A n \in 1..(k - 1) : Tail(toGuacd)[n] = toGuacd[n + 1]
  BY <1>1, <1>3, HeadTailProperties
<1>8. /\ Got' = Got + 1 /\ guacd'.got[Got + 1] = Head(toGuacd)
      /\ \A n \in 1..Got : guacd'.got[n] = guacd.got[n]
  BY <1>1, <1>3, <1>7 DEF Got
<1>9. Head(toGuacd) = Wire(Selected, asked)[Got + 1]
  <2>1. Head(toGuacd) = toGuacd[1]
    BY <1>1, <1>3
  <2> QED
    BY <1>4, <1>6, <2>1
<1>10. Len(toGuacd') = k - 1
  BY <1>3, <1>7
<1> HIDE DEF k
<1>11. Got \in 0..5 /\ Got < SentAt[hs] /\ (Got + 1) + (k - 1) = SentAt[hs]
  BY <1>4, <1>5, <1>6
<1>12. \A n \in 1..(Got + 1) : guacd'.got[n] = Wire(Selected, asked)[n]
  <2>1. \A n \in 1..(Got + 1) : n \in 1..Got \/ n = Got + 1
    BY <1>6
  <2> QED
    BY <1>4, <1>8, <1>9, <2>1
<1>13. \A n \in 1..(k - 1) : toGuacd'[n] = Wire(Selected, asked)[(Got + 1) + n]
  <2>1. \A n \in 1..(k - 1) : n + 1 \in 1..k /\ Got + (n + 1) = (Got + 1) + n
    BY <1>6
  <2>2. \A n \in 1..(k - 1) : toGuacd'[n] = toGuacd[n + 1]
    BY <1>3, <1>7
  <2> QED
    BY <1>4, <2>1, <2>2
<1>14. InTransit'
  BY <1>2, <1>8, <1>10, <1>11, <1>12, <1>13 DEF InTransit
<1> QED
  BY <1>8, <1>9, <1>11, <1>14

(* guacd has read one more instruction, and has answered it if it must.    *)
LEMMA GuacdReadsInv ==
  ASSUME TunnelInv, GuacdReads, UNCHANGED <<vars, handshake, readers>>
  PROVE  TunnelInv'
<1>0. IInv' /\ TunnelTypeOK'
  BY LockUntouched, GuacdReadsTypes DEF TunnelInv
<1>1. UNCHANGED <<config, hs, asked, ConnectionID, reading, delivered, pc>>
  BY DEF handshake, readers, vars
<1> SUFFICES ASSUME hs # "failed" PROVE InTransit' /\ Answered' /\ Stream' /\ ReadsNext'
  BY <1>0, <1>1 DEF TunnelInv
<1>2. /\ guacd \in Guacd /\ fromGuacd \in Seq(FromGuacd) /\ delivered \in Seq(Nat) /\ hs \in Steps
      /\ guacd.sent \in Nat
  BY DEF TunnelInv, TunnelTypeOK, Guacd
<1>3. Answered /\ Stream /\ ReadsNext
  BY DEF TunnelInv
<1>4. InTransit'
  BY GuacdReadsTransit
<1> DEFINE i == Head(toGuacd)
<1>5. Got \in 0..5 /\ Got' = Got + 1 /\ Got < SentAt[hs] /\ i = Wire(Selected, asked)[Got + 1]
  BY GuacdReadsTransit
<1>6. guacd.pc # "up" /\ guacd.sent = 0 /\ hs # "up" /\ delivered = <<>>
  <2>1. Got # 6
    BY <1>5
  <2> QED
    BY <1>3, <2>1 DEF Answered, ReadsNext
<1> HIDE DEF i
<1>7. hs \notin {"dial", "select"}
  BY <1>5 DEF SentAt
<1>8. /\ hs \notin {"dial", "select", "args"} => Got > 0 /\ asked = guacd.asks
      /\ hs = "args" => Got = 0
      /\ Got = 0 => fromGuacd = <<>>
      /\ Got \in 1..5 /\ hs # "args" => fromGuacd = <<>>
  <2>1. SentAt["args"] = 1
    BY DEF SentAt
  <2> QED
    BY <1>3, <1>5, <2>1 DEF Answered
<1>9. fromGuacd = <<>> /\ (Got = 0 <=> hs = "args")
  BY <1>5, <1>7, <1>8
<1>10. ReadsNext'
  BY <1>1, <1>3, <1>6 DEF ReadsNext
<1>11. /\ i.op = "select" <=> Got = 0
       /\ i.op = "connect" <=> Got = 5
  <2>1. Got \in {0, 1, 2, 3, 4, 5}
    BY <1>5
  <2>2. /\ Wire(Selected, asked)[1].op = "select" /\ Wire(Selected, asked)[2].op = "size"
        /\ Wire(Selected, asked)[3].op = "audio" /\ Wire(Selected, asked)[4].op = "video"
        /\ Wire(Selected, asked)[5].op = "image" /\ Wire(Selected, asked)[6].op = "connect"
    BY WireOps
  <2> QED
    BY <1>5, <2>1, <2>2
<1>12. CASE Got = 0
  <2>1. hs = "args" /\ Got' = 1 /\ i.op = "select"
    BY <1>5, <1>9, <1>11, <1>12
  <2>2. /\ Len(fromGuacd') = 1 /\ guacd'.pc # "up" /\ guacd'.sent = 0
        /\ fromGuacd'[1] \in Refusal \cup {Instr("args", guacd'.asks)}
    BY <1>2, <1>6, <1>9, <2>1 DEF GuacdReads, GuacdIs, Guacd, i, Refusal
  <2>3. Answered'
    BY <1>1, <1>3, <2>1, <2>2 DEF Answered
  <2>4. Stream'
    BY <2>2 DEF Stream
  <2> QED
    BY <1>4, <1>10, <2>3, <2>4
<1>13. CASE Got \in 1..4
  <2>1. hs # "args" /\ Got' \in 2..5 /\ i.op \notin {"select", "connect"}
    BY <1>5, <1>9, <1>11, <1>13
  <2>2. fromGuacd' = <<>> /\ guacd'.pc # "up" /\ guacd'.sent = 0 /\ guacd'.asks = guacd.asks
    BY <1>2, <1>6, <1>9, <2>1 DEF GuacdReads, GuacdIs, Guacd, i
  <2>3. Answered'
    BY <1>1, <1>3, <1>6, <1>7, <2>1, <2>2 DEF Answered
  <2>4. Stream'
    BY <2>2 DEF Stream
  <2> QED
    BY <1>4, <1>10, <2>3, <2>4
<1>14. CASE Got = 5
  <2>1. hs # "args" /\ Got' = 6 /\ i.op = "connect"
    BY <1>5, <1>9, <1>11, <1>14
  <2>2. /\ guacd'.sent = 0 /\ guacd'.asks = guacd.asks /\ Len(fromGuacd') = 1
        /\ guacd'.pc = "up" => fromGuacd'[1] = Instr("ready", <<guacd'.gave>>)
        /\ guacd'.pc # "up" => fromGuacd'[1] \in Refusal
    <3>1. \/ \E id \in Given : /\ fromGuacd' = Append(fromGuacd, Instr("ready", <<id>>))
                               /\ GuacdIs("up", Append(guacd.got, i), guacd.asks, id)
          \/ /\ \E a \in Refusal : fromGuacd' = Append(fromGuacd, a)
             /\ GuacdIs("refused", Append(guacd.got, i), guacd.asks, guacd.gave)
      BY <2>1 DEF GuacdReads, i, Refusal
    <3>2. \A a : Len(Append(fromGuacd, a)) = 1 /\ Append(fromGuacd, a)[1] = a
      BY <1>9
    <3>3. CASE \E id \in Given : /\ fromGuacd' = Append(fromGuacd, Instr("ready", <<id>>))
                                 /\ GuacdIs("up", Append(guacd.got, i), guacd.asks, id)
      BY <1>6, <3>2, <3>3 DEF GuacdIs
    <3>4. CASE /\ \E a \in Refusal : fromGuacd' = Append(fromGuacd, a)
               /\ GuacdIs("refused", Append(guacd.got, i), guacd.asks, guacd.gave)
      BY <1>6, <3>2, <3>4 DEF GuacdIs
    <3> QED
      BY <3>1, <3>3, <3>4
  <2>3. Answered'
    BY <1>1, <1>3, <1>6, <1>7, <2>1, <2>2 DEF Answered
  <2>4. Stream'
    BY <1>1, <1>6, <2>2 DEF Stream, Behind
  <2> QED
    BY <1>4, <1>10, <2>3, <2>4
<1> QED
  BY <1>5, <1>12, <1>13, <1>14

(* guacd sends its next instruction behind the others.                     *)
LEMMA GuacdSendsInv ==
  ASSUME TunnelInv, GuacdSends, UNCHANGED <<vars, handshake, readers>>
  PROVE  TunnelInv'
<1>0. IInv'
  BY LockUntouched DEF TunnelInv
<1>1. UNCHANGED <<config, hs, asked, ConnectionID, reading, delivered, pc, toGuacd>>
  BY DEF handshake, readers, vars, GuacdSends
<1>2. /\ guacd \in Guacd /\ fromGuacd \in Seq(FromGuacd) /\ delivered \in Seq(Nat)
      /\ guacd.sent \in Nat
  BY DEF TunnelInv, TunnelTypeOK, Guacd
<1>3. /\ guacd.pc = "up" /\ guacd' = [guacd EXCEPT !.sent = guacd.sent + 1]
      /\ fromGuacd' = Append(fromGuacd, Instr("sync", <<guacd.sent + 1>>))
  BY DEF GuacdSends
<1>4. /\ guacd' \in Guacd /\ guacd'.pc = "up" /\ guacd'.got = guacd.got
      /\ guacd'.asks = guacd.asks /\ guacd'.gave = guacd.gave /\ guacd'.sent = guacd.sent + 1
  BY <1>2, <1>3 DEF Guacd
<1>5. Instr("sync", <<guacd.sent + 1>>) \in FromGuacd
  BY <1>2, MessageTypes
<1>6. /\ fromGuacd' \in Seq(FromGuacd) /\ Len(fromGuacd') = Len(fromGuacd) + 1
      /\ \A n \in 1..Len(fromGuacd) : fromGuacd'[n] = fromGuacd[n]
      /\ fromGuacd'[Len(fromGuacd) + 1] = Instr("sync", <<guacd.sent + 1>>)
  BY <1>2, <1>3, <1>5
<1>7. TunnelTypeOK'
  BY <1>1, <1>4, <1>6 DEF TunnelInv, TunnelTypeOK
<1> SUFFICES ASSUME hs # "failed" PROVE InTransit' /\ Answered' /\ Stream' /\ ReadsNext'
  BY <1>0, <1>1, <1>7 DEF TunnelInv
<1>8. InTransit /\ Answered /\ Stream /\ ReadsNext
  BY DEF TunnelInv
<1>9. InTransit' /\ Got' = Got
  BY <1>1, <1>4, <1>8 DEF InTransit, Selected, Got
<1>10. Answered'
  <2>1. Got = 6
    BY <1>3, <1>8 DEF Answered
  <2> QED
    BY <1>1, <1>3, <1>4, <1>8, <1>9, <2>1 DEF Answered
<1> DEFINE d == Len(delivered)
           f == Len(fromGuacd)
<1>11. d \in Nat /\ f \in Nat
  BY <1>2, LenProperties
<1>12. /\ d + f = guacd.sent + Behind
       /\ hs # "up" => fromGuacd[1] = Instr("ready", <<guacd.gave>>) /\ d = 0
       /\ \A n \in 1..f : n > Behind => fromGuacd[n] = Instr("sync", <<d + n - Behind>>)
  BY <1>3, <1>8 DEF Stream, ReadsNext
<1>13. Behind \in {0, 1} /\ Behind' = Behind /\ (Behind = 0 <=> hs = "up")
  BY <1>1 DEF Behind
<1>14. Stream'
  <2> HIDE DEF d, f
  <2>1. d + (f + 1) = (guacd.sent + 1) + Behind /\ guacd.sent + 1 = d + (f + 1) - Behind
    BY <1>2, <1>11, <1>12, <1>13
  <2>2. hs # "up" => f >= 1
    BY <1>2, <1>11, <1>12, <1>13
  <2>3. \A n \in 1..(f + 1) : n > Behind => fromGuacd'[n] = Instr("sync", <<d + n - Behind>>)
    <3>1. \A n \in 1..(f + 1) : n \in 1..f \/ n = f + 1
      BY <1>11
    <3>2. fromGuacd'[f + 1] = Instr("sync", <<d + (f + 1) - Behind>>)
      BY <1>6, <2>1 DEF f
    <3>3. \A n \in 1..f : fromGuacd'[n] = fromGuacd[n]
      BY <1>6 DEF f
    <3> QED
      BY <1>12, <3>1, <3>2, <3>3
  <2>4. hs # "up" => fromGuacd'[1] = Instr("ready", <<guacd.gave>>)
    <3>1. hs # "up" => 1 \in 1..f
      BY <1>11, <2>2
    <3> QED
      BY <1>6, <1>12, <3>1 DEF f
  <2>5. Len(delivered') = d /\ Len(fromGuacd') = f + 1
    BY <1>1, <1>6 DEF d, f
  <2> QED
    BY <1>1, <1>4, <1>13, <2>1, <2>3, <2>4, <2>5 DEF Stream
<1>15. ReadsNext'
  <2>1. fromGuacd' # <<>>
    BY <1>2, <1>3, <1>5
  <2> QED
    BY <1>1, <1>8, <2>1 DEF ReadsNext
<1> QED
  BY <1>9, <1>10, <1>14, <1>15

(* The connection is closed: what has arrived can still be read.           *)
LEMMA CloseInv ==
  ASSUME TunnelInv, UNCHANGED <<vars, handshake, readers, toGuacd, fromGuacd, guacd>>
  PROVE  TunnelInv'
<1>0. IInv'
  BY LockUntouched DEF TunnelInv
<1>1. UNCHANGED <<config, hs, asked, ConnectionID, reading, delivered, pc, toGuacd, fromGuacd, guacd>>
  BY DEF handshake, readers, vars
<1>2. TunnelTypeOK'
  BY <1>1 DEF TunnelInv, TunnelTypeOK
<1>3. Selected' = Selected /\ Behind' = Behind /\ Got' = Got
  BY <1>1 DEF Selected, Behind, Got
<1> QED
  BY <1>0, <1>1, <1>2, <1>3 DEF TunnelInv, InTransit, Answered, Stream, ReadsNext

(* A reader holds the lock alone: two goroutines in "holds" are the same.  *)
LEMMA OneReads ==
  ASSUME IInv, NEW g \in Goroutine, NEW h \in Goroutine, pc[g] = "holds", pc[h] = "holds"
  PROVE  g = h
BY DEF IInv, Sole

(* A reader that waits, gives up or lets go of the lock has found nothing. *)
LEMMA LockStepInv ==
  ASSUME TunnelInv, hs = "up", NEW g \in Goroutine, reading[g] = 0 \/ pc[g] # "holds",
         Lock(g) \/ LockCore(g) \/ Unlock(g) \/ UnlockCore(g),
         UNCHANGED <<handshake, network, readers>>
  PROVE  TunnelInv'
<1>0. IInv'
  BY StepInv DEF TunnelInv, Next
<1>1. UNCHANGED <<config, hs, asked, ConnectionID, reading, delivered, toGuacd, fromGuacd, guacd>>
  BY DEF handshake, readers, network
<1>2. TunnelTypeOK'
  BY <1>1 DEF TunnelInv, TunnelTypeOK
<1>3. Selected' = Selected /\ Behind' = Behind /\ Got' = Got
  BY <1>1 DEF Selected, Behind, Got
<1>4. InTransit' /\ Answered' /\ Stream'
  BY <1>1, <1>3 DEF TunnelInv, InTransit, Answered, Stream
<1>5. ReadsNext'
  <2>1. \A h \in Goroutine : h # g => pc'[h] = pc[h]
    BY DEF TunnelInv, IInv, TypeOK, Lock, LockCore, Unlock, UnlockCore, Goto
  <2>2. ReadsNext
    BY DEF TunnelInv
  <2>3. reading[g] = 0
    BY <2>2 DEF ReadsNext
  <2> QED
    BY <1>1, <2>1, <2>2, <2>3 DEF ReadsNext
<1> QED
  BY <1>0, <1>2, <1>4, <1>5 DEF TunnelInv

(* A reader that holds the lock finds the next instruction.                *)
LEMMA BeginInv ==
  ASSUME TunnelInv, hs = "up", NEW g \in Goroutine, Begin(g)
  PROVE  TunnelInv'
<1>1. UNCHANGED <<config, hs, asked, ConnectionID, delivered, toGuacd, fromGuacd, guacd, pc>>
  BY DEF Begin, handshake, network, vars
<1>0. IInv'
  BY LockUntouched DEF TunnelInv, Begin
<1>2. InTransit /\ Answered /\ Stream /\ ReadsNext
  BY DEF TunnelInv
<1>3. Selected' = Selected /\ Behind' = Behind /\ Got' = Got /\ Behind = 0 /\ guacd.pc = "up"
  BY <1>1, <1>2 DEF Selected, Behind, Got, Answered
<1>4. InTransit' /\ Answered' /\ Stream'
  BY <1>1, <1>2, <1>3 DEF InTransit, Answered, Stream
<1>5. /\ fromGuacd \in Seq(FromGuacd) /\ delivered \in Seq(Nat) /\ reading \in [Goroutine -> Nat]
  BY DEF TunnelInv, TunnelTypeOK
<1>6. pc[g] = "holds" /\ fromGuacd # <<>> /\ reading' = [reading EXCEPT ![g] = Head(fromGuacd).args[1]]
  BY DEF Begin
<1>7. Len(delivered) \in Nat /\ Len(fromGuacd) \in Nat \ {0} /\ Head(fromGuacd) = fromGuacd[1]
  BY <1>5, <1>6
<1>8. fromGuacd[1] = Instr("sync", <<Len(delivered) + 1>>)
  <2>1. 1 \in 1..Len(fromGuacd) /\ 1 > 0 /\ Len(delivered) + 1 - 0 = Len(delivered) + 1
    BY <1>7
  <2> QED
    BY <1>2, <1>3, <2>1 DEF Stream
<1>9. Head(fromGuacd).args[1] = Len(delivered) + 1
  BY <1>7, <1>8 DEF Instr
<1>10. reading' \in [Goroutine -> Nat] /\ reading'[g] = Len(delivered) + 1
       /\ \A h \in Goroutine : h # g => reading'[h] = reading[h]
  BY <1>5, <1>6, <1>7, <1>9
<1>11. TunnelTypeOK'
  BY <1>1, <1>10 DEF TunnelInv, TunnelTypeOK
<1>12. ReadsNext'
  BY <1>1, <1>2, <1>6, <1>10 DEF ReadsNext
<1> QED
  BY <1>0, <1>4, <1>11, <1>12 DEF TunnelInv

(* A reader returns the instruction it has found, and moves behind it.     *)
LEMMA EndInv ==
  ASSUME TunnelInv, hs = "up", NEW g \in Goroutine, End(g)
  PROVE  TunnelInv'
<1>1. UNCHANGED <<config, hs, asked, ConnectionID, toGuacd, guacd>>
  BY DEF End, handshake
<1>0. IInv'
  BY StepInv DEF TunnelInv, Next, End
<1>2. InTransit /\ Answered /\ Stream /\ ReadsNext /\ IInv
  BY DEF TunnelInv
<1>3. Selected' = Selected /\ Behind' = 0 /\ Got' = Got /\ Behind = 0 /\ guacd.pc = "up" /\ Got = 6
  BY <1>1, <1>2 DEF Selected, Behind, Got, Answered
<1>4. /\ fromGuacd \in Seq(FromGuacd) /\ delivered \in Seq(Nat) /\ reading \in [Goroutine -> Nat]
      /\ guacd.sent \in Nat
  BY DEF TunnelInv, TunnelTypeOK, Guacd
<1>5. /\ reading[g] # 0 /\ fromGuacd # <<>> /\ reading' = [reading EXCEPT ![g] = 0]
      /\ delivered' = Append(delivered, reading[g]) /\ fromGuacd' = Tail(fromGuacd) /\ Unlock(g)
  BY DEF End
<1>6. pc[g] = "holds" /\ reading[g] = Len(delivered) + 1
  BY <1>2, <1>5 DEF ReadsNext
<1>7. \A h \in Goroutine : reading'[h] = 0
  BY <1>2, <1>4, <1>5, <1>6, OneReads DEF ReadsNext
<1> DEFINE d == Len(delivered)
           f == Len(fromGuacd)
<1>8. /\ d \in Nat /\ f \in Nat \ {0}
      /\ fromGuacd' \in Seq(FromGuacd) /\ Len(fromGuacd') = f - 1
      /\ \A n \in 1..(f - 1) : fromGuacd'[n] = fromGuacd[n + 1]
  BY <1>4, <1>5, HeadTailProperties, LenProperties, EmptySeq
<1>9. /\ delivered' \in Seq(Nat) /\ Len(delivered') = d + 1 /\ delivered'[d + 1] = d + 1
      /\ \A n \in 1..d : delivered'[n] = delivered[n]
  BY <1>4, <1>5, <1>6
<1>10. /\ d + f = guacd.sent
       /\ \A n \in 1..f : n > 0 => fromGuacd[n] = Instr("sync", <<d + n - 0>>)
  <2>1. d + f = guacd.sent + 0
    BY <1>2, <1>3 DEF Stream
  <2>2. \A n \in 1..f : n > 0 => fromGuacd[n] = Instr("sync", <<d + n - 0>>)
    BY <1>2, <1>3 DEF Stream
  <2> QED
    BY <1>4, <2>1, <2>2
<1>11. \A n \in 1..d : delivered[n] = n
  BY <1>2 DEF ReadsNext
<1> HIDE DEF d, f
<1>12. TunnelTypeOK'
  <2>1. reading' \in [Goroutine -> Nat]
    BY <1>4, <1>5
  <2> QED
    BY <1>1, <1>8, <1>9, <2>1 DEF TunnelInv, TunnelTypeOK
<1>13. InTransit' /\ Answered'
  BY <1>1, <1>2, <1>3 DEF InTransit, Answered
<1>14. Stream'
  <2>1. (d + 1) + (f - 1) = guacd.sent + 0
    BY <1>4, <1>8, <1>10
  <2>2. \A n \in 1..(f - 1) : fromGuacd'[n] = Instr("sync", <<(d + 1) + n - 0>>)
    <3>1. \A n \in 1..(f - 1) : n + 1 \in 1..f /\ n + 1 > 0 /\ d + (n + 1) - 0 = (d + 1) + n - 0
      BY <1>8
    <3> QED
      BY <1>8, <1>10, <3>1
  <2> QED
    BY <1>1, <1>3, <1>8, <1>9, <2>1, <2>2 DEF Stream
<1>15. ReadsNext'
  <2>1. \A n \in 1..(d + 1) : n \in 1..d \/ n = d + 1
    BY <1>8
  <2>2. \A n \in 1..Len(delivered') : delivered'[n] = n
    BY <1>9, <1>11, <2>1
  <2> QED
    BY <1>1, <1>7, <2>2 DEF ReadsNext
<1> QED
  BY <1>0, <1>12, <1>13, <1>14, <1>15 DEF TunnelInv

(* Every step of the tunnel preserves the invariant.                       *)
LEMMA TunnelNextInv == TunnelInv /\ [TunnelNext]_tvars => TunnelInv'
<1> SUFFICES ASSUME TunnelInv, [TunnelNext]_tvars PROVE TunnelInv'
  OBVIOUS
<1>1. CASE Handshake /\ UNCHANGED <<vars, readers>>
  <2>1. CASE Send
    BY <1>1, <2>1, SendInv DEF Send, After
  <2> QED
    BY <1>1, <2>1, DialsInv, ReceiveArgsInv, ReceiveReadyInv, FailsInv DEF Handshake
<1>2. CASE (GuacdReads \/ GuacdSends \/ Close) /\ UNCHANGED <<vars, handshake, readers>>
  BY <1>2, GuacdReadsInv, GuacdSendsInv, CloseInv DEF Close
<1>3. ASSUME NEW g \in Goroutine, Reader(g) PROVE TunnelInv'
  <2>1. hs = "up" /\ (Acquire(g) \/ Begin(g) \/ End(g) \/ GiveUp(g))
    BY <1>3 DEF Reader
  <2>2. CASE Acquire(g)
    <3>1. pc[g] # "holds"
      BY <2>2 DEF Acquire, Lock, LockCore, UnlockCore
    <3> QED
      BY <2>1, <2>2, <3>1, LockStepInv DEF Acquire
  <2>3. CASE GiveUp(g)
    BY <2>1, <2>3, LockStepInv DEF GiveUp
  <2> QED
    BY <2>1, <2>2, <2>3, BeginInv, EndInv
<1>4. CASE UNCHANGED tvars
  BY <1>4, CloseInv DEF tvars, network
<1> QED
  BY <1>1, <1>2, <1>3, <1>4 DEF TunnelNext

LEMMA TunnelInvariance == TunnelSpec => []TunnelInv
BY TunnelInitInv, TunnelNextInv, PTL DEF TunnelSpec

(* The readers of a tunnel take turns, and their counter is exact, in the  *)
(* tunnel as in the lock alone.                                            *)
THEOREM TunnelLockIsSafe == TunnelSpec => []LockInv
<1>1. TunnelInv => LockInv
  BY HoldersExclude, NoFalseAlarm DEF TunnelInv, IInv, LockInv
<1> QED
  BY <1>1, TunnelInvariance, PTL

(* There is a value for each name, at the name's place.                    *)
LEMMA ValuesOfNames ==
  ASSUME NEW names \in Asks \cup {<<>>}
  PROVE  /\ Len(Values(names)) = Len(names)
         /\ \A n \in DOMAIN names : Values(names)[n] = ValueOf(names[n])
<1>1. names \in Seq(STRING)
  <2>1. <<>> \in Seq(STRING)
    OBVIOUS
  <2> QED
    BY <2>1, AsksAssumption
<1>2. DOMAIN names = 1..Len(names) /\ Len(names) \in Nat
  BY <1>1, LenProperties
<1>3. DOMAIN Values(names) = 1..Len(names)
  BY <1>2 DEF Values
<1>4. Len(Values(names)) = Len(names)
  BY <1>2, <1>3 DEF Values
<1> QED
  BY <1>4 DEF Values

(* When Handshake succeeds, guacd has had the whole set-up in its order,   *)
(* with a value for each name it asked for, and both ends know the         *)
(* connection by the same ID: for any names and any refusals of guacd.     *)
THEOREM HandshakeAgrees == TunnelSpec => []Agreed
<1>1. TunnelInv => Agreed
  <2> SUFFICES ASSUME TunnelInv, hs = "up" PROVE Agreed
    BY DEF Agreed
  <2>1. InTransit /\ Answered /\ guacd.got \in Seq(ToGuacd) /\ guacd.asks \in Asks \cup {<<>>}
    BY DEF TunnelInv, TunnelTypeOK, Guacd
  <2>2. Got = 6 /\ asked = guacd.asks /\ ConnectionID = guacd.gave
    BY <2>1 DEF Answered
  <2>3. Len(guacd.got) = 6 /\ DOMAIN guacd.got = 1..6
    BY <2>1, <2>2, LenProperties DEF Got
  <2>4. \A n \in 1..6 : guacd.got[n] = Wire(Selected, asked)[n]
    BY <2>1, <2>2 DEF InTransit
  <2>5. [n \in DOMAIN guacd.got |-> guacd.got[n].op]
          = <<"select", "size", "audio", "video", "image", "connect">>
    BY <2>3, <2>4, WireOps
  <2>6. Head(guacd.got).args = <<Selected>> /\ Last(guacd.got).args = Values(guacd.asks)
    <3>1. Head(guacd.got) = guacd.got[1] /\ Last(guacd.got) = guacd.got[6]
      BY <2>1, <2>3 DEF Last
    <3>2. guacd.got[1] = Instr("select", <<Selected>>)
      BY <2>4, WireAt
    <3>3. guacd.got[6] = Instr("connect", Values(guacd.asks))
      <4>1. guacd.got[6] = Wire(Selected, asked)[6]
        BY <2>4
      <4>2. Wire(Selected, asked)[6] = Instr("connect", Values(asked))
        BY WireAt
      <4> QED
        BY <2>2, <4>1, <4>2
    <3> QED
      BY <3>1, <3>2, <3>3 DEF Instr
  <2> QED
    BY <2>1, <2>2, <2>5, <2>6, ValuesOfNames DEF Agreed
<1> QED
  BY <1>1, TunnelInvariance, PTL

(* What guacd sends behind ready reaches the readers once and in order,    *)
(* whatever was already there when the handshake ended.                    *)
THEOREM ReadersGetAll == TunnelSpec => []HandedOver
<1>1. TunnelInv => HandedOver
  <2> SUFFICES ASSUME TunnelInv, hs = "up" PROVE HandedOver
    BY DEF HandedOver
  <2> DEFINE rest == [n \in DOMAIN fromGuacd |-> fromGuacd[n].args[1]]
             all == [n \in 1..guacd.sent |-> n]
             d == Len(delivered)
             f == Len(fromGuacd)
  <2>1. /\ fromGuacd \in Seq(FromGuacd) /\ delivered \in Seq(Nat) /\ guacd.sent \in Nat
        /\ Stream /\ ReadsNext /\ Answered
    BY DEF TunnelInv, TunnelTypeOK, Guacd
  <2>2. d \in Nat /\ f \in Nat /\ DOMAIN fromGuacd = 1..f
    BY <2>1, LenProperties
  <2>3. Behind = 0 /\ guacd.pc = "up"
    BY <2>1 DEF Behind, Answered
  <2>4. d + f = guacd.sent + 0 /\ \A n \in 1..f : n > 0 => fromGuacd[n] = Instr("sync", <<d + n - 0>>)
    BY <2>1, <2>3 DEF Stream
  <2>5. \A n \in 1..f : rest[n] = d + n - 0
    BY <2>2, <2>4 DEF Instr
  <2>6. rest \in Seq(Nat) /\ Len(rest) = f
    BY <2>2, <2>5
  <2>7. all \in Seq(Nat) /\ Len(all) = guacd.sent
    BY <2>1
  <2>8. /\ delivered \o rest \in Seq(Nat) /\ Len(delivered \o rest) = d + f
        /\ \A n \in 1..(d + f) : (delivered \o rest)[n] = IF n <= d THEN delivered[n] ELSE rest[n - d]
    <3>1. /\ delivered \o rest \in Seq(Nat)
          /\ Len(delivered \o rest) = Len(delivered) + Len(rest)
          /\ \A n \in 1..(Len(delivered) + Len(rest)) :
               (delivered \o rest)[n] = IF n <= Len(delivered) THEN delivered[n] ELSE rest[n - Len(delivered)]
      <4> HIDE DEF rest
      <4> QED
        BY <2>1, <2>6, ConcatProperties
    <3> QED
      BY <2>6, <3>1
  <2>9. \A n \in 1..(d + f) : (delivered \o rest)[n] = n
    <3>1. \A n \in 1..d : delivered[n] = n
      BY <2>1 DEF ReadsNext
    <3> HIDE DEF d, f, rest
    <3>2. \A n \in 1..(d + f) : IF n <= d THEN n \in 1..d ELSE n - d \in 1..f /\ d + (n - d) - 0 = n
      BY <2>2
    <3> QED
      BY <2>5, <2>8, <3>1, <3>2
  <2> HIDE DEF d, f, rest
  <2>10. d + f = guacd.sent
    BY <2>1, <2>2, <2>4
  <2>11. delivered \o rest = all
    BY <2>7, <2>8, <2>9, <2>10, SeqEqual
  <2> QED
    BY <2>11 DEF HandedOver, rest
<1> QED
  BY <1>1, TunnelInvariance, PTL
=============================================================================
