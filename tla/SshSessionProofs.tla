-------------------------- MODULE SshSessionProofs ---------------------------
(***************************************************************************)
(* Proofs about SshSession, for any number of runs, portions and messages, *)
(* any capacity of the channels, any commands and any forbidden words: what*)
(* was sent is in order, and the filter sees the line of the shell.        *)
(***************************************************************************)
EXTENDS SshSession, FiniteSetTheorems, SequenceTheorems, TLAPS

(* The number of elements of b, which are the ones up to p.                *)
Latest(b, p) == Len(b) <= p /\ \A n \in 1..Len(b) : b[n] = p - Len(b) + n

(* b begins with the portions bs.                                          *)
Begins(bs, b) == Len(bs) <= Len(b) /\ \A n \in 1..Len(bs) : bs[n] = b[n]

(* Of the portions up to p, those in s are new in order, and so are those  *)
(* of b after them.                                                        *)
Fresh(b, s, p) ==
  /\ NewInOrder(s)
  /\ \A x \in ToSet(s) : x <= p
  /\ \A n \in 1..Len(b) : b[n] \in ToSet(s) \/ \A x \in ToSet(s) : x < b[n]

LEMMA AppendIs ==
  ASSUME NEW b \in Seq(Nat), NEW p \in Nat
  PROVE  /\ Append(b, p) \in Seq(Nat) /\ Len(b) \in Nat /\ Len(Append(b, p)) = Len(b) + 1
         /\ Append(b, p)[Len(b) + 1] = p
         /\ \A n \in 1..Len(b) : Append(b, p)[n] = b[n]
OBVIOUS

LEMMA LatestAppend ==
  ASSUME NEW b \in Seq(Nat), NEW p \in Nat, Latest(b, p)
  PROVE  Latest(Append(b, p + 1), p + 1)
<1> DEFINE k == Len(b)
           c == Append(b, p + 1)
<1>1. /\ k \in Nat /\ Len(c) = k + 1 /\ c[k + 1] = p + 1 /\ \A n \in 1..k : c[n] = b[n]
  BY AppendIs
<1>2. k <= p /\ \A n \in 1..k : b[n] = p - k + n
  BY DEF Latest
<1> HIDE DEF k, c
<1>3. ASSUME NEW n \in 1..(k + 1) PROVE c[n] = (p + 1) - (k + 1) + n
  <2>1. CASE n \in 1..k
    BY <1>1, <1>2, <2>1
  <2>2. CASE n = k + 1
    BY <1>1, <2>2
  <2> QED
    BY <1>1, <2>1, <2>2
<1>4. Latest(c, p + 1)
  BY <1>1, <1>2, <1>3 DEF Latest
<1> QED
  BY <1>4 DEF c

LEMMA BeginsAppend ==
  ASSUME NEW bs \in Seq(Nat), NEW b \in Seq(Nat), NEW p \in Nat, Begins(bs, b)
  PROVE  Begins(bs, Append(b, p))
<1> DEFINE k == Len(b)
           c == Append(b, p)
<1>1. /\ k \in Nat /\ Len(c) = k + 1 /\ \A n \in 1..k : c[n] = b[n]
  BY AppendIs
<1>2. Len(bs) \in Nat /\ Len(bs) <= k /\ \A n \in 1..Len(bs) : bs[n] = b[n]
  BY DEF Begins
<1> HIDE DEF k, c
<1>3. Begins(bs, c)
  BY <1>1, <1>2 DEF Begins
<1> QED
  BY <1>3 DEF c

LEMMA FreshAppend ==
  ASSUME NEW b \in Seq(Nat), NEW s \in Seq(Nat), NEW p \in Nat, Fresh(b, s, p)
  PROVE  Fresh(Append(b, p + 1), s, p + 1)
<1> DEFINE k == Len(b)
           c == Append(b, p + 1)
<1>1. /\ k \in Nat /\ Len(c) = k + 1 /\ c[k + 1] = p + 1 /\ \A n \in 1..k : c[n] = b[n]
  BY AppendIs
<1>2. /\ NewInOrder(s) /\ \A x \in ToSet(s) : x <= p
      /\ \A n \in 1..k : b[n] \in ToSet(s) \/ \A x \in ToSet(s) : x < b[n]
  BY DEF Fresh
<1>3. ToSet(s) \subseteq Nat
  BY DEF ToSet
<1> HIDE DEF k, c
<1>4. \A x \in ToSet(s) : x <= p + 1 /\ x < p + 1
  BY <1>2, <1>3
<1>5. ASSUME NEW n \in 1..(k + 1)
      PROVE  c[n] \in ToSet(s) \/ \A x \in ToSet(s) : x < c[n]
  <2>1. CASE n \in 1..k
    BY <1>1, <1>2, <2>1
  <2>2. CASE n = k + 1
    BY <1>1, <1>4, <2>2
  <2> QED
    BY <1>1, <2>1, <2>2
<1>6. Fresh(c, s, p + 1)
  BY <1>1, <1>2, <1>4, <1>5 DEF Fresh
<1> QED
  BY <1>6 DEF c

LEMMA FreshEmpty ==
  ASSUME NEW b, NEW s, NEW p, Fresh(b, s, p)
  PROVE  Fresh(<<>>, s, p)
BY DEF Fresh

(* Sequences put together.                                                 *)
LEMMA ConcatIs ==
  ASSUME NEW s \in Seq(Nat), NEW t \in Seq(Nat)
  PROVE  /\ s \o t \in Seq(Nat) /\ Len(s) \in Nat /\ Len(t) \in Nat
         /\ DOMAIN s = 1..Len(s) /\ DOMAIN t = 1..Len(t)
         /\ DOMAIN (s \o t) = 1..(Len(s) + Len(t))
         /\ \A n \in 1..Len(s) : (s \o t)[n] = s[n]
         /\ \A n \in 1..Len(t) : (s \o t)[Len(s) + n] = t[n]
OBVIOUS

LEMMA ConcatSets ==
  ASSUME NEW s \in Seq(Nat), NEW t \in Seq(Nat)
  PROVE  ToSet(s \o t) = ToSet(s) \cup ToSet(t)
<1> DEFINE j == Len(s)
           k == Len(t)
           u == s \o t
<1>1. /\ j \in Nat /\ k \in Nat /\ DOMAIN s = 1..j /\ DOMAIN t = 1..k /\ DOMAIN u = 1..(j + k)
      /\ \A n \in 1..j : u[n] = s[n]
      /\ \A n \in 1..k : u[j + n] = t[n]
  BY ConcatIs
<1> HIDE DEF j, k, u
<1>2. ASSUME NEW n \in 1..(j + k) PROVE u[n] \in ToSet(s) \cup ToSet(t)
  <2>1. CASE n <= j
    <3>1. n \in 1..j
      BY <1>1, <2>1
    <3> QED
      BY <1>1, <3>1 DEF ToSet
  <2>2. CASE n > j
    <3>1. n - j \in 1..k /\ u[j + (n - j)] = t[n - j] /\ j + (n - j) = n
      BY <1>1, <2>2
    <3> QED
      BY <1>1, <3>1 DEF ToSet
  <2> QED
    BY <1>1, <2>1, <2>2
<1>3. ASSUME NEW x \in ToSet(s) PROVE x \in ToSet(u)
  <2>1. PICK n \in 1..j : x = s[n]
    BY <1>1 DEF ToSet
  <2>2. n \in 1..(j + k) /\ u[n] = x
    BY <1>1, <2>1
  <2> QED
    BY <1>1, <2>2 DEF ToSet
<1>4. ASSUME NEW x \in ToSet(t) PROVE x \in ToSet(u)
  <2>1. PICK n \in 1..k : x = t[n]
    BY <1>1 DEF ToSet
  <2>2. j + n \in 1..(j + k) /\ u[j + n] = x
    BY <1>1, <2>1
  <2> QED
    BY <1>1, <2>2 DEF ToSet
<1>5. \A x \in ToSet(u) : x \in ToSet(s) \cup ToSet(t)
  BY <1>1, <1>2 DEF ToSet
<1>6. ToSet(u) = ToSet(s) \cup ToSet(t)
  BY <1>3, <1>4, <1>5
<1> QED
  BY <1>6 DEF u

(* The portions sent are the first of the buffer.                          *)
LEMMA FreshSent ==
  ASSUME NEW b \in Seq(Nat), NEW s \in Seq(Nat), NEW bs \in Seq(Nat), NEW p \in Nat,
         Latest(b, p), Begins(bs, b), Fresh(b, s, p)
  PROVE  Fresh(b, s \o bs, p)
<1> DEFINE j == Len(s)
           k == Len(bs)
           m == Len(b)
           u == s \o bs
<1>1. /\ j \in Nat /\ k \in Nat /\ DOMAIN s = 1..j /\ DOMAIN bs = 1..k /\ DOMAIN u = 1..(j + k)
      /\ \A n \in 1..j : u[n] = s[n]
      /\ \A n \in 1..k : u[j + n] = bs[n]
      /\ m \in Nat
  BY ConcatIs
<1>2. /\ m <= p /\ \A n \in 1..m : b[n] = p - m + n
      /\ k <= m /\ \A n \in 1..k : bs[n] = b[n]
  BY DEF Latest, Begins
<1>3. /\ NewInOrder(s) /\ \A x \in ToSet(s) : x <= p
      /\ \A n \in 1..m : b[n] \in ToSet(s) \/ \A x \in ToSet(s) : x < b[n]
  BY DEF Fresh
<1>4. ToSet(u) = ToSet(s) \cup ToSet(bs)
  BY ConcatSets
<1>5. ToSet(s) \subseteq Nat /\ ToSet(bs) = {bs[n] : n \in 1..k} /\ ToSet(s) = {s[n] : n \in 1..j}
  BY <1>1 DEF ToSet
<1> HIDE DEF j, k, m, u
<1>6. \A n \in 1..k : bs[n] = p - m + n /\ bs[n] \in Nat /\ bs[n] <= p
  <2>1. ASSUME NEW n \in 1..k PROVE bs[n] = p - m + n /\ n <= m
    <3>1. n \in 1..m
      BY <1>1, <1>2
    <3> QED
      BY <1>2, <3>1
  <2>2. ASSUME NEW n \in 1..k PROVE p - m + n \in Nat /\ p - m + n <= p
    BY <1>1, <1>2, <2>1
  <2> QED
    BY <2>1, <2>2
<1>7. \A x \in ToSet(u) : x <= p
  BY <1>3, <1>4, <1>5, <1>6
<1>8. ASSUME NEW n \in 1..m PROVE b[n] \in ToSet(u) \/ \A x \in ToSet(u) : x < b[n]
  <2>1. CASE n <= k
    <3>1. n \in 1..k /\ b[n] = bs[n]
      BY <1>1, <1>2, <2>1
    <3> QED
      BY <1>4, <1>5, <3>1
  <2>2. CASE n > k
    <3>1. \A i \in 1..k : bs[i] < b[n]
      BY <1>1, <1>2, <1>6, <2>2
    <3> QED
      BY <1>3, <1>4, <1>5, <3>1
  <2> QED
    BY <1>1, <2>1, <2>2
<1>9. ASSUME NEW n \in 1..(j + k)
      PROVE  u[n] \in {u[l] : l \in 1..(n - 1)} \/ \A x \in {u[l] : l \in 1..(n - 1)} : x < u[n]
  <2>1. CASE n <= j
    <3>1. n \in 1..j /\ \A l \in 1..(n - 1) : l \in 1..j
      BY <1>1, <2>1
    <3>2. {u[l] : l \in 1..(n - 1)} = {s[l] : l \in 1..(n - 1)} /\ u[n] = s[n]
      BY <1>1, <3>1
    <3>3. s[n] \in {s[l] : l \in 1..(n - 1)} \/ \A x \in {s[l] : l \in 1..(n - 1)} : x < s[n]
      BY <1>1, <1>3, <3>1 DEF NewInOrder
    <3> QED
      BY <3>2, <3>3
  <2>2. CASE n > j
    <3> PICK i \in 1..k : n = j + i
      <4>1. n - j \in 1..k /\ n = j + (n - j)
        BY <1>1, <2>2
      <4> QED
        BY <4>1
    <3>1. u[n] = bs[i] /\ i \in 1..m /\ b[i] = bs[i]
      BY <1>1, <1>2
    <3>2. CASE bs[i] \in ToSet(s)
      <4>1. PICK l \in 1..j : s[l] = bs[i]
        BY <1>5, <3>2
      <4>2. l \in 1..(n - 1) /\ u[l] = u[n]
        BY <1>1, <2>2, <3>1, <4>1
      <4> QED
        BY <4>2
    <3>3. CASE \A x \in ToSet(s) : x < bs[i]
      <4>1. ASSUME NEW l \in 1..(n - 1) PROVE u[l] < u[n]
        <5>1. CASE l <= j
          <6>1. l \in 1..j /\ u[l] = s[l] /\ s[l] \in ToSet(s)
            BY <1>1, <1>5, <5>1
          <6> QED
            BY <3>1, <3>3, <6>1
        <5>2. CASE l > j
          <6>1. l - j \in 1..k /\ u[j + (l - j)] = bs[l - j] /\ j + (l - j) = l /\ l - j < i
            BY <1>1, <5>2
          <6>2. bs[l - j] < bs[i]
            BY <1>1, <1>2, <1>6, <6>1
          <6> QED
            BY <3>1, <6>1, <6>2
        <5> QED
          BY <1>1, <5>1, <5>2
      <4> QED
        BY <4>1
    <3> QED
      BY <1>3, <3>1, <3>2, <3>3
  <2> QED
    BY <1>1, <2>1, <2>2
<1>10. NewInOrder(u)
  BY <1>1, <1>9 DEF NewInOrder
<1>11. Fresh(b, u, p)
  BY <1>7, <1>8, <1>10 DEF Fresh, m
<1> QED
  BY <1>11 DEF u

-----------------------------------------------------------------------------
(* The output: the shell's portions on their way through the buffer to the *)
(* websocket and to the log.                                               *)

Senders ==
  [pc : {"off", "select", "bytes", "write", "log", "reset", "quit", "done"}, bs : Seq(Nat)]

(* The goroutine snd that sends the portions of the buffer b, of which p   *)
(* have been written, and what is in sent, s, and in log, l.               *)
InTurn(b, p, s, l, snd) ==
  /\ Fresh(b, s, p) /\ Fresh(b, l, p)
  /\ snd.pc \in {"write", "log", "reset"} => Begins(snd.bs, b)
  /\ ToSet(s) \subseteq ToSet(l) \cup (IF snd.pc = "log" THEN ToSet(snd.bs) ELSE {})

OutTypes ==
  /\ produced \in 0..Portions
  /\ buffer \in Seq(Nat) /\ sent \in Seq(Nat) /\ log \in Seq(Nat)
  /\ sender \in [Run -> Senders]

RunsOK == runs \in Run /\ open \in [Run -> BOOLEAN]

OutInv ==
  /\ OutTypes /\ RunsOK
  /\ Latest(buffer, produced)
  /\ \A r \in Run : r > runs => sender[r] = Off
  /\ runs = 1 => InTurn(buffer, produced, sent, log, sender[1])

LEMMA TurnStays ==
  ASSUME NEW b, NEW p, NEW s, NEW l, NEW snd, NEW to, InTurn(b, p, s, l, snd),
         to.pc \notin {"write", "log", "reset"}, snd.pc # "log"
  PROVE  InTurn(b, p, s, l, to)
BY DEF InTurn

LEMMA TurnProduced ==
  ASSUME NEW b \in Seq(Nat), NEW p \in Nat, NEW s \in Seq(Nat), NEW l \in Seq(Nat),
         NEW snd \in Senders, InTurn(b, p, s, l, snd)
  PROVE  InTurn(Append(b, p + 1), p + 1, s, l, snd)
<1>1. /\ Fresh(b, s, p) /\ Fresh(b, l, p)
      /\ snd.pc \in {"write", "log", "reset"} => Begins(snd.bs, b)
      /\ ToSet(s) \subseteq ToSet(l) \cup (IF snd.pc = "log" THEN ToSet(snd.bs) ELSE {})
  BY DEF InTurn
<1>2. Fresh(Append(b, p + 1), s, p + 1) /\ Fresh(Append(b, p + 1), l, p + 1)
  BY <1>1, FreshAppend
<1>3. snd.bs \in Seq(Nat) /\ p + 1 \in Nat
  BY DEF Senders
<1>4. snd.pc \in {"write", "log", "reset"} => Begins(snd.bs, Append(b, p + 1))
  BY <1>1, <1>3, BeginsAppend
<1> QED
  BY <1>1, <1>2, <1>4 DEF InTurn

LEMMA TurnTakes ==
  ASSUME NEW b \in Seq(Nat), NEW p, NEW s, NEW l, NEW snd, NEW to, InTurn(b, p, s, l, snd),
         snd.pc = "bytes", to.pc \in {"select", "write"}, to.bs = b
  PROVE  InTurn(b, p, s, l, to)
<1>1. Begins(b, b)
  BY DEF Begins
<1> QED
  BY <1>1 DEF InTurn

LEMMA TurnWrites ==
  ASSUME NEW b \in Seq(Nat), NEW p \in Nat, NEW s \in Seq(Nat), NEW l \in Seq(Nat),
         NEW snd \in Senders, NEW to, InTurn(b, p, s, l, snd), Latest(b, p),
         snd.pc = "write", to.pc = "log", to.bs = snd.bs, NEW t, t = s \o snd.bs \/ t = s
  PROVE  InTurn(b, p, t, l, to)
<1>1. /\ Fresh(b, s, p) /\ Fresh(b, l, p) /\ Begins(snd.bs, b) /\ ToSet(s) \subseteq ToSet(l)
      /\ snd.bs \in Seq(Nat)
  BY DEF InTurn, Senders
<1>2. CASE t = s
  BY <1>1, <1>2 DEF InTurn
<1>3. CASE t = s \o snd.bs
  <2>1. Fresh(b, t, p)
    BY <1>1, <1>3, FreshSent
  <2>2. ToSet(t) = ToSet(s) \cup ToSet(snd.bs)
    BY <1>1, <1>3, ConcatSets
  <2> QED
    BY <1>1, <2>1, <2>2 DEF InTurn
<1> QED
  BY <1>2, <1>3

LEMMA TurnLogs ==
  ASSUME NEW b \in Seq(Nat), NEW p \in Nat, NEW s \in Seq(Nat), NEW l \in Seq(Nat),
         NEW snd \in Senders, NEW to, InTurn(b, p, s, l, snd), Latest(b, p),
         snd.pc = "log", to.pc = "reset", to.bs = snd.bs
  PROVE  InTurn(b, p, s, l \o snd.bs, to)
<1>1. /\ Fresh(b, s, p) /\ Fresh(b, l, p) /\ Begins(snd.bs, b)
      /\ ToSet(s) \subseteq ToSet(l) \cup ToSet(snd.bs)
      /\ snd.bs \in Seq(Nat)
  BY DEF InTurn, Senders
<1>2. Fresh(b, l \o snd.bs, p)
  BY <1>1, FreshSent
<1>3. ToSet(l \o snd.bs) = ToSet(l) \cup ToSet(snd.bs)
  BY <1>1, ConcatSets
<1> QED
  BY <1>1, <1>2, <1>3 DEF InTurn

LEMMA TurnEmptied ==
  ASSUME NEW b, NEW p, NEW s, NEW l, NEW snd, NEW to, InTurn(b, p, s, l, snd),
         snd.pc = "reset", to.pc = "select"
  PROVE  InTurn(<<>>, p, s, l, to)
BY FreshEmpty DEF InTurn

LEMMA InitOut == Init => OutInv
<1> SUFFICES ASSUME Init PROVE OutInv
  OBVIOUS
<1>1. /\ produced = 0 /\ buffer = <<>> /\ sent = <<>> /\ log = <<>> /\ runs = 1
      /\ sender = [r \in Run |-> Off] /\ open = [r \in Run |-> r = 1] /\ 1 \in Run
      /\ Portions \in Nat
  BY BoundAssumption DEF Init, Run
<1>2. OutTypes
  BY <1>1 DEF OutTypes, Off, Senders
<1>3. RunsOK
  BY <1>1 DEF RunsOK
<1>4. Latest(<<>>, 0)
  BY DEF Latest
<1>5. ToSet(<<>>) = {}
  BY DEF ToSet
<1>6. Fresh(<<>>, <<>>, 0)
  BY <1>5 DEF Fresh, NewInOrder
<1>7. InTurn(<<>>, 0, <<>>, <<>>, Off)
  BY <1>5, <1>6 DEF InTurn, Off
<1> QED
  BY <1>1, <1>2, <1>3, <1>4, <1>7 DEF OutInv

(* Steps that leave the output alone.                                      *)
LEMMA OutStays ==
  ASSUME OutInv, UNCHANGED <<output, sender>>, RunsOK', runs' \in Nat, runs' >= runs
  PROVE  OutInv'
<1>1. OutTypes'
  BY DEF OutInv, OutTypes, output
<1>2. \A r \in Run : r > runs' => sender'[r] = Off
  <2>1. \A r \in Run : r > runs' => r > runs
    BY DEF OutInv, RunsOK, Run
  <2> QED
    BY <2>1 DEF OutInv
<1>3. runs' = 1 => runs = 1
  BY DEF OutInv, RunsOK, Run
<1>4. Latest(buffer', produced')
  BY DEF OutInv, output
<1>5. runs' = 1 => InTurn(buffer', produced', sent', log', sender'[1])
  BY <1>3 DEF OutInv, output
<1> QED
  BY <1>1, <1>2, <1>4, <1>5 DEF OutInv

LEMMA ProduceOut ==
  ASSUME OutInv, produced < Portions, produced' = produced + 1,
         buffer' = Append(buffer, produced + 1), UNCHANGED <<sent, log, runs, open>>,
         sender' \in [Run -> Senders],
         \A r \in Run : r > runs => sender'[r] = Off,
         runs = 1 => \/ sender'[1] = sender[1]
                     \/ sender'[1].pc \notin {"write", "log", "reset"} /\ sender[1].pc # "log"
  PROVE  OutInv'
<1>1. /\ OutTypes /\ RunsOK /\ Latest(buffer, produced)
      /\ runs = 1 => InTurn(buffer, produced, sent, log, sender[1])
      /\ 1 \in Run /\ Portions \in Nat
  BY BoundAssumption DEF OutInv, Run
<1>2. produced \in Nat /\ buffer \in Seq(Nat) /\ sent \in Seq(Nat) /\ log \in Seq(Nat)
      /\ sender[1] \in Senders /\ produced + 1 \in 0..Portions
  BY <1>1 DEF OutTypes
<1>3. Append(buffer, produced + 1) \in Seq(Nat) /\ Latest(Append(buffer, produced + 1), produced + 1)
  BY <1>1, <1>2, AppendIs, LatestAppend
<1>4. OutTypes'
  BY <1>1, <1>2, <1>3 DEF OutTypes
<1>5. ASSUME runs = 1 PROVE InTurn(buffer', produced', sent', log', sender'[1])
  <2>1. InTurn(buffer', produced', sent', log', sender[1])
    BY <1>1, <1>2, <1>5, TurnProduced
  <2> QED
    BY <1>5, <2>1, TurnStays
<1> QED
  BY <1>1, <1>3, <1>4, <1>5 DEF OutInv, RunsOK

(* A step of the goroutine that sends; with one run it is the only one.    *)
LEMMA SendsOut ==
  ASSUME OutInv, NEW r \in Run, Sends(r)
  PROVE  OutInv'
<1>1. /\ OutTypes /\ RunsOK /\ Latest(buffer, produced)
      /\ \A q \in Run : q > runs => sender[q] = Off
      /\ runs = 1 => InTurn(buffer, produced, sent, log, sender[1])
      /\ 1 \in Run
  BY BoundAssumption DEF OutInv, Run
<1>2. /\ produced \in Nat /\ buffer \in Seq(Nat) /\ sent \in Seq(Nat) /\ log \in Seq(Nat)
      /\ sender \in [Run -> Senders] /\ sender[r] \in Senders /\ sender[r].bs \in Seq(Nat)
  BY <1>1 DEF OutTypes, Senders
<1>3. UNCHANGED <<runs, open>> /\ RunsOK'
  BY <1>1 DEF Sends, outside, RunsOK
<1>4. sender[r].pc # "off"
  BY DEF Sends, SenderQuits, Ticks, TakeBytes, WriteWs, WriteLog, Reset, ResetRaces, SenderTells
<1>5. ~(r > runs)
  BY <1>1, <1>4 DEF Off
<1>6. runs = 1 => r = 1
  BY <1>5 DEF Run
<1>7. ASSUME NEW to \in Senders, sender' = [sender EXCEPT ![r] = to]
      PROVE  /\ sender' \in [Run -> Senders] /\ sender'[r] = to
             /\ \A q \in Run : q > runs => sender'[q] = Off
  <2>1. \A q \in Run : q > runs => q # r
    BY <1>5
  <2> QED
    BY <1>1, <1>2, <1>7, <2>1
<1>8. ASSUME NEW to \in Senders, sender' = [sender EXCEPT ![r] = to],
             produced' = produced, buffer' \in Seq(Nat), sent' \in Seq(Nat), log' \in Seq(Nat),
             Latest(buffer', produced'),
             InTurn(buffer, produced, sent, log, sender[r])
               => InTurn(buffer', produced', sent', log', to)
      PROVE  OutInv'
  <2>1. OutTypes'
    BY <1>1, <1>7, <1>8 DEF OutTypes
  <2>2. runs' = 1 => InTurn(buffer', produced', sent', log', sender'[1])
    BY <1>1, <1>3, <1>6, <1>7, <1>8
  <2> QED
    BY <1>3, <1>7, <1>8, <2>1, <2>2 DEF OutInv
<1>9. ASSUME NEW c \in {"bytes", "log", "reset", "quit", "done"}, SenderAt(r, c)
      PROVE  /\ [sender[r] EXCEPT !.pc = c] \in Senders
             /\ sender' = [sender EXCEPT ![r] = [sender[r] EXCEPT !.pc = c]]
             /\ [sender[r] EXCEPT !.pc = c].pc = c
             /\ [sender[r] EXCEPT !.pc = c].bs = sender[r].bs
  BY <1>2, <1>9 DEF SenderAt, Senders
<1>10. CASE SenderQuits(r) \/ Ticks(r) \/ SenderTells(r)
  <2>1. /\ UNCHANGED output /\ sender[r].pc \in {"select", "quit"}
        /\ \E c \in {"bytes", "quit", "done"} : SenderAt(r, c)
    BY <1>10 DEF SenderQuits, Ticks, SenderTells
  <2> PICK c \in {"bytes", "quit", "done"} : SenderAt(r, c)
    BY <2>1
  <2> QED
    BY <1>1, <1>2, <1>8, <1>9, <2>1, TurnStays DEF output
<1>11. ASSUME UNCHANGED <<output, sender>> PROVE OutInv'
  <2>1. runs' \in Nat /\ runs' >= runs
    BY <1>1, <1>3 DEF RunsOK, Run
  <2> QED
    BY <1>3, <1>11, <2>1, OutStays
<1>12. CASE TakeBytes(r)
  <2>1. CASE Panic
    BY <1>11, <2>1 DEF Panic
  <2>2. CASE ~Panic
    <3> PICK c : c = IF buffer = <<>> THEN "select" ELSE "write"
      OBVIOUS
    <3>1. /\ UNCHANGED output /\ sender[r].pc = "bytes" /\ c \in {"select", "write"}
          /\ sender' = [sender EXCEPT ![r] = [pc |-> c, bs |-> buffer]]
      BY <1>12, <2>2 DEF TakeBytes
    <3>2. [pc |-> c, bs |-> buffer] \in Senders
      BY <1>2, <3>1 DEF Senders
    <3> QED
      BY <1>1, <1>2, <1>8, <3>1, <3>2, TurnTakes, ZenonT(60) DEF output
  <2> QED
    BY <2>1, <2>2
<1>13. CASE WriteWs(r)
  <2>1. /\ sender[r].pc = "write" /\ SenderAt(r, "log") /\ UNCHANGED <<produced, buffer, log>>
        /\ sent' = sent \o sender[r].bs \/ sent' = sent
    BY <1>13 DEF WriteWs
  <2>2. sent' \in Seq(Nat)
    BY <1>2, <2>1, ConcatIs, ZenonT(60)
  <2> DEFINE to == [sender[r] EXCEPT !.pc = "log"]
  <2>3. /\ to \in Senders /\ to.pc = "log" /\ to.bs = sender[r].bs
        /\ sender' = [sender EXCEPT ![r] = to]
    BY <1>9, <2>1
  <2> HIDE DEF to
  <2>4. InTurn(buffer, produced, sent, log, sender[r])
          => InTurn(buffer, produced, sent', log, to)
    BY <1>1, <1>2, <2>1, <2>2, <2>3, TurnWrites
  <2> QED
    BY <1>1, <1>2, <1>8, <2>1, <2>2, <2>3, <2>4
<1>14. CASE WriteLog(r)
  <2>1. CASE Panic
    BY <1>11, <2>1 DEF Panic
  <2>2. CASE ~Panic
    <3>1. /\ sender[r].pc = "log" /\ SenderAt(r, "reset") /\ UNCHANGED <<produced, buffer, sent>>
          /\ log' = log \o sender[r].bs
      BY <1>14, <2>2 DEF WriteLog
    <3>2. log' \in Seq(Nat)
      BY <1>2, <3>1, ConcatIs
    <3> QED
      BY <1>1, <1>2, <1>8, <1>9, <3>1, <3>2, TurnLogs
  <2> QED
    BY <2>1, <2>2
<1>15. Idle \in Senders /\ Idle.pc = "select"
  BY DEF Idle, Senders
<1>16. CASE Reset(r)
  <2>1. CASE Panic
    BY <1>11, <2>1 DEF Panic
  <2>2. CASE ~Panic
    <3>1. /\ sender[r].pc = "reset" /\ sender' = [sender EXCEPT ![r] = Idle]
          /\ UNCHANGED <<produced, sent, log>> /\ buffer' = <<>>
      BY <1>16, <2>2 DEF Reset
    <3>2. <<>> \in Seq(Nat) /\ Latest(<<>>, produced)
      BY <1>2 DEF Latest
    <3> QED
      BY <1>1, <1>2, <1>8, <1>15, <3>1, <3>2, TurnEmptied
  <2> QED
    BY <2>1, <2>2
<1>17. CASE ResetRaces(r)
  <2>1. /\ sender[r].pc = "reset" /\ sender' = [sender EXCEPT ![r] = Idle]
        /\ produced < Portions /\ produced' = produced + 1
        /\ buffer' = Append(buffer, produced + 1) /\ UNCHANGED <<sent, log>>
    BY <1>17 DEF ResetRaces
  <2>2. /\ sender' \in [Run -> Senders] /\ sender'[r] = Idle
        /\ \A q \in Run : q > runs => sender'[q] = Off
    BY <1>7, <1>15, <2>1
  <2> QED
    BY <1>3, <1>6, <1>15, <2>1, <2>2, ProduceOut
<1> QED
  BY <1>10, <1>12, <1>13, <1>14, <1>16, <1>17 DEF Sends

-----------------------------------------------------------------------------
(* Sequences of bytes and what they make of a line.                        *)

(* A set of numbers up to N that is not empty has a largest one: otherwise *)
(* the successor would map the numbers below some member to those but 0.   *)
LEMMA Largest ==
  ASSUME NEW N \in Nat, NEW S \in SUBSET (0..N), S # {}
  PROVE  \E m \in S : \A n \in S : n <= m
<1> SUFFICES ASSUME \A m \in S : \E n \in S : n > m PROVE FALSE
  OBVIOUS
<1> DEFINE below == {n \in 0..N : \E m \in S : n <= m}
           next == [i \in below |-> i + 1]
<1>1. IsFiniteSet(below) /\ 0 \in below
  <2>1. below \in SUBSET (0..N)
    OBVIOUS
  <2>2. IsFiniteSet(0..N)
    BY FS_Interval
  <2>3. 0 \in below
    <3> PICK m \in S : TRUE
      OBVIOUS
    <3> QED
      OBVIOUS
  <2> QED
    BY <2>1, <2>2, <2>3, FS_Subset
<1>2. next \in [below -> below \ {0}]
  <2>1. ASSUME NEW i \in below PROVE i + 1 \in below \ {0}
    <3>1. PICK m \in S : i <= m
      OBVIOUS
    <3>2. PICK n \in S : n > m
      OBVIOUS
    <3>3. n \in 0..N /\ i + 1 <= n
      BY <3>1, <3>2
    <3> QED
      BY <3>3
  <2> QED
    BY <2>1
<1>3. IsFiniteSet(below \ {0}) /\ Cardinality(below \ {0}) < Cardinality(below)
  <2>1. Cardinality(below) \in Nat
    BY <1>1, FS_CardinalityType
  <2> HIDE DEF below
  <2>2. IsFiniteSet(below \ {0})
    BY <1>1, FS_RemoveElement
  <2>3. Cardinality(below \ {0}) = Cardinality(below) - 1
    BY <1>1, FS_RemoveElement
  <2> QED
    BY <2>1, <2>2, <2>3
<1>4. \E i, j \in below : i # j /\ next[i] = next[j]
  <2> HIDE DEF next, below
  <2> QED
    BY <1>1, <1>2, <1>3, FS_PigeonHole
<1> QED
  BY <1>4

LEMMA LastOver ==
  ASSUME NEW s \in Seq(Byte), Over(s) # {}
  PROVE  \E n \in Over(s) : IsLastOver(s, n)
<1>1. Len(s) \in Nat /\ DOMAIN s = 1..Len(s)
  BY LenProperties
<1>2. Over(s) \in SUBSET (0..Len(s))
  BY <1>1 DEF Over
<1>3. \E m \in Over(s) : \A n \in Over(s) : n <= m
  BY <1>1, <1>2, Largest
<1> QED
  BY <1>3 DEF IsLastOver

LEMMA OverIs ==
  ASSUME NEW s \in Seq(Byte), NEW n \in Over(s)
  PROVE  n \in 1..Len(s) /\ Len(s) \in Nat
<1>1. Len(s) \in Nat /\ DOMAIN s = 1..Len(s)
  BY LenProperties
<1> QED
  BY <1>1 DEF Over

(* A byte that makes the shell forget the line is the last such byte of at *)
(* most one place.                                                         *)
LEMMA AfterLast ==
  ASSUME NEW l, NEW s \in Seq(Byte), NEW n, IsLastOver(s, n)
  PROVE  After(l, s) = SubSeq(s, n + 1, Len(s))
<1>1. n \in Over(s) /\ Over(s) \subseteq Int
  BY OverIs DEF IsLastOver
<1>2. \A m : IsLastOver(s, m) => m = n
  <2> SUFFICES ASSUME NEW m, IsLastOver(s, m) PROVE m = n
    OBVIOUS
  <2>1. m \in Over(s) /\ m <= n /\ n <= m
    BY <1>1 DEF IsLastOver
  <2> QED
    BY <1>1, <2>1
<1>3. (CHOOSE m \in Over(s) : IsLastOver(s, m)) = n
  BY <1>1, <1>2
<1> QED
  BY <1>1, <1>3 DEF After

LEMMA AfterNone ==
  ASSUME NEW l, NEW s, Over(s) = {}
  PROVE  After(l, s) = l \o s
BY DEF After

LEMMA Ending ==
  ASSUME NEW s \in Seq(Byte), NEW n \in 0..Len(s)
  PROVE  /\ SubSeq(s, n + 1, Len(s)) \in Seq(Byte)
         /\ Len(SubSeq(s, n + 1, Len(s))) = Len(s) - n
         /\ \A i \in 1..(Len(s) - n) : SubSeq(s, n + 1, Len(s))[i] = s[n + i]
<1>1. Len(s) \in Nat /\ n \in Nat /\ n + 1 \in Int /\ Len(s) \in Int
  BY LenProperties
<1>2. \A i \in (n + 1)..Len(s) : s[i] \in Byte
  <2>1. \A i \in (n + 1)..Len(s) : i \in 1..Len(s)
    BY <1>1
  <2> QED
    BY <2>1, ElementOfSeq
<1> PICK k : k = Len(s)
  OBVIOUS
<1>3. /\ SubSeq(s, n + 1, k) \in Seq(Byte)
      /\ Len(SubSeq(s, n + 1, k)) = IF n + 1 <= k THEN k - (n + 1) + 1 ELSE 0
      /\ \A i \in 1..(k - (n + 1) + 1) : SubSeq(s, n + 1, k)[i] = s[n + 1 + i - 1]
  BY <1>1, <1>2, SubSeqProperties
<1>4. Len(SubSeq(s, n + 1, k)) = k - n
  BY <1>1, <1>3
<1>5. ASSUME NEW i \in 1..(k - n) PROVE SubSeq(s, n + 1, k)[i] = s[n + i]
  <2>1. i \in 1..(k - (n + 1) + 1) /\ n + 1 + i - 1 = n + i
    BY <1>1
  <2> QED
    BY <1>3, <2>1
<1> QED
  BY <1>3, <1>4, <1>5

LEMMA AfterType ==
  ASSUME NEW l \in Seq(Byte), NEW s \in Seq(Byte)
  PROVE  After(l, s) \in Seq(Byte)
<1>1. CASE Over(s) = {}
  BY <1>1, AfterNone, ConcatProperties
<1>2. CASE Over(s) # {}
  <2>1. PICK n \in Over(s) : IsLastOver(s, n)
    BY <1>2, LastOver
  <2>2. n \in 0..Len(s)
    BY OverIs
  <2>3. SubSeq(s, n + 1, Len(s)) \in Seq(Byte)
    BY <2>2, Ending
  <2>4. After(l, s) = SubSeq(s, n + 1, Len(s))
    BY <2>1, AfterLast
  <2> QED
    BY <2>3, <2>4
<1> QED
  BY <1>1, <1>2

LEMMA AfterNothing ==
  ASSUME NEW l \in Seq(Byte)
  PROVE  After(l, <<>>) = l
<1>1. Over(<<>>) = {}
  BY DEF Over
<1> QED
  BY <1>1, AfterNone, ConcatEmptySeq

(* Bytes that end in a return or an interrupt leave nothing.               *)
LEMMA AfterEnd ==
  ASSUME NEW l, NEW s \in Seq(Byte), s # <<>>, s[Len(s)] \in {"cr", "etx"}
  PROVE  Over(s) # {} /\ After(l, s) = <<>>
<1>1. Len(s) \in Nat \ {0} /\ DOMAIN s = 1..Len(s)
  BY EmptySeq, LenProperties
<1>2. Len(s) \in Over(s) /\ \A n \in Over(s) : n <= Len(s)
  BY <1>1 DEF Over
<1>3. IsLastOver(s, Len(s))
  BY <1>2 DEF IsLastOver
<1>4. SubSeq(s, Len(s) + 1, Len(s)) = <<>>
  <2> PICK k : k = Len(s)
    OBVIOUS
  <2>1. k \in Int /\ k + 1 \in Int /\ k < k + 1
    BY <1>1
  <2> QED
    BY <2>1, SubSeqEmpty
<1> QED
  BY <1>2, <1>3, <1>4, AfterLast

LEMMA AfterForgets ==
  ASSUME NEW l, NEW k, NEW s \in Seq(Byte), Over(s) # {}
  PROVE  After(l, s) = After(k, s)
BY LastOver, AfterLast

(* The places of the bytes that end a line, when sequences are put together*)
LEMMA OverConcat ==
  ASSUME NEW s \in Seq(Byte), NEW t \in Seq(Byte)
  PROVE  /\ \A n \in Over(s) : n \in Over(s \o t)
         /\ \A n \in Over(t) : Len(s) + n \in Over(s \o t)
         /\ \A n \in Over(s \o t) : IF n <= Len(s) THEN n \in Over(s) ELSE n - Len(s) \in Over(t)
<1> PICK j, k, u : j = Len(s) /\ k = Len(t) /\ u = s \o t
  OBVIOUS
<1>1. /\ j \in Nat /\ k \in Nat /\ DOMAIN s = 1..j /\ DOMAIN t = 1..k
      /\ u \in Seq(Byte) /\ Len(u) = j + k /\ DOMAIN u = 1..(j + k)
  BY LenProperties, ConcatProperties
<1>2. \A n \in 1..(j + k) : u[n] = IF n <= j THEN s[n] ELSE t[n - j]
  BY ConcatProperties
<1>3. ASSUME NEW n \in Over(s) PROVE n \in Over(u)
  <2>1. n \in 1..j /\ s[n] \in {"cr", "etx"}
    BY <1>1 DEF Over
  <2>2. n \in 1..(j + k) /\ n <= j
    BY <1>1, <2>1
  <2> QED
    BY <1>1, <1>2, <2>1, <2>2 DEF Over
<1>4. ASSUME NEW n \in Over(t) PROVE j + n \in Over(u)
  <2>1. n \in 1..k /\ t[n] \in {"cr", "etx"}
    BY <1>1 DEF Over
  <2>2. j + n \in 1..(j + k) /\ ~(j + n <= j) /\ (j + n) - j = n
    BY <1>1, <2>1
  <2>3. u[j + n] = t[n]
    BY <1>2, <2>2
  <2> QED
    BY <1>1, <2>1, <2>2, <2>3 DEF Over
<1>5. ASSUME NEW n \in Over(u) PROVE IF n <= j THEN n \in Over(s) ELSE n - j \in Over(t)
  <2>1. n \in 1..(j + k) /\ u[n] \in {"cr", "etx"}
    BY <1>1 DEF Over
  <2>2. CASE n <= j
    <3>1. n \in 1..j /\ s[n] = u[n]
      BY <1>1, <1>2, <2>1, <2>2
    <3> QED
      BY <1>1, <2>1, <2>2, <3>1 DEF Over
  <2>3. CASE ~(n <= j)
    <3>1. n - j \in 1..k
      BY <1>1, <2>1, <2>3
    <3>2. t[n - j] = u[n]
      BY <1>2, <2>1, <2>3
    <3> QED
      BY <1>1, <2>1, <2>3, <3>1, <3>2 DEF Over
  <2> QED
    BY <2>2, <2>3
<1> QED
  BY <1>3, <1>4, <1>5

(* The line does not tell bytes written at once from bytes in pieces.      *)
LEMMA AfterAfter ==
  ASSUME NEW l \in Seq(Byte), NEW s \in Seq(Byte), NEW t \in Seq(Byte)
  PROVE  After(After(l, s), t) = After(l, s \o t)
<1> PICK j, k, u : j = Len(s) /\ k = Len(t) /\ u = s \o t
  OBVIOUS
<1>1. /\ j \in Nat /\ k \in Nat /\ DOMAIN s = 1..j /\ DOMAIN t = 1..k
      /\ u \in Seq(Byte) /\ Len(u) = j + k /\ DOMAIN u = 1..(j + k)
  BY LenProperties, ConcatProperties
<1>2. \A n \in 1..(j + k) : u[n] = IF n <= j THEN s[n] ELSE t[n - j]
  BY ConcatProperties
<1>3. /\ \A n \in Over(s) : n \in Over(u) /\ n \in 1..j
      /\ \A n \in Over(t) : j + n \in Over(u) /\ n \in 1..k
      /\ \A n \in Over(u) : IF n <= j THEN n \in Over(s) ELSE n - j \in Over(t)
  BY OverConcat, OverIs
<1>4. CASE Over(t) # {}
  <2>1. PICK n \in Over(t) : IsLastOver(t, n)
    BY <1>4, LastOver
  <2>2. n \in 1..k /\ \A m \in Over(t) : m <= n
    BY <1>3, <2>1 DEF IsLastOver
  <2>3. IsLastOver(u, j + n)
    <3>1. ASSUME NEW m \in Over(u) PROVE m <= j + n
      <4>1. m \in 1..(j + k)
        BY <1>1, OverIs
      <4>2. CASE m <= j
        BY <1>1, <2>2, <4>1, <4>2
      <4>3. CASE ~(m <= j)
        <5>1. m - j \in Over(t) /\ m - j <= n
          BY <1>3, <2>2, <4>3
        <5> QED
          BY <1>1, <2>2, <4>1, <5>1
      <4> QED
        BY <4>2, <4>3
    <3> QED
      BY <1>3, <3>1 DEF IsLastOver
  <2> PICK e, f : e = SubSeq(t, n + 1, Len(t)) /\ f = SubSeq(u, (j + n) + 1, Len(u))
    OBVIOUS
  <2>4. After(After(l, s), t) = e
    BY <2>1, AfterLast
  <2>5. After(l, u) = f
    BY <1>1, <2>3, AfterLast
  <2>6. e \in Seq(Byte) /\ Len(e) = k - n /\ \A i \in 1..(k - n) : e[i] = t[n + i]
    <3>1. n \in 0..Len(t)
      BY <1>1, <2>2
    <3> QED
      BY <3>1, Ending
  <2>7. f \in Seq(Byte) /\ Len(f) = k - n /\ \A i \in 1..(k - n) : f[i] = u[(j + n) + i]
    <3> PICK o : o = j + n
      OBVIOUS
    <3>1. o \in 0..Len(u) /\ Len(u) - o = k - n
      BY <1>1, <2>2
    <3>2. /\ SubSeq(u, o + 1, Len(u)) \in Seq(Byte)
          /\ Len(SubSeq(u, o + 1, Len(u))) = Len(u) - o
          /\ \A i \in 1..(Len(u) - o) : SubSeq(u, o + 1, Len(u))[i] = u[o + i]
      BY <1>1, <3>1, Ending
    <3>3. f \in Seq(Byte) /\ Len(f) = k - n /\ \A i \in 1..(k - n) : f[i] = u[o + i]
      BY <3>1, <3>2
    <3> QED
      BY <3>3
  <2>8. ASSUME NEW i \in 1..(k - n) PROVE e[i] = f[i]
    <3>1. (j + n) + i \in 1..(j + k) /\ ~((j + n) + i <= j) /\ ((j + n) + i) - j = n + i
      BY <1>1, <2>2
    <3> QED
      BY <1>2, <2>6, <2>7, <3>1
  <2>9. Len(e) = Len(f) /\ \A i \in 1..Len(e) : e[i] = f[i]
    BY <2>6, <2>7, <2>8
  <2>10. e = f
    BY <2>6, <2>7, <2>9, SeqEqual
  <2> QED
    BY <2>4, <2>5, <2>10
<1>5. CASE Over(t) = {} /\ Over(s) # {}
  <2>1. PICK n \in Over(s) : IsLastOver(s, n)
    BY <1>5, LastOver
  <2>2. n \in 1..j /\ \A m \in Over(s) : m <= n
    BY <1>3, <2>1 DEF IsLastOver
  <2>3. IsLastOver(u, n)
    BY <1>3, <1>5, <2>2 DEF IsLastOver
  <2> PICK e, f : e = SubSeq(s, n + 1, Len(s)) /\ f = SubSeq(u, n + 1, Len(u))
    OBVIOUS
  <2>4. After(After(l, s), t) = e \o t
    BY <1>5, <2>1, AfterLast, AfterNone
  <2>11. After(l, u) = f
    BY <1>1, <2>3, AfterLast
  <2>5. e \in Seq(Byte) /\ Len(e) = j - n /\ \A i \in 1..(j - n) : e[i] = s[n + i]
    <3>1. n \in 0..Len(s)
      BY <1>1, <2>2
    <3> QED
      BY <3>1, Ending
  <2>6. f \in Seq(Byte) /\ Len(f) = (j + k) - n /\ \A i \in 1..((j + k) - n) : f[i] = u[n + i]
    <3>1. n \in 0..Len(u) /\ Len(u) - n = (j + k) - n
      BY <1>1, <2>2
    <3> QED
      BY <1>1, <3>1, Ending
  <2>7. /\ e \o t \in Seq(Byte) /\ Len(e \o t) = Len(e) + k
        /\ \A i \in 1..(Len(e) + k) : (e \o t)[i] = IF i <= Len(e) THEN e[i] ELSE t[i - Len(e)]
    BY <2>5, ConcatProperties
  <2>8. ASSUME NEW i \in 1..((j + k) - n) PROVE (e \o t)[i] = f[i]
    <3>1. i \in 1..(Len(e) + k) /\ n + i \in 1..(j + k)
      BY <1>1, <2>2, <2>5
    <3>2. CASE i <= j - n
      <4>1. n + i <= j /\ i \in 1..(j - n)
        BY <1>1, <2>2, <3>2
      <4>2. (e \o t)[i] = e[i] /\ e[i] = s[n + i]
        BY <2>5, <2>7, <3>1, <4>1
      <4>3. u[n + i] = s[n + i] /\ f[i] = u[n + i]
        BY <1>2, <2>6, <3>1, <4>1
      <4> QED
        BY <4>2, <4>3
    <3>3. CASE ~(i <= j - n)
      <4>1. ~(n + i <= j) /\ (n + i) - j = i - (j - n)
        BY <1>1, <2>2, <3>3
      <4>2. (e \o t)[i] = t[i - (j - n)]
        BY <2>5, <2>7, <3>1, <3>3
      <4>3. u[n + i] = t[(n + i) - j] /\ f[i] = u[n + i]
        BY <1>2, <2>6, <3>1, <4>1
      <4> QED
        BY <4>1, <4>2, <4>3
    <3> QED
      BY <3>2, <3>3
  <2>9. (j - n) + k = (j + k) - n
    BY <1>1, <2>2
  <2>13. Len(e \o t) = (j + k) - n /\ Len(f) = (j + k) - n
    BY <2>5, <2>6, <2>7, <2>9
  <2>12. Len(e \o t) = Len(f) /\ \A i \in 1..Len(e \o t) : (e \o t)[i] = f[i]
    BY <2>8, <2>13
  <2>10. e \o t = f
    BY <2>6, <2>7, <2>12, SeqEqual
  <2> QED
    BY <2>4, <2>10, <2>11
<1>6. CASE Over(t) = {} /\ Over(s) = {}
  <2>1. Over(u) = {}
    BY <1>3, <1>6
  <2>2. After(After(l, s), t) = (l \o s) \o t /\ After(l, u) = l \o u
    BY <1>6, <2>1, AfterNone
  <2>3. (l \o s) \o t = l \o (s \o t)
    BY ConcatAssociative
  <2> QED
    BY <2>2, <2>3
<1> QED
  BY <1>4, <1>5, <1>6

(* What is mentioned at the end of a sequence is mentioned in it, and in   *)
(* what begins with it.                                                    *)
LEMMA MentionsEnding ==
  ASSUME NEW s \in Seq(Byte), NEW n \in 0..Len(s), NEW w \in Seq(Byte),
         Mentions(SubSeq(s, n + 1, Len(s)), w)
  PROVE  Mentions(s, w)
<1> PICK e, k, q : e = SubSeq(s, n + 1, Len(s)) /\ k = Len(s) /\ q = Len(w)
  OBVIOUS
<1>1. k \in Nat /\ q \in Nat
  BY LenProperties
<1>2. Len(e) = k - n /\ \A i \in 1..(k - n) : e[i] = s[n + i]
  BY Ending
<1>3. PICK m \in 0..((k - n) - q) : \A i \in 1..q : e[m + i] = w[i]
  BY <1>2 DEF Mentions
<1>4. n + m \in 0..(k - q)
  BY <1>1
<1>5. ASSUME NEW i \in 1..q PROVE s[(n + m) + i] = w[i]
  <2>1. m + i \in 1..(k - n) /\ n + (m + i) = (n + m) + i
    BY <1>1
  <2> QED
    BY <1>2, <1>3, <2>1
<1> QED
  BY <1>4, <1>5 DEF Mentions

LEMMA MentionsFront ==
  ASSUME NEW s \in Seq(Byte), NEW t \in Seq(Byte), NEW w \in Seq(Byte), Mentions(s, w)
  PROVE  Mentions(s \o t, w)
<1> PICK u, j, k, q : u = s \o t /\ j = Len(s) /\ k = Len(t) /\ q = Len(w)
  OBVIOUS
<1>1. j \in Nat /\ k \in Nat /\ q \in Nat
  BY LenProperties
<1>2. Len(u) = j + k /\ \A n \in 1..(j + k) : u[n] = IF n <= j THEN s[n] ELSE t[n - j]
  BY ConcatProperties
<1>3. PICK m \in 0..(j - q) : \A i \in 1..q : s[m + i] = w[i]
  BY DEF Mentions
<1>4. m \in 0..((j + k) - q)
  BY <1>1
<1>5. ASSUME NEW i \in 1..q PROVE u[m + i] = w[i]
  <2>1. m + i \in 1..(j + k) /\ m + i <= j
    BY <1>1
  <2> QED
    BY <1>2, <1>3, <2>1
<1> QED
  BY <1>2, <1>4, <1>5 DEF Mentions

(* The line after bytes is an ending of them, if there was none before.    *)
LEMMA MentionsAfter ==
  ASSUME NEW s \in Seq(Byte), NEW w \in Seq(Byte), Mentions(After(<<>>, s), w)
  PROVE  Mentions(s, w)
<1>1. CASE Over(s) = {}
  <2>1. After(<<>>, s) = s
    BY <1>1, AfterNone, ConcatEmptySeq
  <2> QED
    BY <2>1
<1>2. CASE Over(s) # {}
  <2>1. PICK n \in Over(s) : IsLastOver(s, n)
    BY <1>2, LastOver
  <2>2. n \in 0..Len(s)
    BY OverIs
  <2>3. After(<<>>, s) = SubSeq(s, n + 1, Len(s))
    BY <2>1, AfterLast
  <2>4. Mentions(SubSeq(s, n + 1, Len(s)), w)
    BY <2>3
  <2> QED
    BY <2>2, <2>4, MentionsEnding
<1> QED
  BY <1>1, <1>2

(* A command and what is before its last byte.                             *)
LEMMA FrontIs ==
  ASSUME NEW s \in Seq(Byte), s # <<>>
  PROVE  Front(s) \in Seq(Byte) /\ \E t \in Seq(Byte) : s = Front(s) \o t
<1>1. Len(s) \in Nat \ {0}
  BY EmptySeq
<1> PICK k : k = Len(s)
  OBVIOUS
<1>2. Front(s) = SubSeq(s, 1, k - 1)
  BY DEF Front
<1>3. \A i \in 1..(k - 1) : s[i] \in Byte
  <2>1. \A i \in 1..(k - 1) : i \in 1..Len(s)
    BY <1>1
  <2> QED
    BY <2>1, ElementOfSeq
<1>4. SubSeq(s, 1, k - 1) \in Seq(Byte)
  <2>1. 1 \in Int /\ k - 1 \in Int
    BY <1>1
  <2> QED
    BY <1>3, <2>1, SubSeqProperties
<1>5. /\ s = SubSeq(s, 1, k - 1) \o SubSeq(s, (k - 1) + 1, k)
      /\ SubSeq(s, (k - 1) + 1, k) \in Seq(Byte)
  <2>1. 1 \in 1..(Len(s) + 1) /\ k - 1 \in (1 - 1)..Len(s) /\ Len(s) \in (k - 1)..Len(s)
        /\ k - 1 \in 0..Len(s)
    BY <1>1
  <2>2. SubSeq(s, 1, k - 1) \o SubSeq(s, (k - 1) + 1, Len(s)) = SubSeq(s, 1, Len(s))
    BY <2>1, ConcatAdjacentSubSeq
  <2>3. SubSeq(s, (k - 1) + 1, Len(s)) \in Seq(Byte)
    BY <2>1, Ending
  <2> QED
    BY <2>2, <2>3, SubSeqFull
<1> QED
  BY <1>2, <1>4, <1>5

(* A command that may pass, after what the filter holds, hands no line with*)
(* a forbidden word.                                                       *)
LEMMA LineClean ==
  ASSUME NEW f \in Seq(Byte), NEW cmd \in Seq(Byte), cmd # <<>>, ~Forbidden(f \o cmd)
  PROVE  ~Forbidden(After(After(<<>>, f), Front(cmd)))
<1> SUFFICES ASSUME NEW w \in FilterMap, Mentions(After(After(<<>>, f), Front(cmd)), w)
             PROVE  FALSE
  BY DEF Forbidden
<1>1. w \in Seq(Byte)
  <2>1. w \in Seq({"x", "etx"}) /\ {"x", "etx"} \subseteq Byte
    BY CommandAssumption DEF Byte
  <2> QED
    BY <2>1, SeqMonotonic
<1>2. Front(cmd) \in Seq(Byte)
  BY FrontIs
<1>3. PICK t \in Seq(Byte) : cmd = Front(cmd) \o t
  BY FrontIs
<1>4. After(After(<<>>, f), Front(cmd)) = After(<<>>, f \o Front(cmd))
  BY <1>2, AfterAfter, EmptySeq
<1>5. f \o Front(cmd) \in Seq(Byte)
  BY <1>2, ConcatProperties
<1>6. Mentions(f \o Front(cmd), w)
  BY <1>1, <1>4, <1>5, MentionsAfter
<1>7. Mentions((f \o Front(cmd)) \o t, w)
  BY <1>1, <1>5, <1>6, MentionsFront
<1>8. (f \o Front(cmd)) \o t = f \o cmd
  <2>1. (f \o Front(cmd)) \o t = f \o (Front(cmd) \o t)
    BY <1>2, ConcatAssociative
  <2> QED
    BY <1>3, <2>1, Zenon
<1> QED
  BY <1>7, <1>8 DEF Forbidden

-----------------------------------------------------------------------------
(* The input: what inputFilterBuff holds, and what the shell's line does.  *)

Receivers ==
  [pc : {"off", "select", "read", "ask", "stdin", "confirm", "quit", "done"}, conn : Nat,
   out : Seq(Byte)]

InTypes ==
  /\ inputs \in 0..MaxInput
  /\ filter \in Seq(Byte) /\ line \in Seq(Byte) /\ refused \in Seq(Byte)
  /\ receiver \in [Run -> Receivers]
  /\ \A r \in Run : receiver[r].conn <= runs

(* The filter f and the line l, when the one goroutine that reads is rec   *)
(* and a refused line has left rest.  On the way to the shell the bytes    *)
(* handed on are what the line lacks.                                      *)
SameLine(f, l, rest, rec) ==
  /\ rec.pc \in {"off", "select", "read"} => l = After(rest, f)
  /\ rec.pc \in {"stdin", "confirm"} =>
       After(l, rec.out) = After(IF Over(rec.out) = {} THEN rest ELSE <<>>, f)
  /\ (rec.pc = "stdin" /\ EndsLine(rec.out) /\ rest = <<>>)
       => ~Forbidden(After(l, Front(rec.out)))

InInv ==
  /\ InTypes
  /\ \A r \in Run : sender[r].pc = "off" => receiver[r].pc = "off"
  /\ runs = 1 /\ shell = "runs" => SameLine(filter, line, refused, receiver[1])

LEMMA SeqEmpty == <<>> \in Seq(Byte)
BY EmptySeq

LEMMA InitIn == Init => InInv
<1> SUFFICES ASSUME Init PROVE InInv
  OBVIOUS
<1>1. NoRead \in Receivers /\ NoRead.pc = "off" /\ NoRead.conn = 0
  BY SeqEmpty DEF NoRead, Receivers
<1>2. InTypes
  <2>1. inputs = 0 /\ filter = <<>> /\ line = <<>> /\ refused = <<>> /\ runs = 1
    BY DEF Init
  <2>2. receiver \in [Run -> Receivers] /\ \A r \in Run : receiver[r] = NoRead
    BY <1>1 DEF Init
  <2>3. inputs \in 0..MaxInput
    BY <2>1, BoundAssumption
  <2>4. \A r \in Run : receiver[r].conn <= runs
    BY <1>1, <2>1, <2>2
  <2> QED
    BY <2>1, <2>2, <2>3, <2>4, SeqEmpty DEF InTypes
<1>3. 1 \in Run
  BY BoundAssumption DEF Run
<1>4. SameLine(<<>>, <<>>, <<>>, NoRead)
  <2>1. After(<<>>, <<>>) = <<>>
    BY SeqEmpty, AfterNothing
  <2> QED
    BY <1>1, <2>1 DEF SameLine
<1> QED
  BY <1>1, <1>2, <1>3, <1>4 DEF Init, InInv

(* Steps that leave the input alone, and start no other run than there is. *)
LEMMA InStays ==
  ASSUME OutInv, InInv, UNCHANGED <<typed, receiver>>, runs' \in Nat, runs' >= runs,
         shell' = "runs" => shell = "runs",
         \A r \in Run : sender'[r].pc = "off" => sender[r].pc = "off"
  PROVE  InInv'
<1>1. InTypes /\ RunsOK
  BY DEF InInv, OutInv
<1>2. runs \in Nat /\ runs >= 1
  BY <1>1 DEF RunsOK, Run
<1>3. InTypes'
  <2>1. \A r \in Run : receiver[r].conn <= runs'
    <3>1. \A r \in Run : receiver[r].conn \in Nat /\ receiver[r].conn <= runs
      BY <1>1 DEF InTypes, Receivers
    <3> QED
      BY <1>2, <3>1
  <2> QED
    BY <1>1, <2>1 DEF InTypes, typed
<1>4. runs' = 1 => runs = 1
  BY <1>2
<1> QED
  BY <1>3, <1>4 DEF InInv, typed

(* A step of a goroutine that reads; with one run it is the only one.      *)
LEMMA InMoves ==
  ASSUME OutInv, InInv, NEW r \in Run, UNCHANGED <<sender, runs, shell>>,
         receiver[r].pc # "off",
         NEW to \in Receivers, receiver' = [receiver EXCEPT ![r] = to],
         to.conn <= runs, inputs' \in 0..MaxInput,
         filter' \in Seq(Byte), line' \in Seq(Byte), refused' \in Seq(Byte),
         shell = "runs" /\ SameLine(filter, line, refused, receiver[r])
           => SameLine(filter', line', refused', to)
  PROVE  InInv'
<1>1. InTypes /\ RunsOK /\ sender \in [Run -> Senders]
  BY DEF InInv, OutInv, OutTypes
<1>2. receiver \in [Run -> Receivers] /\ 1 \in Run
  BY <1>1, BoundAssumption DEF InTypes, Run
<1>3. sender[r].pc # "off"
  BY DEF InInv
<1>4. ~(r > runs)
  BY <1>3 DEF OutInv, Off
<1>5. runs = 1 => r = 1
  BY <1>4 DEF Run
<1>6. receiver' \in [Run -> Receivers] /\ receiver'[r] = to
      /\ \A q \in Run : q # r => receiver'[q] = receiver[q]
  BY <1>2
<1>7. InTypes'
  BY <1>1, <1>6 DEF InTypes
<1>8. \A q \in Run : sender'[q].pc = "off" => receiver'[q].pc = "off"
  BY <1>3, <1>6 DEF InInv
<1>9. runs' = 1 /\ shell' = "runs" => SameLine(filter', line', refused', receiver'[1])
  BY <1>5, <1>6 DEF InInv
<1> QED
  BY <1>7, <1>8, <1>9 DEF InInv

LEMMA ReceiverTo ==
  ASSUME InInv, NEW r \in Run,
         NEW c \in {"select", "read", "ask", "quit", "done"}
  PROVE  /\ [receiver[r] EXCEPT !.pc = c] \in Receivers
         /\ [receiver[r] EXCEPT !.pc = c].pc = c
         /\ [receiver[r] EXCEPT !.pc = c].conn <= runs
         /\ ReceiverAt(r, c) => receiver' = [receiver EXCEPT ![r] = [receiver[r] EXCEPT !.pc = c]]
<1>1. receiver[r] \in Receivers /\ receiver[r].conn <= runs
  BY DEF InInv, InTypes
<1>2. [receiver[r] EXCEPT !.pc = c] \in Receivers
  BY <1>1 DEF Receivers
<1>3. /\ [receiver[r] EXCEPT !.pc = c].pc = c
      /\ [receiver[r] EXCEPT !.pc = c].conn = receiver[r].conn
  BY <1>1 DEF Receivers
<1>4. ReceiverAt(r, c) => receiver' = [receiver EXCEPT ![r] = [receiver[r] EXCEPT !.pc = c]]
  BY DEF ReceiverAt
<1> QED
  BY <1>1, <1>2, <1>3, <1>4

(* Bytes that a receiver hands on.                                         *)
LEMMA HandsTo ==
  ASSUME InInv, NEW r \in Run, NEW c \in {"stdin", "confirm"}, NEW bytes \in Seq(Byte),
         HandsOn(r, c, bytes)
  PROVE  \E to \in Receivers : /\ to.pc = c /\ to.out = bytes /\ to.conn <= runs
                               /\ receiver' = [receiver EXCEPT ![r] = to]
<1>1. /\ receiver \in [Run -> Receivers] /\ receiver[r] \in Receivers
      /\ receiver[r].conn <= runs
  BY DEF InInv, InTypes
<1> DEFINE to == [receiver[r] EXCEPT !.pc = c, !.out = bytes]
<1>2. /\ to \in Receivers /\ to.pc = c /\ to.out = bytes /\ to.conn = receiver[r].conn
  BY <1>1 DEF Receivers
<1>3. receiver' = [receiver EXCEPT ![r] = to]
  BY <1>1 DEF HandsOn, Receivers
<1> HIDE DEF to
<1> QED
  BY <1>1, <1>2, <1>3

LEMMA LooksIs == Looks \in Receivers /\ Looks.pc = "select" /\ Looks.conn = 0
<1>1. Looks = [pc |-> "select", conn |-> 0, out |-> <<>>]
  BY DEF Looks, NoRead
<1> QED
  BY <1>1, SeqEmpty DEF Receivers

(* All steps of the goroutine but the ones on a message.                   *)
LEMMA ReceivesIn ==
  ASSUME OutInv, InInv, NEW r \in Run, Receives(r)
  PROVE  InInv'
<1>1. /\ InTypes /\ RunsOK /\ receiver \in [Run -> Receivers] /\ receiver[r] \in Receivers
      /\ runs \in Nat /\ 0 <= runs /\ inputs \in 0..MaxInput
  BY DEF InInv, OutInv, InTypes, RunsOK, Run
<1>7. filter \in Seq(Byte) /\ line \in Seq(Byte) /\ refused \in Seq(Byte)
  BY <1>1 DEF InTypes
<1>2. UNCHANGED <<sender, runs, shell>>
  BY DEF Receives, ends, outside
<1>3. CASE ReceiverQuits(r) \/ ReadFails(r) \/ ReceiverTells(r)
  <2>1. /\ UNCHANGED typed /\ receiver[r].pc # "off"
        /\ \E c \in {"quit", "done"} : ReceiverAt(r, c)
    BY <1>3 DEF ReceiverQuits, ReadFails, ReceiverTells
  <2> PICK c \in {"quit", "done"} : ReceiverAt(r, c)
    BY <2>1
  <2> DEFINE to == [receiver[r] EXCEPT !.pc = c]
  <2>2. /\ to \in Receivers /\ to.pc = c /\ to.conn <= runs
        /\ receiver' = [receiver EXCEPT ![r] = to]
    BY ReceiverTo, ZenonT(60)
  <2> HIDE DEF to
  <2>3. SameLine(filter', line', refused', to)
    BY <2>2 DEF SameLine
  <2> QED
    BY <1>1, <1>2, <1>7, <2>1, <2>2, <2>3, InMoves DEF typed
<1>4. CASE StartsRead(r)
  <2> DEFINE to == [pc |-> "read", conn |-> runs, out |-> <<>>]
  <2>1. /\ UNCHANGED typed /\ receiver[r].pc = "select"
        /\ receiver' = [receiver EXCEPT ![r] = to]
    BY <1>4 DEF StartsRead
  <2>2. to \in Receivers /\ to.pc = "read" /\ to.conn <= runs
    BY <1>1, SeqEmpty DEF Receivers
  <2> HIDE DEF to
  <2>3. SameLine(filter, line, refused, receiver[r]) => SameLine(filter', line', refused', to)
    BY <2>1, <2>2 DEF SameLine, typed
  <2> QED
    BY <1>1, <1>2, <1>7, <2>1, <2>2, <2>3, InMoves DEF typed
<1>5. CASE Asks(r)
  <2>1. CASE receiver' = receiver /\ filter' = filter /\ refused' = refused
    <3>1. UNCHANGED <<typed, receiver>>
      BY <1>5, <2>1 DEF Asks, typed
    <3> QED
      BY <1>1, <1>2, <3>1, InStays
  <2>2. CASE filter' = <<>> /\ refused' = line /\ receiver' = [receiver EXCEPT ![r] = Looks]
    <3>1. inputs' = inputs /\ line' = line /\ receiver[r].pc = "ask"
      BY <1>5 DEF Asks
    <3>2. SameLine(filter', line', refused', Looks)
      <4>1. line' = After(refused', filter')
        BY <1>7, <2>2, <3>1, AfterNothing
      <4> QED
        BY <4>1, LooksIs DEF SameLine
    <3> QED
      BY <1>1, <1>2, <1>7, <2>2, <3>1, <3>2, LooksIs, SeqEmpty, InMoves
  <2> QED
    BY <1>5, <2>1, <2>2, Zenon DEF Asks
<1>6. CASE Stdin(r)
  <2> PICK out : out = receiver[r].out
    OBVIOUS
  <2>1. /\ receiver[r].pc \in {"stdin", "confirm"} /\ receiver' = [receiver EXCEPT ![r] = Looks]
        /\ inputs' = inputs /\ filter' = filter
        /\ IF shell = "runs" THEN line' = After(line, out) /\ refused' = Kept(out)
           ELSE line' = line /\ refused' = refused
    BY <1>6 DEF Stdin
  <2>2. out \in Seq(Byte)
    BY <1>1 DEF Receivers
  <2>3. CASE shell = "runs"
    <3>1. line' = After(line, out) /\ refused' = IF Over(out) = {} THEN refused ELSE <<>>
      BY <2>1, <2>3 DEF Kept
    <3>2. line' \in Seq(Byte)
      BY <1>7, <2>2, <3>1, AfterType
    <3>3. refused' \in Seq(Byte)
      BY <1>7, <3>1, SeqEmpty
    <3>4. SameLine(filter, line, refused, receiver[r]) => SameLine(filter', line', refused', Looks)
      <4>1. SUFFICES ASSUME SameLine(filter, line, refused, receiver[r])
                     PROVE  line' = After(refused', filter')
        BY LooksIs DEF SameLine
      <4>2. After(line, out) = After(IF Over(out) = {} THEN refused ELSE <<>>, filter)
        BY <2>1, <4>1 DEF SameLine
      <4> QED
        BY <2>1, <3>1, <4>2
    <3>5. receiver[r].pc # "off"
      BY <2>1
    <3> QED
      BY <1>1, <1>2, <1>7, <2>1, <3>2, <3>3, <3>4, <3>5, LooksIs, InMoves
  <2>4. CASE shell # "runs"
    <3>1. line' = line /\ refused' = refused
      BY <2>1, <2>4, Zenon
    <3> QED
      BY <1>1, <1>2, <1>7, <2>1, <2>4, <3>1, LooksIs, InMoves
  <2> QED
    BY <2>3, <2>4
<1> QED
  BY <1>3, <1>4, <1>5, <1>6 DEF Receives

(* The filter after a command that is handed on.                           *)
LEMMA FilterReset ==
  ASSUME NEW l \in Seq(Byte), NEW cmd \in Seq(Byte), cmd # <<>>, Resets(cmd)
  PROVE  Over(cmd) # {} /\ After(l, cmd) = After(<<>>, <<>>)
<1>1. cmd[Len(cmd)] \in {"cr", "etx"}
  BY DEF Resets, EndsLine, Last
<1>2. Over(cmd) # {} /\ After(l, cmd) = <<>>
  BY <1>1, AfterEnd
<1>3. After(<<>>, <<>>) = <<>>
  BY SeqEmpty, AfterNothing
<1> QED
  BY <1>2, <1>3

LEMMA FilterGrows ==
  ASSUME NEW f \in Seq(Byte), NEW rest \in Seq(Byte), NEW cmd \in Seq(Byte)
  PROVE  /\ After(After(rest, f), cmd) = After(rest, f \o cmd)
         /\ Over(cmd) # {} => After(rest, f \o cmd) = After(<<>>, f \o cmd)
<1>1. f \o cmd \in Seq(Byte)
  BY ConcatProperties
<1>2. ASSUME Over(cmd) # {} PROVE After(rest, f \o cmd) = After(<<>>, f \o cmd)
  <2>1. PICK n : n \in Over(cmd)
    BY <1>2
  <2>2. Len(f) + n \in Over(f \o cmd)
    BY <2>1, OverConcat
  <2> QED
    BY <1>1, <2>2, AfterForgets
<1> QED
  BY <1>2, AfterAfter

(* A message is read and handled.                                          *)
LEMMA MessageIn ==
  ASSUME OutInv, InInv, NEW r \in Run, Message(r)
  PROVE  InInv'
<1>1. /\ InTypes /\ RunsOK /\ receiver \in [Run -> Receivers] /\ receiver[r] \in Receivers
      /\ runs \in Nat /\ 0 <= runs /\ receiver[r].conn <= runs /\ inputs \in 0..MaxInput
  BY DEF InInv, OutInv, InTypes, RunsOK, Run
<1>2. filter \in Seq(Byte) /\ line \in Seq(Byte) /\ refused \in Seq(Byte)
  BY <1>1 DEF InTypes
<1>3. /\ UNCHANGED <<sender, runs, shell, line, refused>>
      /\ receiver[r].pc = "read" /\ inputs < MaxInput /\ inputs' = inputs + 1
      /\ Resizes(r) \/ Confirms(r) \/ \E cmd \in Commands : Handles(r, cmd)
  BY DEF Message, ReadsMessage, ends, outside
<1>4. inputs' \in 0..MaxInput
  BY <1>1, <1>3, BoundAssumption
<1>5. CASE Resizes(r)
  <2>1. receiver' = [receiver EXCEPT ![r] = Looks] /\ filter' = filter
    BY <1>5 DEF Resizes
  <2>2. SameLine(filter, line, refused, receiver[r]) => SameLine(filter', line', refused', Looks)
    BY <1>3, <2>1, LooksIs DEF SameLine
  <2> QED
    BY <1>1, <1>2, <1>3, <1>4, <2>1, <2>2, LooksIs, InMoves
<1>6. CASE Confirms(r)
  <2>1. <<"cr">> \in Seq(Byte) /\ <<"cr">> # <<>> /\ Len(<<"cr">>) = 1 /\ <<"cr">>[1] = "cr"
    BY DEF Byte
  <2>2. PICK to \in Receivers : /\ to.pc = "confirm" /\ to.out = <<"cr">> /\ to.conn <= runs
                                /\ receiver' = [receiver EXCEPT ![r] = to]
    <3>1. HandsOn(r, "confirm", <<"cr">>)
      BY <1>6 DEF Confirms
    <3>2. \A bytes \in Seq(Byte) : HandsOn(r, "confirm", bytes) =>
            \E to \in Receivers : /\ to.pc = "confirm" /\ to.out = bytes /\ to.conn <= runs
                                  /\ receiver' = [receiver EXCEPT ![r] = to]
      BY HandsTo, Zenon
    <3> QED
      BY <2>1, <3>1, <3>2, Zenon
  <2>3. filter' = <<>>
    BY <1>6 DEF Confirms
  <2>4. Over(<<"cr">>) # {} /\ After(line, <<"cr">>) = <<>>
    BY <2>1, AfterEnd
  <2>5. After(<<>>, <<>>) = <<>>
    BY SeqEmpty, AfterNothing
  <2>6. SameLine(filter', line', refused', to)
    BY <1>3, <2>2, <2>3, <2>4, <2>5 DEF SameLine
  <2> QED
    BY <1>1, <1>2, <1>3, <1>4, <2>2, <2>3, <2>6, SeqEmpty, InMoves
<1>7. ASSUME NEW cmd \in Commands, Handles(r, cmd) PROVE InInv'
  <2>1. cmd \in Seq(Byte)
    BY CommandAssumption
  <2> PICK seen : seen = filter \o cmd
    OBVIOUS
  <2>2. seen \in Seq(Byte)
    BY <1>2, <2>1, ConcatProperties
  <2>3. CASE cmd = <<>> /\ filter' = filter /\ receiver' = receiver
    <3>1. receiver' = [receiver EXCEPT ![r] = receiver[r]]
      BY <1>1, <2>3
    <3>2. SameLine(filter, line, refused, receiver[r])
            => SameLine(filter', line', refused', receiver[r])
      BY <1>3, <2>3 DEF SameLine
    <3> QED
      BY <1>1, <1>2, <1>3, <1>4, <2>3, <3>1, <3>2, InMoves
  <2>4. CASE filter' = seen /\ ReceiverAt(r, "ask")
    <3> DEFINE to == [receiver[r] EXCEPT !.pc = "ask"]
    <3>1. /\ to \in Receivers /\ to.pc = "ask" /\ to.conn <= runs
          /\ receiver' = [receiver EXCEPT ![r] = to]
      BY <2>4, ReceiverTo
    <3> HIDE DEF to
    <3>2. SameLine(filter', line', refused', to)
      BY <3>1 DEF SameLine
    <3> QED
      BY <1>1, <1>2, <1>3, <1>4, <2>2, <2>4, <3>1, <3>2, InMoves
  <2>5. CASE /\ cmd # <<>> /\ ~(EndsLine(cmd) /\ Forbidden(seen))
             /\ filter' = IF Resets(cmd) THEN <<>> ELSE seen
             /\ HandsOn(r, "stdin", cmd)
    <3>1. PICK to \in Receivers : /\ to.pc = "stdin" /\ to.out = cmd /\ to.conn <= runs
                                  /\ receiver' = [receiver EXCEPT ![r] = to]
      BY <2>1, <2>5, HandsTo
    <3>2. filter' \in Seq(Byte)
      BY <2>2, <2>5, SeqEmpty
    <3>3. ASSUME SameLine(filter, line, refused, receiver[r])
          PROVE  SameLine(filter', line', refused', to)
      <4>1. line = After(refused, filter)
        BY <1>3, <3>3 DEF SameLine
      <4>2. After(line, cmd) = After(IF Over(cmd) = {} THEN refused ELSE <<>>, filter')
        <5>1. /\ cmd # <<>>
              /\ Resets(cmd) => filter' = <<>>
              /\ ~Resets(cmd) => filter' = filter \o cmd
          BY <2>5
        <5>2. CASE Resets(cmd)
          BY <1>2, <2>1, <5>1, <5>2, FilterReset
        <5>3. CASE ~Resets(cmd)
          <6>1. filter' = filter \o cmd
            BY <5>1, <5>3
          <6>2. /\ After(After(refused, filter), cmd) = After(refused, filter \o cmd)
                /\ Over(cmd) # {} => After(refused, filter \o cmd) = After(<<>>, filter \o cmd)
            BY <1>2, <2>1, FilterGrows
          <6> QED
            BY <4>1, <6>1, <6>2
        <5> QED
          BY <5>2, <5>3
      <4>3. ASSUME EndsLine(cmd), refused = <<>> PROVE ~Forbidden(After(line, Front(cmd)))
        BY <1>2, <2>1, <2>5, <4>1, <4>3, LineClean
      <4> QED
        BY <1>3, <3>1, <4>2, <4>3 DEF SameLine
    <3> QED
      BY <1>1, <1>2, <1>3, <1>4, <3>1, <3>2, <3>3, InMoves
  <2> QED
    BY <1>7, <2>3, <2>4, <2>5, Zenon DEF Handles
<1> QED
  BY <1>3, <1>5, <1>6, <1>7

-----------------------------------------------------------------------------
(* The ends: tokens, calls of Wait, Close.                                 *)

EndTypes ==
  /\ quit \in [Run -> 0..QuitCap]
  /\ wait \in [Run -> {"off", "wait", "error", "done"}]
  /\ shell \in {"runs", "ended", "told"}
  /\ closed \in BOOLEAN /\ panicked \in BOOLEAN

LEMMA Tokens ==
  ASSUME EndTypes, NEW r \in Run, SetQuit(r) \/ TakeQuit(r) \/ UNCHANGED quit
  PROVE  quit' \in [Run -> 0..QuitCap]
<1>1. quit \in [Run -> 0..QuitCap] /\ QuitCap \in Nat
  BY BoundAssumption DEF EndTypes
<1>2. CASE SetQuit(r)
  <2>1. quit[r] + 1 \in 0..QuitCap /\ quit' = [quit EXCEPT ![r] = quit[r] + 1]
    BY <1>1, <1>2 DEF SetQuit
  <2> QED
    BY <1>1, <2>1
<1>3. CASE TakeQuit(r)
  <2>1. quit[r] - 1 \in 0..QuitCap /\ quit' = [quit EXCEPT ![r] = quit[r] - 1]
    BY <1>1, <1>3 DEF TakeQuit
  <2> QED
    BY <1>1, <2>1
<1> QED
  BY <1>1, <1>2, <1>3

LEMMA InitEnds == Init => EndTypes
<1> SUFFICES ASSUME Init PROVE EndTypes
  OBVIOUS
<1>1. quit \in [Run -> 0..QuitCap]
  BY BoundAssumption DEF Init
<1>2. /\ wait \in [Run -> {"off", "wait", "error", "done"}]
      /\ shell \in {"runs", "ended", "told"}
      /\ closed \in BOOLEAN /\ panicked \in BOOLEAN
  BY DEF Init
<1> QED
  BY <1>1, <1>2 DEF EndTypes

(* What the steps of the goroutines do to the ends.                        *)
LEMMA GoroutineEnds ==
  ASSUME EndTypes, NEW r \in Run, Sends(r) \/ Receives(r) \/ Message(r)
  PROVE  EndTypes'
<1>1. UNCHANGED <<ends, outside>>
  BY DEF Sends, Receives, Message
<1>2. SetQuit(r) \/ TakeQuit(r) \/ UNCHANGED quit
  <2>1. CASE Sends(r)
    BY <2>1 DEF Sends, SenderQuits, Ticks, TakeBytes, WriteWs, WriteLog, Reset, ResetRaces,
                SenderTells
  <2>2. CASE Receives(r)
    BY <2>2 DEF Receives, ReceiverQuits, StartsRead, ReadFails, Asks, Stdin, ReceiverTells
  <2>3. CASE Message(r)
    BY <2>3 DEF Message, ReadsMessage
  <2> QED
    BY <2>1, <2>2, <2>3
<1>3. panicked' = TRUE \/ panicked' = panicked
  <2>1. CASE Sends(r)
    BY <2>1, Zenon DEF Sends, SenderQuits, Ticks, TakeBytes, WriteWs, WriteLog, Reset,
                       ResetRaces, SenderTells, Panic
  <2>2. CASE Receives(r)
    BY <2>2, Zenon DEF Receives, ReceiverQuits, StartsRead, ReadFails, Asks, Stdin,
                       ReceiverTells
  <2>3. CASE Message(r)
    BY <2>3, Zenon DEF Message, ReadsMessage, Resizes, Confirms, Handles
  <2> QED
    BY <2>1, <2>2, <2>3
<1>4. quit' \in [Run -> 0..QuitCap]
  BY <1>2, Tokens
<1>5. panicked' \in BOOLEAN
  BY <1>3 DEF EndTypes
<1> QED
  BY <1>1, <1>4, <1>5 DEF EndTypes, ends, outside

LEMMA WaitEnds ==
  ASSUME EndTypes, NEW r \in Run, Wait(r)
  PROVE  EndTypes' /\ (shell' = "runs" => shell = "runs")
<1>1. UNCHANGED <<outside, panicked>>
  BY DEF Wait
<1>2. CASE WaitReturns(r)
  BY <1>1, <1>2 DEF WaitReturns, EndTypes, outside
<1>3. CASE WaitTells(r)
  <2>1. quit' \in [Run -> 0..QuitCap]
    BY <1>3, Tokens DEF WaitTells
  <2> QED
    BY <1>1, <1>3, <2>1 DEF WaitTells, EndTypes, outside
<1> QED
  BY <1>2, <1>3 DEF Wait

-----------------------------------------------------------------------------
(* The inductive invariant: the types, how the buffer, the websocket and   *)
(* the log are related at each step of the goroutine that sends, and the   *)
(* filter and the line at each step of the one that reads.                 *)
SessionInv == OutInv /\ InInv /\ EndTypes

LEMMA NextSession == SessionInv /\ [Next]_vars => SessionInv'
<1> SUFFICES ASSUME SessionInv, [Next]_vars PROVE SessionInv'
  OBVIOUS
<1>1. /\ OutInv /\ InInv /\ EndTypes /\ RunsOK /\ OutTypes
      /\ runs \in Nat /\ runs >= 1 /\ 1 \in Run
  BY BoundAssumption DEF SessionInv, OutInv, RunsOK, Run
<1>2. ASSUME UNCHANGED <<output, sender, runs>>, RunsOK' PROVE OutInv'
  BY <1>1, <1>2, OutStays
<1>3. ASSUME UNCHANGED <<typed, receiver, runs, sender>>, shell' = "runs" => shell = "runs"
      PROVE  InInv'
  BY <1>1, <1>3, InStays
<1>4. CASE UNCHANGED vars
  BY <1>1, <1>2, <1>3, <1>4 DEF SessionInv, EndTypes, RunsOK, vars, ends, outside
<1>5. CASE Produce
  <2>1. OutInv'
    BY <1>1, <1>5, ProduceOut DEF Produce, OutTypes, OutInv, outside
  <2> QED
    BY <1>1, <1>3, <1>5, <2>1 DEF SessionInv, EndTypes, Produce, ends, outside
<1>6. CASE ShellEnds \/ Close
  <2>1. /\ UNCHANGED <<output, sender, receiver, typed, quit, wait, runs, open, panicked>>
        /\ shell' = "runs" => shell = "runs"
        /\ shell' \in {"runs", "ended", "told"} /\ closed' \in BOOLEAN
    BY <1>1, <1>6 DEF ShellEnds, Close, EndTypes, ends, outside
  <2> QED
    BY <1>1, <1>2, <1>3, <2>1 DEF SessionInv, EndTypes, RunsOK
<1>7. ASSUME NEW r \in Run, CloseWs(r) PROVE SessionInv'
  <2>1. RunsOK'
    BY <1>1, <1>7 DEF CloseWs, RunsOK
  <2> QED
    BY <1>1, <1>2, <1>3, <1>7, <2>1 DEF SessionInv, EndTypes, CloseWs, ends
<1>8. CASE GetLogicSshWsSession
  <2>1. /\ runs < Runs /\ runs' = runs + 1 /\ open' = [open EXCEPT ![runs + 1] = TRUE]
        /\ UNCHANGED <<output, sender, receiver, typed, quit, ends, closed, panicked>>
    BY <1>8 DEF GetLogicSshWsSession
  <2>2. runs' \in Run /\ runs' \in Nat /\ runs' >= runs
    BY <1>1, <2>1, BoundAssumption DEF Run
  <2>3. RunsOK'
    BY <1>1, <2>1, <2>2 DEF RunsOK
  <2>4. OutInv' /\ InInv'
    BY <1>1, <2>1, <2>2, <2>3, OutStays, InStays DEF ends
  <2> QED
    BY <1>1, <2>1, <2>4 DEF SessionInv, EndTypes, ends
<1>9. ASSUME NEW r \in Run, Start(r) PROVE SessionInv'
  <2>1. /\ r <= runs /\ sender[r].pc = "off"
        /\ sender' = [sender EXCEPT ![r] = Idle] /\ receiver' = [receiver EXCEPT ![r] = Looks]
        /\ wait' = [wait EXCEPT ![r] = "wait"]
        /\ UNCHANGED <<output, typed, quit, shell, outside, panicked>>
    BY <1>9 DEF Start
  <2>2. Idle \in Senders /\ Idle.pc = "select"
    BY DEF Idle, Senders
  <2>3. /\ sender' \in [Run -> Senders] /\ sender'[r] = Idle
        /\ \A q \in Run : q # r => sender'[q] = sender[q]
    BY <1>1, <2>1, <2>2 DEF OutTypes
  <2>4. /\ receiver' \in [Run -> Receivers] /\ receiver'[r] = Looks
        /\ \A q \in Run : q # r => receiver'[q] = receiver[q]
    BY <1>1, <2>1, LooksIs DEF InInv, InTypes
  <2>5. OutInv'
    <3>1. OutTypes' /\ RunsOK' /\ Latest(buffer', produced')
      BY <1>1, <2>1, <2>3 DEF OutInv, OutTypes, RunsOK, output, outside
    <3>2. \A q \in Run : q > runs' => sender'[q] = Off
      <4>1. \A q \in Run : q > runs => q # r
        BY <1>1, <2>1 DEF Run
      <4> QED
        BY <1>1, <2>1, <2>3, <4>1 DEF OutInv, outside
    <3>3. ASSUME runs' = 1 PROVE InTurn(buffer', produced', sent', log', sender'[1])
      <4>1. runs = 1 /\ r = 1
        BY <2>1, <3>3 DEF Run, outside
      <4>2. InTurn(buffer, produced, sent, log, sender[1])
        BY <1>1, <4>1 DEF OutInv
      <4>3. InTurn(buffer, produced, sent, log, sender'[1])
        BY <2>1, <2>2, <2>3, <4>1, <4>2, TurnStays
      <4> QED
        BY <2>1, <4>3 DEF output
    <3> QED
      BY <3>1, <3>2, <3>3 DEF OutInv
  <2>6. InInv'
    <3>1. InTypes'
      <4>1. \A q \in Run : receiver'[q].conn <= runs
        BY <1>1, <2>4, LooksIs DEF InInv, InTypes
      <4> QED
        BY <1>1, <2>1, <2>4, <4>1 DEF InInv, InTypes, typed, outside
    <3>2. \A q \in Run : sender'[q].pc = "off" => receiver'[q].pc = "off"
      BY <1>1, <2>2, <2>3, <2>4 DEF InInv
    <3>3. ASSUME runs' = 1, shell' = "runs"
          PROVE  SameLine(filter', line', refused', receiver'[1])
      <4>1. runs = 1 /\ r = 1 /\ shell = "runs"
        BY <2>1, <3>3 DEF Run, outside
      <4>2. SameLine(filter, line, refused, receiver[1]) /\ receiver[1].pc = "off"
        BY <1>1, <2>1, <4>1 DEF InInv
      <4>3. SameLine(filter, line, refused, receiver'[1])
        BY <2>4, <4>1, <4>2, LooksIs DEF SameLine
      <4> QED
        BY <2>1, <4>3 DEF typed
    <3> QED
      BY <3>1, <3>2, <3>3 DEF InInv
  <2>7. EndTypes'
    BY <1>1, <2>1 DEF EndTypes, outside
  <2> QED
    BY <2>5, <2>6, <2>7 DEF SessionInv
<1>10. ASSUME NEW r \in Run, Wait(r) PROVE SessionInv'
  <2>1. EndTypes' /\ (shell' = "runs" => shell = "runs")
    BY <1>1, <1>10, WaitEnds
  <2> QED
    BY <1>1, <1>2, <1>3, <1>10, <2>1 DEF SessionInv, RunsOK, Wait, outside
<1>11. ASSUME NEW r \in Run, Sends(r) PROVE SessionInv'
  <2>1. OutInv'
    BY <1>1, <1>11, SendsOut
  <2>2. UNCHANGED <<receiver, typed, ends, outside>>
    BY <1>11 DEF Sends
  <2>3. \A q \in Run : sender'[q].pc = "off" => sender[q].pc = "off"
    <3>1. sender \in [Run -> Senders]
      BY <1>1 DEF OutTypes
    <3> QED
      BY <1>11, <3>1 DEF Sends, SenderQuits, Ticks, TakeBytes, WriteWs, WriteLog, Reset,
                         ResetRaces, SenderTells, SenderAt, Panic, Idle, Senders
  <2>4. InInv'
    BY <1>1, <2>2, <2>3, InStays DEF ends, outside
  <2> QED
    BY <1>1, <1>11, <2>1, <2>4, GoroutineEnds DEF SessionInv
<1>12. ASSUME NEW r \in Run, Receives(r) \/ Message(r) PROVE SessionInv'
  <2>1. UNCHANGED <<output, sender, ends, outside>>
    BY <1>12 DEF Receives, Message
  <2>2. OutInv'
    BY <1>1, <1>2, <2>1 DEF RunsOK, outside
  <2> QED
    BY <1>1, <1>12, <2>2, ReceivesIn, MessageIn, GoroutineEnds DEF SessionInv
<1> QED
  BY <1>4, <1>5, <1>6, <1>7, <1>8, <1>9, <1>10, <1>11, <1>12 DEF Next

LEMMA InitSession == Init => SessionInv
BY InitOut, InitIn, InitEnds DEF SessionInv

LEMMA SessionSafe == SessionInv => Inv /\ FilterSeesLine
<1> SUFFICES ASSUME SessionInv PROVE Inv /\ FilterSeesLine
  OBVIOUS
<1>1. /\ OutInv /\ OutTypes /\ RunsOK /\ InInv /\ InTypes /\ EndTypes
      /\ 1 \in Run /\ runs \in Nat
  BY BoundAssumption DEF SessionInv, OutInv, InInv, RunsOK, Run
<1>2. TypeOK
  <2>1. \A r \in Run : sender[r] \in Senders /\ receiver[r] \in Receivers
    BY <1>1 DEF OutTypes, InTypes
  <2>2. ASSUME NEW r \in Run
        PROVE  /\ sender[r].pc \in {"off", "select", "bytes", "write", "log", "reset", "quit",
                                    "done"}
               /\ receiver[r].pc \in {"off", "select", "read", "ask", "stdin", "confirm",
                                      "quit", "done"}
               /\ receiver[r].conn \in 0..runs
    BY <1>1, <2>1 DEF InTypes, Senders, Receivers
  <2>3. produced \in 0..Portions /\ inputs \in 0..MaxInput /\ quit \in [Run -> 0..QuitCap]
    BY <1>1 DEF OutTypes, InTypes, EndTypes
  <2>4. {filter, line, refused} \subseteq Seq(Byte)
    BY <1>1 DEF InTypes
  <2>5. /\ wait \in [Run -> {"off", "wait", "error", "done"}]
        /\ shell \in {"runs", "ended", "told"} /\ runs \in Run
        /\ open \in [Run -> BOOLEAN]
    BY <1>1 DEF EndTypes, RunsOK
  <2>6. {closed, panicked} \subseteq BOOLEAN
    BY <1>1 DEF EndTypes
  <2> QED
    BY <2>2, <2>3, <2>4, <2>5, <2>6 DEF TypeOK
<1>3. SentInOrder
  <2> SUFFICES ASSUME runs = 1
               PROVE  /\ NewInOrder(sent) /\ NewInOrder(log)
                      /\ ToSet(sent) \subseteq
                           ToSet(log) \cup UNION {ToSet(sender[r].bs) : r \in Run}
    BY DEF SentInOrder
  <2>1. InTurn(buffer, produced, sent, log, sender[1])
    BY <1>1 DEF OutInv
  <2>2. ToSet(sent) \subseteq ToSet(log) \cup ToSet(sender[1].bs)
    BY <2>1 DEF InTurn
  <2>3. ToSet(sender[1].bs) \subseteq UNION {ToSet(sender[r].bs) : r \in Run}
    BY <1>1
  <2> QED
    BY <2>1, <2>2, <2>3 DEF InTurn, Fresh
<1>4. FilterSeesLine
  BY <1>1 DEF FilterSeesLine, SeesLine, LineChecked, OneShell, InInv, SameLine
<1> QED
  BY <1>2, <1>3, <1>4 DEF Inv

(* As long as a session has had one websocket, that websocket and the log  *)
(* get each portion of the shell's output for the first time in the order  *)
(* it was written, and the log misses none that was sent: sendComboOutput  *)
(* of src/bbtty/ssh_session.go.                                            *)
THEOREM SessionInOrder == Spec => []Inv
<1>1. SessionInv => Inv
  BY SessionSafe
<1> QED
  BY <1>1, InitSession, NextSession, PTL DEF Spec

(* While one run reads, inputFilterBuff of receiveWsMsg, added to what the *)
(* shell kept of a refused line, is the line of the shell, in whatever     *)
(* pieces the bytes came; and a command that ends in a return is handed on *)
(* only if the line it ends has no forbidden word or began as a refused one*)
THEOREM FilterIsRight == Spec => []FilterSeesLine
<1>1. SessionInv => FilterSeesLine
  BY SessionSafe
<1> QED
  BY <1>1, InitSession, NextSession, PTL DEF Spec

===============================================================================
