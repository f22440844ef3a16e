-------------------------- MODULE GuacStreamProofs --------------------------
(***************************************************************************)
(* Proofs about GuacStream, for any peers, any digits and any sizes.       *)
(***************************************************************************)
EXTENDS GuacStream, FiniteSetTheorems, SequenceTheorems, TLAPS

-----------------------------------------------------------------------------
(* Induction, by counting: what a set of numbers with 0 and all successors *)
(* misses, the successor function could not skip below it.                 *)

LEMMA Induction ==
  ASSUME NEW P, 0 \in P, \A n \in Nat : n \in P => n + 1 \in P
  PROVE  Nat \subseteq P
<1> SUFFICES ASSUME NEW n \in Nat, n \notin P PROVE FALSE
  OBVIOUS
<1> DEFINE below == P \cap 0..n
           next == [i \in below |-> i + 1]
<1>1. IsFiniteSet(below) /\ 0 \in below
  <2>1. below \in SUBSET (0..n)
    OBVIOUS
  <2>2. IsFiniteSet(0..n)
    BY FS_Interval
  <2> QED
    BY <2>1, <2>2, FS_Subset
<1>2. next \in [below -> below \ {0}]
  OBVIOUS
<1>3. IsFiniteSet(below \ {0}) /\ Cardinality(below \ {0}) < Cardinality(below)
  <2>1. Cardinality(below) \in Nat
    BY <1>1, FS_CardinalityType
  <2> HIDE DEF below
  <2>2. IsFiniteSet(below \ {0})
    BY <1>1, FS_RemoveElement
  <2>3. Cardinality(below \ {0}) = Cardinality(below) - 1
    BY <1>1, FS_RemoveElement
  <2> QED
    BY <2>1, <2>2, <2>3
<1>4. \E i, j \in below : i # j /\ next[i] = next[j]
  <2> HIDE DEF next, below
  <2> QED
    BY <1>1, <1>2, <1>3, FS_PigeonHole
<1> QED
  BY <1>4

(* Course-of-values induction.                                             *)
LEMMA StrongInduction ==
  ASSUME NEW P, \A n \in Nat : (\A m \in 0..(n - 1) : m \in P) => n \in P
  PROVE  Nat \subseteq P
<1> DEFINE Q == {n \in Nat : \A m \in 0..n : m \in P}
<1>1. 0 \in Q
  OBVIOUS
<1>2. \A n \in Nat : n \in Q => n + 1 \in Q
  <2> SUFFICES ASSUME NEW n \in Nat, n \in Q PROVE \A m \in 0..(n + 1) : m \in P
    OBVIOUS
  <2>1. n + 1 \in P
    OBVIOUS
  <2> QED
    BY <2>1
<1>3. Nat \subseteq Q
  BY <1>1, <1>2, Induction
<1> QED
  BY <1>3

(* A set of numbers that is not empty has a least one.                     *)
LEMMA Least ==
  ASSUME NEW S \in SUBSET Nat, S # {}
  PROVE  \E m \in S : \A n \in S : m <= n
<1> SUFFICES ASSUME \A m \in S : \E n \in S : n < m PROVE FALSE
  OBVIOUS
<1> DEFINE P == {n \in Nat : n \notin S}
<1>1. \A n \in Nat : (\A m \in 0..(n - 1) : m \in P) => n \in P
  OBVIOUS
<1>2. Nat \subseteq P
  BY <1>1, StrongInduction
<1> QED
  BY <1>2

-----------------------------------------------------------------------------
(* FlattenSeq: where the parts are in the whole.                           *)

Flat(seqs) ==
  CHOOSE f : f = [i \in 1..Len(seqs) |-> IF i = 1 THEN seqs[i] ELSE f[i - 1] \o seqs[i]]

(* The recursion has a solution.                                           *)
LEMMA FlatExists ==
  ASSUME NEW seqs, NEW k \in Nat
  PROVE  \E f : f = [i \in 1..k |-> IF i = 1 THEN seqs[i] ELSE f[i - 1] \o seqs[i]]
<1> DEFINE P == {n \in Nat :
             \E f : f = [i \in 1..n |-> IF i = 1 THEN seqs[i] ELSE f[i - 1] \o seqs[i]]}
<1>1. 0 \in P
  <2> DEFINE f == [i \in 1..0 |-> 0]
  <2>1. f = [i \in 1..0 |-> IF i = 1 THEN seqs[i] ELSE f[i - 1] \o seqs[i]]
    OBVIOUS
  <2> QED
    BY <2>1
<1>2. ASSUME NEW n \in Nat, n \in P PROVE n + 1 \in P
  <2>1. PICK f : f = [i \in 1..n |-> IF i = 1 THEN seqs[i] ELSE f[i - 1] \o seqs[i]]
    BY <1>2
  <2> DEFINE g == [i \in 1..(n + 1) |->
               IF i <= n THEN f[i] ELSE IF i = 1 THEN seqs[i] ELSE f[i - 1] \o seqs[i]]
  <2>2. ASSUME NEW i \in 1..(n + 1)
        PROVE  g[i] = IF i = 1 THEN seqs[i] ELSE g[i - 1] \o seqs[i]
    <3>1. i # 1 => g[i - 1] = f[i - 1]
      OBVIOUS
    <3>2. ASSUME i <= n PROVE f[i] = IF i = 1 THEN seqs[i] ELSE f[i - 1] \o seqs[i]
      <4>1. i \in 1..n
        BY <3>2
      <4> QED
        BY <2>1, <4>1, Zenon
    <3> QED
      BY <3>1, <3>2
  <2>3. g = [i \in 1..(n + 1) |-> IF i = 1 THEN seqs[i] ELSE g[i - 1] \o seqs[i]]
    <3>1. g = [i \in 1..(n + 1) |-> g[i]]
      OBVIOUS
    <3> HIDE DEF g
    <3> QED
      BY <2>2, <3>1, Zenon
  <2>4. n + 1 \in Nat
    OBVIOUS
  <2> HIDE DEF g
  <2> QED
    BY <2>3, <2>4, Zenon
<1>3. Nat \subseteq P
  BY <1>1, <1>2, Induction
<1> QED
  BY <1>3

LEMMA FlatStep ==
  ASSUME NEW seqs, Len(seqs) \in Nat
  PROVE  /\ Len(seqs) # 0 => FlattenSeq(seqs) = Flat(seqs)[Len(seqs)]
         /\ Len(seqs) # 0 => Flat(seqs)[1] = seqs[1]
         /\ \A i \in 2..Len(seqs) : Flat(seqs)[i] = Flat(seqs)[i - 1] \o seqs[i]
<1>1. Flat(seqs) =
        [i \in 1..Len(seqs) |-> IF i = 1 THEN seqs[i] ELSE Flat(seqs)[i - 1] \o seqs[i]]
  BY FlatExists, Zenon DEF Flat
<1>2. Len(seqs) # 0 => FlattenSeq(seqs) = Flat(seqs)[Len(seqs)]
  BY DEF FlattenSeq, Flat
<1> DEFINE f == Flat(seqs)
<1>3. \A i \in 1..Len(seqs) : f[i] = IF i = 1 THEN seqs[i] ELSE f[i - 1] \o seqs[i]
  <2> HIDE DEF f
  <2>1. f = [i \in 1..Len(seqs) |-> IF i = 1 THEN seqs[i] ELSE f[i - 1] \o seqs[i]]
    BY <1>1 DEF f
  <2> QED
    BY <2>1, Zenon
<1> HIDE DEF f
<1>4. Len(seqs) # 0 => f[1] = seqs[1]
  BY <1>3
<1>5. ASSUME NEW i \in 2..Len(seqs) PROVE f[i] = f[i - 1] \o seqs[i]
  <2>1. i \in 1..Len(seqs) /\ i # 1
    OBVIOUS
  <2> QED
    BY <1>3, <2>1, Zenon
<1> QED
  BY <1>2, <1>4, <1>5 DEF f

(* p is in the whole, behind the first off members.                        *)
IsAt(whole, off, p) ==
  off + Len(p) <= Len(whole) /\ \A i \in 1..Len(p) : whole[off + i] = p[i]

LEMMA FunctionIsSeq ==
  ASSUME NEW S, NEW n \in Nat, NEW f \in [1..n -> S]
  PROVE  f \in Seq(S) /\ Len(f) = n
<1>1. f \in Seq(S)
  BY SeqDef, Zenon
<1>2. DOMAIN f = 1..Len(f) /\ DOMAIN f = 1..n /\ Len(f) \in Nat
  BY <1>1, LenProperties
<1> QED
  BY <1>1, <1>2

LEMMA Concatenation ==
  ASSUME NEW S, NEW a \in Seq(S), NEW b \in Seq(S)
  PROVE  /\ a \o b \in Seq(S) /\ Len(a \o b) = Len(a) + Len(b) /\ Len(a \o b) \in Nat
         /\ Len(a) \in Nat /\ Len(b) \in Nat
         /\ \A i \in 1..Len(a) : (a \o b)[i] = a[i]
         /\ \A i \in 1..Len(b) : (a \o b)[Len(a) + i] = b[i]
<1>1. /\ a \o b \in Seq(S) /\ Len(a \o b) = Len(a) + Len(b)
      /\ \A i \in 1..(Len(a) + Len(b)) : (a \o b)[i] = IF i <= Len(a) THEN a[i] ELSE b[i - Len(a)]
  BY ConcatProperties
<1>2. Len(a) \in Nat /\ Len(b) \in Nat
  BY LenProperties
<1>3. \A i \in 1..Len(a) : (a \o b)[i] = a[i]
  BY <1>1, <1>2
<1>4. ASSUME NEW i \in 1..Len(b) PROVE (a \o b)[Len(a) + i] = b[i]
  <2> DEFINE j == Len(a) + i
  <2>1. j \in 1..(Len(a) + Len(b)) /\ ~(j <= Len(a)) /\ j - Len(a) = i
    BY <1>2
  <2> HIDE DEF j
  <2>2. (a \o b)[j] = b[i]
    BY <1>1, <2>1
  <2> QED
    BY <2>2 DEF j
<1> QED
  BY <1>1, <1>2, <1>3, <1>4

(* The same under a name: the provers find instances of it more easily.    *)
Joins(a, b, c, S) ==
  /\ c \in Seq(S) /\ Len(c) = Len(a) + Len(b) /\ Len(c) \in Nat
  /\ Len(a) \in Nat /\ Len(b) \in Nat
  /\ \A i \in 1..Len(a) : c[i] = a[i]
  /\ \A i \in 1..Len(b) : c[Len(a) + i] = b[i]

LEMMA Joined ==
  ASSUME NEW S, NEW a \in Seq(S), NEW b \in Seq(S)
  PROVE  Joins(a, b, a \o b, S)
  BY Concatenation DEF Joins

LEMMA IsAtFirst ==
  ASSUME NEW S, NEW a \in Seq(S), NEW b \in Seq(S), NEW p \in Seq(S), NEW off \in Nat,
         IsAt(a, off, p)
  PROVE  IsAt(a \o b, off, p)
<1>1. /\ Len(a) \in Nat /\ Len(b) \in Nat /\ Len(p) \in Nat
      /\ Len(a \o b) = Len(a) + Len(b)
      /\ \A i \in 1..(Len(a) + Len(b)) : (a \o b)[i] = IF i <= Len(a) THEN a[i] ELSE b[i - Len(a)]
  BY ConcatProperties, LenProperties
<1> DEFINE c == a \o b
           n == Len(p)
<1>2. off + n <= Len(a) /\ \A i \in 1..n : a[off + i] = p[i]
  BY DEF IsAt
<1>3. ASSUME NEW i \in 1..n PROVE c[off + i] = p[i]
  <2>1. off + i \in 1..(Len(a) + Len(b)) /\ off + i <= Len(a)
    BY <1>1, <1>2
  <2> QED
    BY <1>1, <1>2, <2>1
<1>4. off + n <= Len(c)
  BY <1>1, <1>2
<1> QED
  BY <1>3, <1>4 DEF IsAt

LEMMA IsAtSecond ==
  ASSUME NEW S, NEW a \in Seq(S), NEW b \in Seq(S), NEW p \in Seq(S), NEW off \in Nat,
         IsAt(b, off, p)
  PROVE  IsAt(a \o b, Len(a) + off, p)
<1>1. /\ Len(a) \in Nat /\ Len(b) \in Nat /\ Len(p) \in Nat
      /\ Len(a \o b) = Len(a) + Len(b)
      /\ \A i \in 1..(Len(a) + Len(b)) : (a \o b)[i] = IF i <= Len(a) THEN a[i] ELSE b[i - Len(a)]
  BY ConcatProperties, LenProperties
<1> DEFINE c == a \o b
           n == Len(p)
<1>2. off + n <= Len(b) /\ \A i \in 1..n : b[off + i] = p[i]
  BY DEF IsAt
<1>3. ASSUME NEW i \in 1..n PROVE c[(Len(a) + off) + i] = p[i]
  <2> DEFINE j == (Len(a) + off) + i
  <2>1. j \in 1..(Len(a) + Len(b)) /\ ~(j <= Len(a)) /\ j - Len(a) = off + i
    BY <1>1, <1>2
  <2> HIDE DEF j
  <2>2. c[j] = b[off + i]
    BY <1>1, <2>1
  <2> QED
    BY <1>2, <2>2 DEF j
<1>4. (Len(a) + off) + n <= Len(c)
  BY <1>1, <1>2
<1> QED
  BY <1>3, <1>4 DEF IsAt

LEMMA IsAtItself ==
  ASSUME NEW S, NEW p \in Seq(S)
  PROVE  IsAt(p, 0, p)
<1>1. Len(p) \in Nat
  BY LenProperties
<1> QED
  BY <1>1 DEF IsAt

LEMMA IsAtWithin ==
  ASSUME NEW S, NEW a \in Seq(S), NEW p \in Seq(S), NEW q \in Seq(S), NEW off \in Nat, NEW in \in Nat,
         IsAt(a, off, p), IsAt(p, in, q)
  PROVE  IsAt(a, off + in, q)
<1>1. Len(a) \in Nat /\ Len(p) \in Nat /\ Len(q) \in Nat
  BY LenProperties
<1> DEFINE n == Len(q)
<1>2. off + Len(p) <= Len(a) /\ \A i \in 1..Len(p) : a[off + i] = p[i]
  BY DEF IsAt
<1>3. in + n <= Len(p) /\ \A i \in 1..n : p[in + i] = q[i]
  BY DEF IsAt
<1>4. ASSUME NEW i \in 1..n PROVE a[(off + in) + i] = q[i]
  <2>1. in + i \in 1..Len(p) /\ (off + in) + i = off + (in + i)
    BY <1>1, <1>3
  <2> QED
    BY <1>2, <1>3, <2>1
<1>5. (off + in) + n <= Len(a)
  BY <1>1, <1>2, <1>3
<1> QED
  BY <1>4, <1>5 DEF IsAt

(* Where part k + 1 begins in the whole.                                   *)
Offset(seqs, k) == IF k = 0 THEN 0 ELSE Len(Flat(seqs)[k])

(* The first n parts, in what they make together.                          *)
PartsIn(seqs, n, whole) ==
  \A k \in 1..n :
    /\ Offset(seqs, k - 1) \in Nat
    /\ Offset(seqs, k) = Offset(seqs, k - 1) + Len(seqs[k])
    /\ IsAt(whole, Offset(seqs, k - 1), seqs[k])

LEMMA FlatPrefix ==
  ASSUME NEW S, NEW seqs \in Seq(Seq(S)), NEW n \in Nat, n + 1 \in 1..Len(seqs)
  PROVE  /\ Flat(seqs)[n + 1] \in Seq(S)
         /\ PartsIn(seqs, n + 1, Flat(seqs)[n + 1])
<1> DEFINE f == Flat(seqs)
           Holds(m) == f[m] \in Seq(S) /\ PartsIn(seqs, m, f[m])
           P == {m \in Nat : m + 1 \in 1..Len(seqs) => Holds(m + 1)}
<1>1. Len(seqs) \in Nat /\ \A k \in 1..Len(seqs) : seqs[k] \in Seq(S) /\ Len(seqs[k]) \in Nat
  BY ElementOfSeq, LenProperties
<1>2. /\ f[1] = seqs[1]
      /\ \A i \in 2..Len(seqs) : f[i] = f[i - 1] \o seqs[i]
  <2>1. Len(seqs) # 0
    BY <1>1
  <2> QED
    BY <1>1, <2>1, FlatStep
<1>3. \A k \in Nat : Offset(seqs, k) = IF k = 0 THEN 0 ELSE Len(f[k])
  BY DEF Offset
<1> HIDE DEF f
<1>4. ASSUME 1 \in 1..Len(seqs) PROVE Holds(1)
  <2>1. f[1] = seqs[1] /\ f[1] \in Seq(S) /\ Len(f[1]) \in Nat
    BY <1>1, <1>2, <1>4
  <2>2. Offset(seqs, 0) = 0 /\ Offset(seqs, 1) = Len(f[1]) /\ IsAt(f[1], 0, f[1])
    BY <1>3, <2>1, IsAtItself
  <2> QED
    BY <2>1, <2>2 DEF PartsIn
<1>5. ASSUME NEW m \in 1..(Len(seqs) - 1), Holds(m) PROVE Holds(m + 1)
  <2> DEFINE whole == f[m + 1]
             part == seqs[m + 1]
  <2>1. m \in Nat /\ m \in 1..Len(seqs) /\ m + 1 \in 2..Len(seqs) /\ (m + 1) - 1 = m
    BY <1>1
  <2>2. whole = f[m] \o part /\ part \in Seq(S)
    <3>1. f[m + 1] = f[(m + 1) - 1] \o seqs[m + 1]
      BY <1>2, <2>1, Zenon
    <3> QED
      BY <1>1, <2>1, <3>1
  <2> HIDE DEF whole, part
  <2>3. f[m] \in Seq(S) /\ PartsIn(seqs, m, f[m])
    BY <1>5
  <2>4. /\ Len(f[m]) \in Nat /\ Len(part) \in Nat
        /\ whole \in Seq(S) /\ Len(whole) = Len(f[m]) + Len(part)
    BY <2>2, <2>3, ConcatProperties, LenProperties
  <2>5. Offset(seqs, m) = Len(f[m]) /\ Offset(seqs, m + 1) = Len(whole)
    BY <1>3, <2>1 DEF whole
  <2>6. ASSUME NEW k \in 1..m
        PROVE  /\ Offset(seqs, k - 1) \in Nat
               /\ Offset(seqs, k) = Offset(seqs, k - 1) + Len(seqs[k])
               /\ IsAt(whole, Offset(seqs, k - 1), seqs[k])
    <3>1. /\ Offset(seqs, k - 1) \in Nat
          /\ Offset(seqs, k) = Offset(seqs, k - 1) + Len(seqs[k])
          /\ IsAt(f[m], Offset(seqs, k - 1), seqs[k])
      BY <2>3 DEF PartsIn
    <3>2. seqs[k] \in Seq(S)
      BY <1>1, <2>1
    <3> QED
      BY <2>2, <2>3, <3>1, <3>2, IsAtFirst
  <2>7. Offset(seqs, m) \in Nat /\ IsAt(whole, Offset(seqs, m), part)
    <3>1. IsAt(f[m] \o part, Len(f[m]) + 0, part)
      BY <2>2, <2>3, IsAtItself, IsAtSecond
    <3> QED
      BY <2>2, <2>4, <2>5, <3>1
  <2>8. PartsIn(seqs, m + 1, whole)
    <3> SUFFICES ASSUME NEW k \in 1..(m + 1)
                 PROVE  /\ Offset(seqs, k - 1) \in Nat
                        /\ Offset(seqs, k) = Offset(seqs, k - 1) + Len(seqs[k])
                        /\ IsAt(whole, Offset(seqs, k - 1), seqs[k])
      BY DEF PartsIn
    <3>1. CASE k \in 1..m
      BY <2>6, <3>1
    <3>2. CASE k = m + 1
      BY <2>1, <2>4, <2>5, <2>7, <3>2 DEF part
    <3> QED
      BY <2>1, <3>1, <3>2
  <2> QED
    BY <2>4, <2>8 DEF whole
<1>6. 0 \in P
  BY <1>4
<1>7. \A m \in Nat : m \in P => m + 1 \in P
  <2> SUFFICES ASSUME NEW m \in Nat, m \in P, (m + 1) + 1 \in 1..Len(seqs) PROVE Holds((m + 1) + 1)
    BY DEF P
  <2>1. m + 1 \in 1..(Len(seqs) - 1) /\ m + 1 \in 1..Len(seqs)
    BY <1>1
  <2>2. Holds(m + 1)
    BY <2>1
  <2> HIDE DEF Holds
  <2> QED
    BY <1>5, <2>1, <2>2
<1>8. Nat \subseteq P
  <2> HIDE DEF P
  <2> QED
    BY <1>6, <1>7, Induction
<1> QED
  BY <1>8 DEF f

(* The whole is as long as its parts together, which follow each other.    *)
LEMMA Flattened ==
  ASSUME NEW S, NEW seqs \in Seq(Seq(S))
  PROVE  /\ FlattenSeq(seqs) \in Seq(S)
         /\ Len(FlattenSeq(seqs)) = Offset(seqs, Len(seqs))
         /\ Offset(seqs, 0) = 0
         /\ \A k \in 0..Len(seqs) : Offset(seqs, k) \in Nat
         /\ PartsIn(seqs, Len(seqs), FlattenSeq(seqs))
<1>0. Len(seqs) \in Nat /\ \A k \in 1..Len(seqs) : seqs[k] \in Seq(S) /\ Len(seqs[k]) \in Nat
  BY ElementOfSeq, LenProperties
<1>1. Offset(seqs, 0) = 0
  BY DEF Offset
<1>2. CASE Len(seqs) = 0
  <2>1. FlattenSeq(seqs) = seqs /\ seqs = <<>>
    BY <1>2, EmptySeq DEF FlattenSeq
  <2> QED
    BY <1>1, <1>2, <2>1 DEF PartsIn
<1>3. CASE Len(seqs) # 0
  <2> DEFINE n == Len(seqs) - 1
             whole == Flat(seqs)[Len(seqs)]
  <2>1. n \in Nat /\ n + 1 = Len(seqs) /\ n + 1 \in 1..Len(seqs)
    BY <1>0, <1>3
  <2>2. whole \in Seq(S) /\ PartsIn(seqs, Len(seqs), whole)
    <3> HIDE DEF n
    <3>1. Flat(seqs)[n + 1] \in Seq(S) /\ PartsIn(seqs, n + 1, Flat(seqs)[n + 1])
      BY <2>1, FlatPrefix
    <3> QED
      BY <2>1, <3>1
  <2>3. FlattenSeq(seqs) = whole
    BY <1>0, <1>3, FlatStep
  <2>4. Len(whole) = Offset(seqs, Len(seqs)) /\ Len(whole) \in Nat
    BY <1>3, <2>2, LenProperties DEF Offset
  <2> HIDE DEF whole, n
  <2>5. ASSUME NEW k \in 0..Len(seqs) PROVE Offset(seqs, k) \in Nat
    <3>1. CASE k = Len(seqs)
      BY <2>4, <3>1
    <3>2. CASE k # Len(seqs)
      <4>1. k + 1 \in 1..Len(seqs) /\ (k + 1) - 1 = k
        BY <1>0, <3>2
      <4> QED
        BY <2>2, <4>1, Zenon DEF PartsIn
    <3> QED
      BY <3>1, <3>2
  <2> QED
    BY <1>1, <2>2, <2>3, <2>4, <2>5
<1> QED
  BY <1>2, <1>3

(* Parts begin in order.                                                   *)
LEMMA OffsetsGrow ==
  ASSUME NEW S, NEW seqs \in Seq(Seq(S)), NEW m \in 0..Len(seqs), NEW n \in m..Len(seqs)
  PROVE  Offset(seqs, m) <= Offset(seqs, n)
<1>0. Len(seqs) \in Nat /\ \A k \in 1..Len(seqs) : Len(seqs[k]) \in Nat
  BY ElementOfSeq, LenProperties
<1>1. /\ \A k \in 0..Len(seqs) : Offset(seqs, k) \in Nat
      /\ \A k \in 1..Len(seqs) : Offset(seqs, k) = Offset(seqs, k - 1) + Len(seqs[k])
  BY Flattened DEF PartsIn
<1> DEFINE P == {i \in Nat : m + i <= Len(seqs) => Offset(seqs, m) <= Offset(seqs, m + i)}
<1>2. 0 \in P
  BY <1>0, <1>1
<1>3. \A i \in Nat : i \in P => i + 1 \in P
  <2> SUFFICES ASSUME NEW i \in Nat, i \in P, m + (i + 1) <= Len(seqs)
               PROVE  Offset(seqs, m) <= Offset(seqs, m + (i + 1))
    OBVIOUS
  <2> DEFINE k == m + (i + 1)
  <2>1. k \in 1..Len(seqs) /\ k - 1 = m + i /\ k - 1 \in 0..Len(seqs)
    BY <1>0
  <2>2. Offset(seqs, m) <= Offset(seqs, k - 1)
    BY <1>0, <2>1
  <2> HIDE DEF k
  <2>3. Offset(seqs, k) = Offset(seqs, k - 1) + Len(seqs[k]) /\ Len(seqs[k]) \in Nat
    BY <1>0, <1>1, <2>1
  <2>4. Offset(seqs, k - 1) \in Nat /\ Offset(seqs, m) \in Nat
    BY <1>1, <2>1
  <2>5. Offset(seqs, m) <= Offset(seqs, k)
    BY <2>2, <2>3, <2>4
  <2> QED
    BY <2>5 DEF k
<1>4. n - m \in Nat /\ m + (n - m) = n
  BY <1>0
<1>5. n - m \in P
  <2>1. Nat \subseteq P
    <3> HIDE DEF P
    <3> QED
      BY <1>2, <1>3, Induction
  <2> QED
    BY <1>4, <2>1
<1> QED
  BY <1>0, <1>4, <1>5

-----------------------------------------------------------------------------
(* Numbers in digits.                                                      *)

LEMMA Division ==
  ASSUME NEW m \in Nat, NEW b \in Nat, b >= 2
  PROVE  /\ m \div b \in Nat /\ m % b \in 0..(b - 1)
         /\ m = b * (m \div b) + (m % b)
         /\ m >= b => m \div b < m
<1>1. m \div b \in Nat /\ m % b \in 0..(b - 1) /\ m = b * (m \div b) + (m % b)
  OBVIOUS
<1> DEFINE q == m \div b
<1>2. ASSUME m >= b PROVE q < m
  <2>1. q \in Nat /\ b * q <= m
    BY <1>1
  <2> HIDE DEF q
  <2>2. b * q >= 2 * q
    BY <2>1
  <2> QED
    BY <1>2, <2>1, <2>2
<1> QED
  BY <1>1, <1>2

LEMMA DigitFacts ==
  /\ Base \in Nat /\ Base >= 2
  /\ \A b : IsDigit(b) => DigitValue(b) \in 0..(Base - 1)
  /\ \A d \in 0..(Base - 1) : IsDigit(Digits[d + 1]) /\ DigitValue(Digits[d + 1]) = d
                              /\ Digits[d + 1] \in Byte
  /\ ~IsDigit(".") /\ ~IsDigit(",") /\ ~IsDigit(";")
<1>1. Base \in Nat /\ Base >= 2 /\ DOMAIN Digits = 1..Base /\ \A d \in 1..Base : Digits[d] \in Byte
  BY DigitsAssumption, LenProperties, ElementOfSeq DEF Base
<1>2. ASSUME NEW b, IsDigit(b) PROVE DigitValue(b) \in 0..(Base - 1)
  <2>1. \E d \in DOMAIN Digits : Digits[d] = b
    BY <1>2 DEF IsDigit
  <2>2. (CHOOSE d \in DOMAIN Digits : Digits[d] = b) \in 1..Base
    BY <1>1, <2>1
  <2> QED
    BY <1>1, <2>2 DEF DigitValue
<1>3. ASSUME NEW d \in 0..(Base - 1)
      PROVE  IsDigit(Digits[d + 1]) /\ DigitValue(Digits[d + 1]) = d /\ Digits[d + 1] \in Byte
  <2> DEFINE c == CHOOSE e \in DOMAIN Digits : Digits[e] = Digits[d + 1]
  <2>1. d + 1 \in DOMAIN Digits /\ d + 1 \in 1..Base
    BY <1>1
  <2>2. c \in DOMAIN Digits /\ Digits[c] = Digits[d + 1]
    BY <2>1
  <2>3. c = d + 1
    <3> HIDE DEF c
    <3> QED
      BY <2>1, <2>2, DigitsAssumption
  <2>4. IsDigit(Digits[d + 1])
    BY <2>1, Zenon DEF IsDigit
  <2>5. DigitValue(Digits[d + 1]) = d
    <3>1. DigitValue(Digits[d + 1]) = c - 1
      BY DEF DigitValue
    <3> HIDE DEF c
    <3> QED
      BY <2>3, <3>1
  <2> QED
    BY <1>1, <2>1, <2>4, <2>5
<1>4. ~IsDigit(".") /\ ~IsDigit(",") /\ ~IsDigit(";")
  BY DigitsAssumption DEF IsDigit
<1> QED
  BY <1>1, <1>2, <1>3, <1>4

Values(ds) ==
  CHOOSE f : f = [n \in 0..Len(ds) |-> IF n = 0 THEN 0 ELSE Base * f[n - 1] + DigitValue(ds[n])]

(* The recursion has a solution.                                           *)
LEMMA ValuesExist ==
  ASSUME NEW ds, NEW k \in Nat
  PROVE  \E f : f = [n \in 0..k |-> IF n = 0 THEN 0 ELSE Base * f[n - 1] + DigitValue(ds[n])]
<1> DEFINE Rule(f, n) == IF n = 0 THEN 0 ELSE Base * f[n - 1] + DigitValue(ds[n])
           P == {m \in Nat : \E f : f = [n \in 0..m |-> Rule(f, n)]}
<1>1. 0 \in P
  <2> DEFINE f == [n \in 0..0 |-> 0]
  <2>1. f = [n \in 0..0 |-> Rule(f, n)]
    OBVIOUS
  <2> QED
    BY <2>1
<1>2. ASSUME NEW m \in Nat, m \in P PROVE m + 1 \in P
  <2>1. PICK f : f = [n \in 0..m |-> Rule(f, n)]
    BY <1>2
  <2> DEFINE g == [n \in 0..(m + 1) |-> IF n <= m THEN f[n] ELSE Rule(f, n)]
  <2>2. ASSUME NEW n \in 0..(m + 1) PROVE g[n] = Rule(g, n)
    <3>1. n # 0 => g[n - 1] = f[n - 1]
      OBVIOUS
    <3>2. Rule(g, n) = Rule(f, n)
      BY <3>1
    <3>3. ASSUME n <= m PROVE f[n] = Rule(f, n)
      <4>1. n \in 0..m
        BY <3>3
      <4> QED
        BY <2>1, <4>1, Zenon
    <3> HIDE DEF Rule
    <3> QED
      BY <3>2, <3>3
  <2>3. g = [n \in 0..(m + 1) |-> Rule(g, n)]
    <3>1. g = [n \in 0..(m + 1) |-> g[n]]
      OBVIOUS
    <3> HIDE DEF g, Rule
    <3> QED
      BY <2>2, <3>1, Zenon
  <2>4. m + 1 \in Nat
    OBVIOUS
  <2> HIDE DEF g, Rule
  <2> QED
    BY <2>3, <2>4, Zenon
<1>3. Nat \subseteq P
  <2> HIDE DEF P
  <2> QED
    BY <1>1, <1>2, Induction
<1> QED
  BY <1>3

LEMMA ValuesStep ==
  ASSUME NEW ds, Len(ds) \in Nat
  PROVE  /\ Number(ds) = Values(ds)[Len(ds)]
         /\ Values(ds)[0] = 0
         /\ \A n \in 1..Len(ds) : Values(ds)[n] = Base * Values(ds)[n - 1] + DigitValue(ds[n])
<1> DEFINE f == Values(ds)
           Rule(n) == IF n = 0 THEN 0 ELSE Base * f[n - 1] + DigitValue(ds[n])
<1>1. f = [n \in 0..Len(ds) |-> Rule(n)]
  BY ValuesExist, Zenon DEF Values
<1>2. Number(ds) = f[Len(ds)]
  BY DEF Number, Values
<1>3. \A n \in 0..Len(ds) : f[n] = Rule(n)
  <2> HIDE DEF f, Rule
  <2> QED
    BY <1>1, Zenon
<1> HIDE DEF f
<1>4. f[0] = 0
  BY <1>3
<1>5. ASSUME NEW n \in 1..Len(ds) PROVE f[n] = Base * f[n - 1] + DigitValue(ds[n])
  <2>1. n \in 0..Len(ds) /\ n # 0
    OBVIOUS
  <2> QED
    BY <1>3, <2>1, Zenon
<1> QED
  BY <1>2, <1>4, <1>5 DEF f

(* A sequence of digits stands for a natural number.                       *)
LEMMA NumberType ==
  ASSUME NEW ds, Len(ds) \in Nat, \A i \in 1..Len(ds) : IsDigit(ds[i])
  PROVE  Number(ds) \in Nat /\ \A n \in 0..Len(ds) : Values(ds)[n] \in Nat
<1> DEFINE f == Values(ds)
           P == {n \in Nat : n <= Len(ds) => f[n] \in Nat}
<1>1. /\ Number(ds) = f[Len(ds)] /\ f[0] = 0
      /\ \A n \in 1..Len(ds) : f[n] = Base * f[n - 1] + DigitValue(ds[n])
  BY ValuesStep
<1> HIDE DEF f
<1>2. 0 \in P
  BY <1>1
<1>3. \A n \in Nat : n \in P => n + 1 \in P
  <2> SUFFICES ASSUME NEW n \in Nat, n \in P, n + 1 <= Len(ds) PROVE f[n + 1] \in Nat
    OBVIOUS
  <2>1. f[n] \in Nat /\ n + 1 \in 1..Len(ds) /\ (n + 1) - 1 = n
    OBVIOUS
  <2>2. f[n + 1] = Base * f[n] + DigitValue(ds[n + 1])
    BY <1>1, <2>1
  <2>3. DigitValue(ds[n + 1]) \in Nat /\ Base \in Nat
    <3>1. IsDigit(ds[n + 1])
      BY <2>1
    <3>2. DigitValue(ds[n + 1]) \in 0..(Base - 1) /\ Base \in Nat
      BY <3>1, DigitFacts
    <3> QED
      BY <3>2
  <2> QED
    BY <2>1, <2>2, <2>3
<1>4. Nat \subseteq P
  <2> HIDE DEF P
  <2> QED
    BY <1>2, <1>3, Induction
<1> QED
  BY <1>1, <1>4 DEF f

LEMMA Singleton ==
  ASSUME NEW S, NEW d \in S
  PROVE  <<d>> \in Seq(S) /\ Len(<<d>>) = 1 /\ <<d>>[1] = d
<1>1. <<d>> \in Seq(S)
  OBVIOUS
<1>2. Len(<<d>>) = 1
  OBVIOUS
<1>3. <<d>>[1] = d
  OBVIOUS
<1> QED
  BY <1>1, <1>2, <1>3

(* One more digit.                                                         *)
LEMMA NumberAppend ==
  ASSUME NEW ds \in Seq(Byte), NEW d \in Byte
  PROVE  Number(ds \o <<d>>) = Base * Number(ds) + DigitValue(d)
<1> DEFINE es == ds \o <<d>>
           f == Values(ds)
           g == Values(es)
           P == {n \in Nat : n <= Len(ds) => g[n] = f[n]}
<1>1. /\ Len(ds) \in Nat /\ Len(es) = Len(ds) + 1 /\ es[Len(ds) + 1] = d
      /\ \A i \in 1..Len(ds) : es[i] = ds[i]
  <2> DEFINE e == <<d>>
  <2>1. e \in Seq(Byte) /\ Len(e) = 1 /\ e[1] = d
    BY Singleton
  <2> HIDE DEF e
  <2>2. Joins(ds, e, ds \o e, Byte)
    BY <2>1, Joined
  <2>3. 1 \in 1..Len(e)
    BY <2>1
  <2>4. /\ Len(ds) \in Nat /\ Len(ds \o e) = Len(ds) + 1 /\ (ds \o e)[Len(ds) + 1] = d
        /\ \A i \in 1..Len(ds) : (ds \o e)[i] = ds[i]
    BY <2>1, <2>2, <2>3 DEF Joins
  <2> QED
    BY <2>4 DEF e
<1> HIDE DEF es
<1>2. /\ Number(ds) = f[Len(ds)] /\ f[0] = 0
      /\ \A n \in 1..Len(ds) : f[n] = Base * f[n - 1] + DigitValue(ds[n])
  BY <1>1, ValuesStep
<1>3. /\ Number(es) = g[Len(es)] /\ g[0] = 0
      /\ \A n \in 1..Len(es) : g[n] = Base * g[n - 1] + DigitValue(es[n])
  BY <1>1, ValuesStep
<1> HIDE DEF f, g
<1>4. 0 \in P
  BY <1>2, <1>3
<1>5. \A n \in Nat : n \in P => n + 1 \in P
  <2> SUFFICES ASSUME NEW n \in Nat, n \in P, n + 1 <= Len(ds) PROVE g[n + 1] = f[n + 1]
    OBVIOUS
  <2>1. g[n] = f[n] /\ n + 1 \in 1..Len(ds) /\ n + 1 \in 1..Len(es) /\ (n + 1) - 1 = n
    BY <1>1
  <2> QED
    BY <1>1, <1>2, <1>3, <2>1
<1>6. g[Len(ds)] = f[Len(ds)]
  <2>1. Nat \subseteq P
    <3> HIDE DEF P
    <3> QED
      BY <1>4, <1>5, Induction
  <2> QED
    BY <1>1, <2>1
<1>7. (Len(ds) + 1) - 1 = Len(ds) /\ Len(es) \in 1..Len(es)
  BY <1>1
<1> QED
  BY <1>1, <1>2, <1>3, <1>6, <1>7 DEF es

DigitsOf(n) ==
  CHOOSE f : f = [m \in 0..n |->
    (IF m < Base THEN <<>> ELSE f[m \div Base]) \o <<Digits[(m % Base) + 1]>>]

(* The recursion has a solution.                                           *)
LEMMA DigitsExist ==
  ASSUME NEW k \in Nat
  PROVE  \E f : f = [m \in 0..k |->
           (IF m < Base THEN <<>> ELSE f[m \div Base]) \o <<Digits[(m % Base) + 1]>>]
<1> DEFINE Rule(f, m) == (IF m < Base THEN <<>> ELSE f[m \div Base]) \o <<Digits[(m % Base) + 1]>>
           P == {n \in Nat : \E f : f = [m \in 0..n |-> Rule(f, m)]}
<1>0. Base \in Nat /\ Base >= 2
  BY DigitFacts
<1>1. 0 \in P
  <2> DEFINE f == [m \in 0..0 |-> <<>> \o <<Digits[(m % Base) + 1]>>]
  <2>1. f = [m \in 0..0 |-> Rule(f, m)]
    BY <1>0
  <2> QED
    BY <2>1
<1>2. ASSUME NEW n \in Nat, n \in P PROVE n + 1 \in P
  <2>1. PICK f : f = [m \in 0..n |-> Rule(f, m)]
    BY <1>2
  <2> DEFINE g == [m \in 0..(n + 1) |-> IF m <= n THEN f[m] ELSE Rule(f, m)]
  <2>2. ASSUME NEW m \in 0..(n + 1) PROVE g[m] = Rule(g, m)
    <3>1. ASSUME ~(m < Base) PROVE g[m \div Base] = f[m \div Base]
      <4> DEFINE q == m \div Base
      <4>1. q \in Nat /\ q < m
        BY <1>0, <3>1, Division
      <4> HIDE DEF q
      <4>2. g[q] = f[q]
        BY <4>1
      <4> QED
        BY <4>2 DEF q
    <3>2. Rule(g, m) = Rule(f, m)
      <4> HIDE DEF g
      <4> QED
        BY <3>1
    <3>3. ASSUME m <= n PROVE f[m] = Rule(f, m)
      <4>1. m \in 0..n
        BY <3>3
      <4> QED
        BY <2>1, <4>1, Zenon
    <3> HIDE DEF Rule
    <3> QED
      BY <3>2, <3>3
  <2>3. g = [m \in 0..(n + 1) |-> Rule(g, m)]
    <3>1. g = [m \in 0..(n + 1) |-> g[m]]
      OBVIOUS
    <3> HIDE DEF g, Rule
    <3> QED
      BY <2>2, <3>1, Zenon
  <2>4. n + 1 \in Nat
    OBVIOUS
  <2> HIDE DEF g, Rule
  <2> QED
    BY <2>3, <2>4, Zenon
<1>3. Nat \subseteq P
  <2> HIDE DEF P
  <2> QED
    BY <1>1, <1>2, Induction
<1> QED
  BY <1>3

(* Decimal gives digits, at least one, that Number reads back.             *)
LEMMA NumberOfDecimal ==
  ASSUME NEW n \in Nat
  PROVE  /\ Decimal(n) \in Seq(Byte) /\ Len(Decimal(n)) >= 1
         /\ \A i \in 1..Len(Decimal(n)) : IsDigit(Decimal(n)[i])
         /\ Number(Decimal(n)) = n
<1> DEFINE f == DigitsOf(n)
           Rule(m) == (IF m < Base THEN <<>> ELSE f[m \div Base]) \o <<Digits[(m % Base) + 1]>>
           Holds(m) == /\ f[m] \in Seq(Byte) /\ Len(f[m]) >= 1
                       /\ \A i \in 1..Len(f[m]) : IsDigit(f[m][i])
                       /\ Number(f[m]) = m
           P == {m \in Nat : m <= n => Holds(m)}
<1>0. Base \in Nat /\ Base >= 2
  BY DigitFacts
<1>1. f = [m \in 0..n |-> Rule(m)]
  BY DigitsExist, Zenon DEF DigitsOf
<1>2. Decimal(n) = f[n]
  BY DEF Decimal, DigitsOf
<1>3. ASSUME NEW m \in 0..n PROVE f[m] = Rule(m)
  <2> HIDE DEF f, Rule
  <2> QED
    BY <1>1, Zenon
<1> HIDE DEF f
<1>4. ASSUME NEW m \in Nat, \A i \in 0..(m - 1) : i \in P PROVE m \in P
  <2> SUFFICES ASSUME m <= n PROVE Holds(m)
    OBVIOUS
  <2> DEFINE q == m \div Base
             r == m % Base
             d == Digits[r + 1]
             front == IF m < Base THEN <<>> ELSE f[q]
  <2>1. /\ q \in Nat /\ r \in 0..(Base - 1) /\ m = Base * q + r
        /\ m >= Base => q < m
    BY <1>0, Division
  <2>2. f[m] = front \o <<d>>
    <3>1. m \in 0..n
      OBVIOUS
    <3> QED
      BY <1>3, <3>1
  <2>3. m < Base => q = 0
    BY <1>0, <2>1
  <2> HIDE DEF q, r
  <2>4. IsDigit(d) /\ DigitValue(d) = r /\ d \in Byte
    BY <2>1, DigitFacts
  <2>5. /\ front \in Seq(Byte) /\ \A i \in 1..Len(front) : IsDigit(front[i])
        /\ Number(front) = q
    <3>1. CASE m < Base
      <4>1. front = <<>> /\ Len(<<>>) = 0
        BY <3>1
      <4>2. Number(<<>>) = 0
        BY <4>1, ValuesStep
      <4> QED
        BY <2>3, <3>1, <4>1, <4>2
    <3>2. CASE ~(m < Base)
      <4>1. q \in 0..(m - 1) /\ q <= n /\ front = f[q]
        BY <1>0, <2>1, <3>2
      <4>2. Holds(q)
        BY <1>4, <4>1
      <4> HIDE DEF front
      <4> QED
        BY <4>1, <4>2
    <3> QED
      BY <3>1, <3>2
  <2> HIDE DEF d, front
  <2>6. /\ f[m] \in Seq(Byte) /\ Len(f[m]) = Len(front) + 1 /\ Len(front) \in Nat
        /\ \A i \in 1..Len(front) : f[m][i] = front[i]
        /\ f[m][Len(front) + 1] = d
    <3> DEFINE e == <<d>>
    <3>1. e \in Seq(Byte) /\ Len(e) = 1 /\ e[1] = d
      BY <2>4, Singleton
    <3>2. f[m] = front \o e
      BY <2>2
    <3> HIDE DEF e
    <3>3. Joins(front, e, f[m], Byte)
      BY <2>5, <3>1, <3>2, Joined
    <3>4. 1 \in 1..Len(e)
      BY <3>1
    <3> QED
      BY <3>1, <3>3, <3>4 DEF Joins
  <2>7. ASSUME NEW i \in 1..Len(f[m]) PROVE IsDigit(f[m][i])
    <3>1. CASE i <= Len(front)
      <4>1. i \in 1..Len(front) /\ f[m][i] = front[i]
        BY <2>6, <3>1
      <4> QED
        BY <2>5, <4>1
    <3>2. CASE ~(i <= Len(front))
      <4>1. i = Len(front) + 1
        BY <2>6, <3>2
      <4> QED
        BY <2>4, <2>6, <4>1
    <3> QED
      BY <3>1, <3>2
  <2>8. Number(f[m]) = m
    BY <2>1, <2>2, <2>4, <2>5, NumberAppend
  <2> QED
    BY <2>6, <2>7, <2>8
<1>5. Nat \subseteq P
  <2> HIDE DEF P
  <2> QED
    BY <1>4, StrongInduction
<1> QED
  BY <1>2, <1>5

-----------------------------------------------------------------------------
(* Elements: where the digits, the ".", the value and the end of one are.  *)

HasForm(e, ds, bs, end) ==
  /\ ds \in Seq(Byte) /\ bs \in Seq(Byte) /\ e \in Seq(Byte)
  /\ Len(ds) \in Nat /\ Len(ds) >= 1 /\ Len(bs) \in Nat
  /\ Len(e) = Len(ds) + 1 + Len(bs) + 1
  /\ \A i \in 1..Len(ds) : e[i] = ds[i] /\ IsDigit(e[i])
  /\ e[Len(ds) + 1] = "."
  /\ \A i \in 1..Len(bs) : e[Len(ds) + 1 + i] = bs[i]
  /\ e[Len(ds) + 1 + Len(bs) + 1] = end

LEMMA ElementForm ==
  ASSUME NEW value \in Seq(Seq(Byte)), NEW n \in Nat, NEW end \in Byte
  PROVE  HasForm(Element(value, n, end), Decimal(n), Bytes(value), end)
<1> DEFINE ds == Decimal(n)
           bs == Bytes(value)
           dot == <<".">>
           last1 == <<end>>
           a == ds \o dot
           b == a \o bs
           e == b \o last1
<1>0. Element(value, n, end) = e
  BY DEF Element
<1>1. /\ ds \in Seq(Byte) /\ Len(ds) \in Nat /\ Len(ds) >= 1
      /\ \A i \in 1..Len(ds) : IsDigit(ds[i])
  BY NumberOfDecimal, LenProperties
<1>2. bs \in Seq(Byte) /\ Len(bs) \in Nat
  <2>1. bs \in Seq(Byte)
    BY Flattened DEF Bytes
  <2> QED
    BY <2>1, LenProperties
<1>3. dot \in Seq(Byte) /\ Len(dot) = 1
  BY DigitsAssumption, Singleton, Zenon
<1>4. last1 \in Seq(Byte) /\ Len(last1) = 1
  BY Singleton, Zenon
<1>14. dot[1] = "." /\ last1[1] = end
  OBVIOUS
<1>5. a = ds \o dot /\ b = a \o bs /\ e = b \o last1
  OBVIOUS
<1> HIDE DEF ds, bs, dot, last1, a, b, e
<1>6. /\ a \in Seq(Byte) /\ Len(a) = Len(ds) + 1
      /\ \A i \in 1..Len(ds) : a[i] = ds[i]
      /\ a[Len(ds) + 1] = dot[1]
  <2>1. Joins(ds, dot, a, Byte)
    BY <1>1, <1>3, <1>5, Joined
  <2>2. 1 \in 1..Len(dot)
    BY <1>3
  <2> QED
    BY <1>3, <2>1, <2>2 DEF Joins
<1>7. /\ b \in Seq(Byte) /\ Len(b) = Len(a) + Len(bs)
      /\ \A i \in 1..Len(a) : b[i] = a[i]
      /\ \A i \in 1..Len(bs) : b[Len(a) + i] = bs[i]
  <2>1. Joins(a, bs, b, Byte)
    BY <1>2, <1>5, <1>6, Joined
  <2> QED
    BY <2>1 DEF Joins
<1>8. /\ e \in Seq(Byte) /\ Len(e) = Len(b) + 1
      /\ \A i \in 1..Len(b) : e[i] = b[i]
      /\ e[Len(b) + 1] = last1[1]
  <2>1. Joins(b, last1, e, Byte)
    BY <1>4, <1>5, <1>7, Joined
  <2>2. 1 \in 1..Len(last1)
    BY <1>4
  <2> QED
    BY <1>4, <2>1, <2>2 DEF Joins
<1>9. ASSUME NEW i \in 1..Len(ds) PROVE e[i] = ds[i] /\ IsDigit(e[i])
  <2>1. i \in 1..Len(a) /\ i \in 1..Len(b)
    BY <1>1, <1>2, <1>6, <1>7
  <2>2. e[i] = ds[i]
    BY <1>6, <1>7, <1>8, <2>1
  <2> QED
    BY <1>1, <2>2
<1>10. e[Len(ds) + 1] = "."
  <2>1. Len(ds) + 1 \in 1..Len(a) /\ Len(ds) + 1 \in 1..Len(b)
    BY <1>1, <1>2, <1>6, <1>7
  <2> QED
    BY <1>6, <1>7, <1>8, <1>14, <2>1
<1>11. ASSUME NEW i \in 1..Len(bs) PROVE e[Len(ds) + 1 + i] = bs[i]
  <2>1. Len(a) + i \in 1..Len(b) /\ Len(a) + i = Len(ds) + 1 + i
    BY <1>1, <1>2, <1>6, <1>7
  <2> QED
    BY <1>7, <1>8, <2>1
<1>12. Len(b) + 1 = Len(ds) + 1 + Len(bs) + 1
  BY <1>1, <1>2, <1>6, <1>7
<1>13. e[Len(ds) + 1 + Len(bs) + 1] = end /\ Len(e) = Len(ds) + 1 + Len(bs) + 1
  BY <1>8, <1>12, <1>14
<1>15. HasForm(e, ds, bs, end)
  BY <1>1, <1>2, <1>8, <1>9, <1>10, <1>11, <1>13 DEF HasForm
<1> QED
  BY <1>0, <1>15 DEF ds, bs

(* The elements of an instruction, with any lengths.                       *)
End(instruction, k) == IF k = Len(instruction) THEN ";" ELSE ","

LEMMA ElementsForm ==
  ASSUME NEW instruction \in Instruction, NEW lengths,
         \A k \in DOMAIN instruction : lengths[k] \in Nat
  PROVE  LET es == Elements(instruction, lengths)
         IN  /\ es \in Seq(Seq(Byte)) /\ Len(es) = Len(instruction)
             /\ Len(instruction) \in Nat \ {0} /\ DOMAIN instruction = 1..Len(instruction)
             /\ \A k \in 1..Len(instruction) :
                  /\ instruction[k] \in Seq(Seq(Byte)) /\ End(instruction, k) \in Byte
                  /\ es[k] = Element(instruction[k], lengths[k], End(instruction, k))
                  /\ es[k] \in Seq(Byte) /\ Len(es[k]) \in Nat /\ Len(es[k]) >= 3
<1> DEFINE es == Elements(instruction, lengths)
           m == Len(instruction)
<1>1. /\ instruction \in Seq(Seq(Seq(Byte))) /\ instruction # <<>>
      /\ m \in Nat /\ DOMAIN instruction = 1..m
  BY LenProperties DEF Instruction
<1>2. m # 0
  BY <1>1, EmptySeq
<1>3. es = [k \in 1..m |-> Element(instruction[k], lengths[k], End(instruction, k))]
  BY <1>1, Zenon DEF Elements, End
<1>4. ASSUME NEW k \in 1..m
      PROVE  /\ instruction[k] \in Seq(Seq(Byte)) /\ End(instruction, k) \in Byte
             /\ es[k] = Element(instruction[k], lengths[k], End(instruction, k))
             /\ es[k] \in Seq(Byte) /\ Len(es[k]) \in Nat /\ Len(es[k]) >= 3
  <2>1. instruction[k] \in Seq(Seq(Byte)) /\ lengths[k] \in Nat
    BY <1>1, ElementOfSeq
  <2>2. End(instruction, k) \in Byte
    <3>1. ";" \in Byte /\ "," \in Byte
      BY DigitsAssumption
    <3> QED
      BY <3>1, Zenon DEF End
  <2>3. es[k] = Element(instruction[k], lengths[k], End(instruction, k))
    BY <1>3, Zenon
  <2> DEFINE e == Element(instruction[k], lengths[k], End(instruction, k))
             ds == Decimal(lengths[k])
             bs == Bytes(instruction[k])
  <2>4. /\ e \in Seq(Byte) /\ Len(e) = Len(ds) + 1 + Len(bs) + 1
        /\ Len(ds) \in Nat /\ Len(ds) >= 1 /\ Len(bs) \in Nat
    <3>1. HasForm(e, ds, bs, End(instruction, k))
      BY <2>1, <2>2, ElementForm
    <3> HIDE DEF e, ds, bs
    <3> QED
      BY <3>1 DEF HasForm
  <2> HIDE DEF e, ds, bs
  <2>5. Len(e) \in Nat /\ Len(e) >= 3
    BY <2>4
  <2> QED
    BY <2>1, <2>2, <2>3, <2>4, <2>5 DEF e
<1> HIDE DEF es
<1>5. es \in Seq(Seq(Byte)) /\ Len(es) = m
  <2>1. es \in [1..m -> Seq(Byte)]
    BY <1>3, <1>4 DEF es
  <2> QED
    BY <1>1, <2>1, FunctionIsSeq
<1> QED
  BY <1>1, <1>2, <1>4, <1>5 DEF es

-----------------------------------------------------------------------------
(* Parse reads what String writes.                                         *)

(* A part of a sequence that is known member by member.                    *)
LEMMA SubSeqAt ==
  ASSUME NEW data \in Seq(Byte), NEW p \in Seq(Byte), NEW m \in Nat,
         m + Len(p) <= Len(data), \A i \in 1..Len(p) : data[m + i] = p[i]
  PROVE  SubSeq(data, m + 1, m + Len(p)) = p
<1> DEFINE s == SubSeq(data, m + 1, m + Len(p))
<1>1. Len(p) \in Nat /\ Len(data) \in Nat
  BY LenProperties
<1>2. \A i \in (m + 1)..(m + Len(p)) : data[i] \in Byte
  BY <1>1, ElementOfSeq
<1>3. /\ s \in Seq(Byte)
      /\ Len(s) = IF m + 1 <= m + Len(p) THEN m + Len(p) - (m + 1) + 1 ELSE 0
      /\ \A i \in 1..(m + Len(p) - (m + 1) + 1) : s[i] = data[(m + 1) + i - 1]
  BY <1>1, <1>2, SubSeqProperties
<1> HIDE DEF s
<1>4. Len(s) = Len(p)
  BY <1>1, <1>3
<1>6. ASSUME NEW i \in 1..Len(s) PROVE s[i] = p[i]
  <2>1. i \in 1..(m + Len(p) - (m + 1) + 1) /\ (m + 1) + i - 1 = m + i /\ i \in 1..Len(p)
    BY <1>1, <1>4
  <2> QED
    BY <1>3, <2>1
<1>5. s = p
  BY <1>3, <1>4, <1>6, SeqEqual
<1> QED
  BY <1>5 DEF s

LEMMA ElementRead ==
  ASSUME NEW data \in Seq(Byte), NEW off \in Nat, NEW value \in Seq(Seq(Byte)), NEW end \in Byte,
         IsAt(data, off, Element(value, Len(Bytes(value)), end))
  PROVE  LET e == Element(value, Len(Bytes(value)), end)
         IN  /\ IsElement(data, off + 1)
             /\ EndFrom(data, off + 1) = off + Len(e)
             /\ Value(data, off + 1) = Bytes(value)
             /\ data[off + Len(e)] = end
<1> DEFINE bs == Bytes(value)
           n == Len(bs)
           e == Element(value, n, end)
           ds == Decimal(n)
           dot == off + Len(ds) + 1
<1>1. bs \in Seq(Byte) /\ n \in Nat
  <2>1. bs \in Seq(Byte)
    BY Flattened DEF Bytes
  <2> QED
    BY <2>1, LenProperties
<1> HIDE DEF n
<1>2. /\ ds \in Seq(Byte) /\ e \in Seq(Byte)
      /\ Len(ds) \in Nat /\ Len(ds) >= 1 /\ Len(bs) \in Nat
      /\ Len(e) = Len(ds) + 1 + Len(bs) + 1
      /\ \A i \in 1..Len(ds) : e[i] = ds[i] /\ IsDigit(e[i])
      /\ e[Len(ds) + 1] = "."
      /\ \A i \in 1..Len(bs) : e[Len(ds) + 1 + i] = bs[i]
      /\ e[Len(ds) + 1 + Len(bs) + 1] = end
  <2>1. HasForm(e, ds, bs, end)
    BY <1>1, ElementForm
  <2> HIDE DEF e, ds, bs
  <2> QED
    BY <2>1 DEF HasForm
<1>3. off + Len(e) <= Len(data) /\ (\A i \in 1..Len(e) : data[off + i] = e[i]) /\ Len(data) \in Nat
  BY LenProperties DEF IsAt, n
<1>4. Number(ds) = n
  BY <1>1, NumberOfDecimal
<1>5. Len(bs) = n
  BY DEF n
<1> HIDE DEF bs, e, ds
<1>6. /\ Len(e) \in Nat /\ Len(ds) + 1 \in 1..Len(e) /\ Len(ds) + 1 + Len(bs) + 1 \in 1..Len(e)
      /\ \A i \in 1..Len(ds) : i \in 1..Len(e)
      /\ \A i \in 1..Len(bs) : Len(ds) + 1 + i \in 1..Len(e)
  BY <1>2
<1>7. data[dot] = "." /\ dot \in (off + 2)..Len(data)
  <2>1. data[off + (Len(ds) + 1)] = "."
    BY <1>2, <1>3, <1>6
  <2>2. dot = off + (Len(ds) + 1) /\ dot \in (off + 2)..Len(data)
    BY <1>2, <1>3
  <2> QED
    BY <2>1, <2>2
<1>8. ASSUME NEW j \in (off + 1)..(dot - 1) PROVE IsDigit(data[j]) /\ data[j] # "."
  <2> DEFINE i == j - off
  <2>1. i \in 1..Len(ds) /\ j = off + i
    BY <1>2
  <2> HIDE DEF i
  <2>2. data[off + i] = e[i] /\ IsDigit(e[i])
    BY <1>2, <1>3, <1>6, <2>1
  <2>3. ~IsDigit(".")
    BY DigitFacts
  <2> QED
    BY <2>1, <2>2, <2>3
<1>9. DotFrom(data, off + 1) = dot
  <2> DEFINE dots == {j \in (off + 1)..Len(data) : data[j] = "."}
  <2>1. dot \in dots
    BY <1>2, <1>7
  <2>2. \A k \in dots : dot <= k
    <3> SUFFICES ASSUME NEW k \in (off + 1)..Len(data), data[k] = ".", ~(dot <= k) PROVE FALSE
      OBVIOUS
    <3>1. k \in (off + 1)..(dot - 1)
      BY <1>7
    <3> QED
      BY <1>8, <3>1
  <2>3. \A j \in dots : j \in Int
    BY <1>3
  <2> DEFINE first == CHOOSE j \in dots : \A k \in dots : j <= k
  <2>4. DotFrom(data, off + 1) = first
    BY <2>1 DEF DotFrom
  <2> HIDE DEF dots, dot
  <2>5. first \in dots /\ \A k \in dots : first <= k
    BY <2>1, <2>2
  <2>6. first = dot
    BY <2>1, <2>2, <2>3, <2>5
  <2> QED
    BY <2>4, <2>6
<1>10. Number(SubSeq(data, off + 1, dot - 1)) = n
  <2>1. off + Len(ds) <= Len(data) /\ \A i \in 1..Len(ds) : data[off + i] = ds[i]
    <3>1. off + Len(ds) <= Len(data)
      <4>1. Len(e) >= Len(ds) /\ off + Len(e) <= Len(data) /\ Len(e) \in Nat /\ Len(ds) \in Nat
        BY <1>2, <1>3
      <4> QED
        BY <1>3, <4>1
    <3>2. ASSUME NEW i \in 1..Len(ds) PROVE data[off + i] = ds[i]
      <4>1. i \in 1..Len(e)
        BY <1>6
      <4>2. data[off + i] = e[i] /\ e[i] = ds[i]
        BY <1>2, <1>3, <4>1
      <4> QED
        BY <4>2
    <3> QED
      BY <3>1, <3>2
  <2>2. SubSeq(data, off + 1, off + Len(ds)) = ds
    <3>1. ds \in Seq(Byte)
      BY <1>2
    <3> QED
      BY <2>1, <3>1, SubSeqAt
  <2>3. dot - 1 = off + Len(ds)
    BY <1>2
  <2> QED
    BY <1>4, <2>2, <2>3
<1>11. EndFrom(data, off + 1) = off + Len(e)
  <2>1. EndFrom(data, off + 1) = dot + n + 1
    BY <1>9, <1>10 DEF EndFrom
  <2> QED
    BY <1>2, <1>5, <2>1
<1>12. IsElement(data, off + 1)
  <2>1. dot \in ((off + 1) + 1)..Len(data)
    BY <1>7
  <2> HIDE DEF dot
  <2> QED
    BY <1>3, <1>8, <1>9, <1>11, <2>1 DEF IsElement
<1>13. Value(data, off + 1) = bs
  <2>1. /\ dot + Len(bs) <= Len(data) /\ dot \in Nat
        /\ off + Len(e) - 1 = dot + Len(bs)
    BY <1>2, <1>3
  <2>2. ASSUME NEW i \in 1..Len(bs) PROVE data[dot + i] = bs[i]
    <3>1. data[off + (Len(ds) + 1 + i)] = bs[i]
      BY <1>2, <1>3, <1>6
    <3>2. off + (Len(ds) + 1 + i) = dot + i
      BY <1>2
    <3> QED
      BY <3>1, <3>2
  <2> HIDE DEF dot
  <2>3. SubSeq(data, dot + 1, dot + Len(bs)) = bs
    BY <1>1, <2>1, <2>2, SubSeqAt
  <2>4. Value(data, off + 1) = SubSeq(data, dot + 1, off + Len(e) - 1)
    <3>1. Value(data, off + 1) =
            SubSeq(data, DotFrom(data, off + 1) + 1, EndFrom(data, off + 1) - 1)
      BY <1>12, Zenon DEF Value
    <3> QED
      BY <1>9, <1>11, <3>1
  <2> QED
    BY <2>1, <2>3, <2>4
<1>14. data[off + Len(e)] = end
  BY <1>2, <1>3, <1>6
<1> QED
  BY <1>11, <1>12, <1>13, <1>14 DEF e, bs, n

(* The wire form of an instruction and the elements in it.                 *)
ElementsOf(instruction) == Elements(instruction, ByteLengths(instruction))

LEMMA StringForm ==
  ASSUME NEW instruction \in Instruction
  PROVE  LET es == ElementsOf(instruction)
             m == Len(instruction)
         IN  /\ m \in Nat \ {0} /\ DOMAIN instruction = 1..m
             /\ es \in Seq(Seq(Byte)) /\ Len(es) = m
             /\ String(instruction) \in Seq(Byte) /\ Len(String(instruction)) = Offset(es, m)
             /\ Offset(es, 0) = 0
             /\ \A k \in 0..m : Offset(es, k) \in Nat
             /\ \A k \in 1..m :
                  /\ instruction[k] \in Seq(Seq(Byte)) /\ End(instruction, k) \in Byte
                  /\ es[k] = Element(instruction[k], Len(Bytes(instruction[k])), End(instruction, k))
                  /\ Len(es[k]) \in Nat /\ Len(es[k]) >= 3
                  /\ Offset(es, k) = Offset(es, k - 1) + Len(es[k])
                  /\ IsAt(String(instruction), Offset(es, k - 1), es[k])
<1> DEFINE m == Len(instruction)
           lengths == ByteLengths(instruction)
           es == ElementsOf(instruction)
<1>1. instruction \in Seq(Seq(Seq(Byte))) /\ DOMAIN instruction = 1..m
  BY LenProperties DEF Instruction
<1>2. ASSUME NEW k \in DOMAIN instruction
      PROVE  lengths[k] = Len(Bytes(instruction[k])) /\ lengths[k] \in Nat
  <2>1. instruction[k] \in Seq(Seq(Byte))
    BY <1>1, ElementOfSeq
  <2>2. Bytes(instruction[k]) \in Seq(Byte)
    BY <2>1, Flattened DEF Bytes
  <2>3. Len(Bytes(instruction[k])) \in Nat
    BY <2>2, LenProperties
  <2>4. lengths[k] = Len(Bytes(instruction[k]))
    BY Zenon DEF ByteLengths
  <2> QED
    BY <2>3, <2>4
<1> HIDE DEF lengths
<1>3. /\ es \in Seq(Seq(Byte)) /\ Len(es) = m /\ m \in Nat \ {0}
      /\ \A k \in 1..m :
           /\ instruction[k] \in Seq(Seq(Byte)) /\ End(instruction, k) \in Byte
           /\ es[k] = Element(instruction[k], lengths[k], End(instruction, k))
           /\ Len(es[k]) \in Nat /\ Len(es[k]) >= 3
  <2>1. es = Elements(instruction, lengths)
    BY DEF ElementsOf, lengths
  <2> QED
    BY <1>2, <2>1, ElementsForm
<1>4. String(instruction) = FlattenSeq(es)
  BY DEF String, ElementsOf
<1> HIDE DEF es, m
<1>5. /\ FlattenSeq(es) \in Seq(Byte)
      /\ Len(FlattenSeq(es)) = Offset(es, m) /\ Offset(es, 0) = 0
      /\ \A k \in 0..m : Offset(es, k) \in Nat
      /\ PartsIn(es, m, FlattenSeq(es))
  BY <1>3, Flattened
<1>6. ASSUME NEW k \in 1..m
      PROVE  /\ es[k] = Element(instruction[k], Len(Bytes(instruction[k])), End(instruction, k))
             /\ Offset(es, k) = Offset(es, k - 1) + Len(es[k])
             /\ IsAt(String(instruction), Offset(es, k - 1), es[k])
  <2>1. lengths[k] = Len(Bytes(instruction[k]))
    BY <1>1, <1>2
  <2> QED
    BY <1>3, <1>4, <1>5, <2>1 DEF PartsIn
<1> QED
  BY <1>1, <1>3, <1>4, <1>5, <1>6 DEF m, es

(* What is known of element k by its place.                                *)
LEMMA ElementAt ==
  ASSUME NEW instruction \in Instruction, NEW k \in 1..Len(instruction),
         NEW data \in Seq(Byte), NEW off \in Nat,
         IsAt(data, off, ElementsOf(instruction)[k])
  PROVE  /\ IsElement(data, off + 1)
         /\ EndFrom(data, off + 1) = off + Len(ElementsOf(instruction)[k])
         /\ Value(data, off + 1) = Bytes(instruction[k])
         /\ data[off + Len(ElementsOf(instruction)[k])] = End(instruction, k)
<1> DEFINE e == ElementsOf(instruction)[k]
           v == instruction[k]
           end == End(instruction, k)
<1>1. v \in Seq(Seq(Byte)) /\ end \in Byte /\ e = Element(v, Len(Bytes(v)), end)
  BY StringForm
<1> HIDE DEF e, v, end
<1>2. IsAt(data, off, Element(v, Len(Bytes(v)), end))
  BY <1>1 DEF e
<1>3. /\ IsElement(data, off + 1)
      /\ EndFrom(data, off + 1) = off + Len(Element(v, Len(Bytes(v)), end))
      /\ Value(data, off + 1) = Bytes(v)
      /\ data[off + Len(Element(v, Len(Bytes(v)), end))] = end
  BY <1>1, <1>2, ElementRead
<1> QED
  BY <1>1, <1>3 DEF e, v, end

(* The loop of Parse.                                                      *)
Starts(data) ==
  CHOOSE f : f = [n \in 1..(Len(data) + 1) |->
    IF n = 1 THEN 1 ELSE [i \in 1..(Len(data) + 1) |-> NextStart(data, i)][f[n - 1]]]

AreStarts(f, next, k) == f = [n \in 1..k |-> IF n = 1 THEN 1 ELSE next[f[n - 1]]]

LEMMA StartsExist ==
  ASSUME NEW next, NEW k \in Nat
  PROVE  \E f : AreStarts(f, next, k)
<1> USE DEF AreStarts
<1> DEFINE Rule(f, i) == IF i = 1 THEN 1 ELSE next[f[i - 1]]
           P == {n \in Nat : \E f : f = [i \in 1..n |-> Rule(f, i)]}
<1>1. 0 \in P
  <2> DEFINE f == [i \in 1..0 |-> 1]
  <2>1. f = [i \in 1..0 |-> Rule(f, i)]
    OBVIOUS
  <2> QED
    BY <2>1
<1>2. ASSUME NEW n \in Nat, n \in P PROVE n + 1 \in P
  <2>1. PICK f : f = [i \in 1..n |-> Rule(f, i)]
    BY <1>2
  <2> DEFINE g == [i \in 1..(n + 1) |-> IF i <= n THEN f[i] ELSE Rule(f, i)]
  <2>2. ASSUME NEW i \in 1..(n + 1) PROVE g[i] = Rule(g, i)
    <3>1. CASE i = 1
      <4>1. g[i] = 1
        <5>1. i <= n => f[i] = 1
          <6> SUFFICES ASSUME i <= n PROVE f[i] = 1
            OBVIOUS
          <6>1. i \in 1..n
            OBVIOUS
          <6> QED
            BY <2>1, <3>1, <6>1, Zenon
        <5> QED
          BY <3>1, <5>1
      <4> QED
        BY <3>1, <4>1
    <3>2. CASE i # 1
      <4>1. i - 1 \in 1..n /\ i - 1 \in 1..(n + 1) /\ i - 1 <= n
        BY <3>2
      <4>2. g[i - 1] = f[i - 1]
        BY <4>1
      <4>3. g[i] = next[f[i - 1]]
        <5>1. i <= n => f[i] = next[f[i - 1]]
          <6> SUFFICES ASSUME i <= n PROVE f[i] = next[f[i - 1]]
            OBVIOUS
          <6>1. i \in 1..n
            OBVIOUS
          <6> QED
            BY <2>1, <3>2, <6>1, Zenon
        <5> QED
          BY <3>2, <5>1
      <4> QED
        BY <3>2, <4>2, <4>3
    <3> QED
      BY <3>1, <3>2
  <2>3. g = [i \in 1..(n + 1) |-> Rule(g, i)]
    <3>1. g = [i \in 1..(n + 1) |-> g[i]]
      OBVIOUS
    <3> HIDE DEF g
    <3> QED
      BY <2>2, <3>1, Zenon
  <2>4. n + 1 \in Nat
    OBVIOUS
  <2> QED
    BY <2>3, <2>4, Zenon
<1>3. Nat \subseteq P
  <2> HIDE DEF P
  <2> QED
    BY <1>1, <1>2, Induction
<1> QED
  BY <1>3

LEMMA ParseUnfold ==
  ASSUME NEW data \in Seq(Byte)
  PROVE  /\ Parse(data) = [n \in 1..Cardinality({n \in 1..(Len(data) + 1) :
                                                   Starts(data)[n] < Len(data) + 1})
                             |-> Value(data, Starts(data)[n])]
         /\ Starts(data)[1] = 1
         /\ \A n \in 2..(Len(data) + 1) :
              Starts(data)[n - 1] \in 1..(Len(data) + 1) =>
                Starts(data)[n] = NextStart(data, Starts(data)[n - 1])
<1> DEFINE over == Len(data) + 1
           next == [i \in 1..over |-> NextStart(data, i)]
           f == Starts(data)
           Rule(n) == IF n = 1 THEN 1 ELSE next[f[n - 1]]
<1>0. over \in Nat \ {0}
  BY LenProperties
<1>1. f = [n \in 1..over |-> Rule(n)]
  <2> HIDE DEF next
  <2>1. \E g : AreStarts(g, next, over)
    <3>1. over \in Nat
      BY <1>0
    <3> HIDE DEF over
    <3> QED
      BY <3>1, StartsExist
  <2>2. f = CHOOSE g : g = [n \in 1..over |-> IF n = 1 THEN 1 ELSE next[g[n - 1]]]
    BY DEF Starts, next
  <2> HIDE DEF f, over
  <2> QED
    BY <2>1, <2>2, Zenon DEF AreStarts
<1>2. Parse(data) = [n \in 1..Cardinality({n \in 1..over : f[n] < over}) |-> Value(data, f[n])]
  BY DEF Parse, Starts
<1> HIDE DEF f
<1>3. ASSUME NEW n \in 1..over PROVE f[n] = Rule(n)
  BY <1>1, Zenon
<1>4. f[1] = 1
  <2>1. 1 \in 1..over
    BY <1>0
  <2> QED
    BY <1>3, <2>1
<1>5. ASSUME NEW n \in 2..over, f[n - 1] \in 1..over PROVE f[n] = NextStart(data, f[n - 1])
  <2>1. n \in 1..over /\ n # 1
    BY <1>0
  <2>2. f[n] = next[f[n - 1]]
    BY <1>3, <2>1
  <2> QED
    BY <1>5, <2>2, Zenon
<1> QED
  BY <1>2, <1>4, <1>5 DEF f

(* What ReadOne gives of an instruction that String has written.           *)
LEMMA ParseOfString ==
  ASSUME NEW instruction \in Instruction
  PROVE  /\ String(instruction) \in Seq(Byte)
         /\ Parse(String(instruction)) = [k \in DOMAIN instruction |-> Bytes(instruction[k])]
<1> DEFINE m == Len(instruction)
           es == ElementsOf(instruction)
           data == String(instruction)
           over == Len(data) + 1
           f == Starts(data)
           off(k) == Offset(es, k)
<1>1. /\ m \in Nat \ {0} /\ DOMAIN instruction = 1..m
      /\ data \in Seq(Byte) /\ Len(data) = off(m)
      /\ off(0) = 0
      /\ \A k \in 0..m : off(k) \in Nat
      /\ \A k \in 1..m :
           /\ Len(es[k]) \in Nat /\ Len(es[k]) >= 3
           /\ off(k) = off(k - 1) + Len(es[k])
           /\ IsAt(data, off(k - 1), es[k])
  BY StringForm
<1>2. /\ f[1] = 1
      /\ \A n \in 2..over : f[n - 1] \in 1..over => f[n] = NextStart(data, f[n - 1])
      /\ Parse(data) = [n \in 1..Cardinality({n \in 1..over : f[n] < over}) |-> Value(data, f[n])]
  BY <1>1, ParseUnfold
<1>3. over \in Nat \ {0} /\ Len(data) \in Nat
  BY <1>1
<1>4. ASSUME NEW k \in 1..m
      PROVE  /\ IsElement(data, off(k - 1) + 1)
             /\ EndFrom(data, off(k - 1) + 1) = off(k)
             /\ Value(data, off(k - 1) + 1) = Bytes(instruction[k])
             /\ data[off(k)] = End(instruction, k)
  <2>1. off(k - 1) \in Nat
    BY <1>1
  <2>2. IsAt(data, off(k - 1), es[k])
    BY <1>1
  <2> HIDE DEF off, data
  <2>3. /\ IsElement(data, off(k - 1) + 1)
        /\ EndFrom(data, off(k - 1) + 1) = off(k - 1) + Len(es[k])
        /\ Value(data, off(k - 1) + 1) = Bytes(instruction[k])
        /\ data[off(k - 1) + Len(es[k])] = End(instruction, k)
    BY <1>1, <2>1, <2>2, ElementAt
  <2> QED
    BY <1>1, <2>3
<1>5. \A k \in 0..m : off(k) >= k /\ off(k) <= Len(data)
  <2> HIDE DEF off, data
  <2> DEFINE P == {k \in Nat : k <= m => off(k) >= k}
  <2>1. 0 \in P
    BY <1>1, <1>3
  <2>2. \A k \in Nat : k \in P => k + 1 \in P
    <3> SUFFICES ASSUME NEW k \in Nat, k \in P, k + 1 <= m PROVE off(k + 1) >= k + 1
      OBVIOUS
    <3>1. k + 1 \in 1..m /\ (k + 1) - 1 = k /\ k \in 0..m /\ off(k) >= k
      BY <1>1
    <3>2. off(k + 1) = off(k) + Len(es[k + 1]) /\ Len(es[k + 1]) \in Nat /\ Len(es[k + 1]) >= 3 /\ off(k) \in Nat
      BY <1>1, <3>1
    <3> QED
      BY <3>1, <3>2
  <2>3. Nat \subseteq P
    <3> HIDE DEF P
    <3> QED
      BY <2>1, <2>2, Induction
  <2>4. es \in Seq(Seq(Byte)) /\ Len(es) = m
    BY StringForm
  <2> SUFFICES ASSUME NEW k \in 0..m PROVE off(k) >= k /\ off(k) <= Len(data)
    OBVIOUS
  <2>5. off(k) >= k
    BY <1>1, <2>3
  <2>6. off(k) <= off(m)
    <3>1. k \in 0..Len(es) /\ m \in k..Len(es)
      BY <1>1, <2>4
    <3> QED
      BY <2>4, <3>1, OffsetsGrow DEF off
  <2> QED
    BY <1>1, <2>5, <2>6
<1>6. NextStart(data, over) = over
  <2>1. ~IsElement(data, over)
    <3>1. (over + 1)..Len(data) = {}
      BY <1>3
    <3> HIDE DEF over, data
    <3> QED
      BY <3>1 DEF IsElement
  <2> QED
    BY <2>1, Zenon DEF NextStart
<1> DEFINE Place(n) == IF n < m THEN off(n) + 1 ELSE over
<1>7. \A n \in 0..(over - 1) : f[n + 1] = Place(n)
  <2> DEFINE P == {n \in Nat : n < over => f[n + 1] = Place(n)}
  <2> HIDE DEF f, data, off
  <2>1. 0 \in P
    BY <1>1, <1>2, <1>3
  <2>2. \A n \in Nat : n \in P => n + 1 \in P
    <3> SUFFICES ASSUME NEW n \in Nat, n \in P, n + 1 < over PROVE f[(n + 1) + 1] = Place(n + 1)
      OBVIOUS
    <3>1. f[n + 1] = Place(n)
      BY <1>3
    <3>2. f[n + 1] \in 1..over
      <4>1. CASE n < m
        <5>1. off(n) \in Nat /\ off(n) <= Len(data)
          BY <1>1, <1>5, <4>1
        <5> QED
          BY <1>3, <3>1, <4>1, <5>1
      <4>2. CASE ~(n < m)
        BY <1>3, <3>1, <4>2
      <4> QED
        BY <4>1, <4>2
    <3>3. f[(n + 1) + 1] = NextStart(data, f[n + 1])
      <4>1. (n + 1) + 1 \in 2..over /\ ((n + 1) + 1) - 1 = n + 1
        BY <1>3
      <4> HIDE DEF over
      <4> QED
        BY <1>2, <3>2, <4>1
    <3>4. CASE n < m
      <4> DEFINE k == n + 1
      <4>1. k \in 1..m /\ k - 1 = n
        BY <1>1, <3>4
      <4> HIDE DEF k
      <4>2. /\ IsElement(data, off(n) + 1) /\ EndFrom(data, off(n) + 1) = off(k)
            /\ data[off(k)] = End(instruction, k)
        BY <1>4, <4>1
      <4>3. NextStart(data, off(n) + 1) = IF End(instruction, k) # ";" THEN off(k) + 1 ELSE over
        BY <4>2 DEF NextStart
      <4>4. End(instruction, k) # ";" <=> k < m
        <5>0. m \in Nat
          BY <1>1
        <5>1. k = m <=> ~(k < m)
          <6> HIDE DEF m
          <6> QED
            BY <4>1, <5>0
        <5>2. "," # ";"
          OBVIOUS
        <5>3. End(instruction, k) = IF k = m THEN ";" ELSE ","
          BY DEF End
        <5> HIDE DEF m
        <5> QED
          BY <5>1, <5>2, <5>3
      <4> HIDE DEF over
      <4>5. f[k + 1] = IF k < m THEN off(k) + 1 ELSE over
        BY <3>1, <3>3, <3>4, <4>3, <4>4 DEF k
      <4> QED
        BY <4>5 DEF k
    <3>5. CASE ~(n < m)
      BY <1>1, <1>6, <3>1, <3>3, <3>5
    <3> QED
      BY <3>4, <3>5
  <2>3. Nat \subseteq P
    <3> HIDE DEF P
    <3> QED
      BY <2>1, <2>2, Induction
  <2> QED
    BY <1>3, <2>3
<1>8. {n \in 1..over : f[n] < over} = 1..m
  <2> HIDE DEF f, data, off
  <2>1. m < over
    BY <1>1, <1>3, <1>5
  <2>2. ASSUME NEW n \in 1..over PROVE f[n] < over <=> n <= m
    <3> DEFINE k == n - 1
    <3>1. k \in 0..(over - 1) /\ k + 1 = n /\ (k < m <=> n <= m)
      BY <1>1, <1>3
    <3> HIDE DEF k
    <3>2. f[n] = IF k < m THEN off(k) + 1 ELSE over
      BY <1>7, <3>1
    <3>3. ASSUME k < m PROVE off(k) + 1 < over
      <4>1. k + 1 \in 1..m /\ (k + 1) - 1 = k /\ k \in 0..m /\ k + 1 \in 0..m
        BY <1>1, <3>1, <3>3
      <4>2. off(k + 1) = off(k) + Len(es[k + 1]) /\ Len(es[k + 1]) \in Nat /\ Len(es[k + 1]) >= 3 /\ off(k) \in Nat
        BY <1>1, <4>1
      <4>3. off(k + 1) <= Len(data)
        BY <1>5, <4>1
      <4> QED
        BY <1>3, <4>2, <4>3
    <3> QED
      BY <1>3, <3>1, <3>2, <3>3
  <2> QED
    BY <1>1, <1>3, <2>1, <2>2
<1>9. Cardinality(1..m) = m
  <2>1. 1 \in Int /\ m \in Int /\ 1 <= m /\ m - 1 + 1 = m
    BY <1>1
  <2> QED
    BY <2>1, FS_Interval
<1>10. Parse(data) = [n \in 1..m |-> Value(data, f[n])]
  BY <1>2, <1>8, <1>9
<1>11. ASSUME NEW n \in 1..m PROVE Value(data, f[n]) = Bytes(instruction[n])
  <2> HIDE DEF f, data, off
  <2> DEFINE k == n - 1
  <2>1. k \in 0..(over - 1) /\ k + 1 = n /\ k < m
    BY <1>1, <1>3, <1>5
  <2> HIDE DEF k
  <2>2. f[n] = off(k) + 1
    BY <1>7, <2>1
  <2>3. Value(data, off(n - 1) + 1) = Bytes(instruction[n])
    BY <1>4
  <2> QED
    BY <2>2, <2>3 DEF k
<1> HIDE DEF f, data
<1>12. Parse(data) = [n \in DOMAIN instruction |-> Bytes(instruction[n])]
  BY <1>1, <1>10, <1>11, Zenon
<1> QED
  BY <1>1, <1>12 DEF data

LEMMA ParseOfNothing ==
  Parse(<<>>) = <<>>
<1>1. <<>> \in Seq(Byte) /\ Len(<<>>) = 0
  OBVIOUS
<1>2. /\ Starts(<<>>)[1] = 1
      /\ Parse(<<>>) = [n \in 1..Cardinality({n \in 1..(Len(<<>>) + 1) :
                                                Starts(<<>>)[n] < Len(<<>>) + 1})
                          |-> Value(<<>>, Starts(<<>>)[n])]
  BY <1>1, ParseUnfold
<1> DEFINE turns == {n \in 1..(Len(<<>>) + 1) : Starts(<<>>)[n] < Len(<<>>) + 1}
<1>3. turns = {}
  BY <1>1, <1>2
<1>4. Cardinality(turns) = 0
  BY <1>3, FS_EmptySet
<1>5. Parse(<<>>) = [n \in 1..0 |-> Value(<<>>, Starts(<<>>)[n])]
  BY <1>2, <1>4, Zenon
<1> QED
  BY <1>5

-----------------------------------------------------------------------------
(* What the peer sends.                                                    *)

Encoded(p) ==
  [i \in DOMAIN p.script |->
     IF p.countsBytes THEN String(p.script[i]) ELSE Documented(p.script[i])]

WireOf(p) == FlattenSeq(Encoded(p))

LEMMA DocumentedForm ==
  ASSUME NEW instruction \in Instruction
  PROVE  Documented(instruction) \in Seq(Byte)
<1> DEFINE lengths == [i \in DOMAIN instruction |-> Len(instruction[i])]
<1>1. instruction \in Seq(Seq(Seq(Byte))) /\ DOMAIN instruction = 1..Len(instruction)
  BY LenProperties DEF Instruction
<1>2. ASSUME NEW k \in DOMAIN instruction PROVE lengths[k] \in Nat
  <2>1. instruction[k] \in Seq(Seq(Byte))
    BY <1>1, ElementOfSeq
  <2>2. Len(instruction[k]) \in Nat
    BY <2>1, LenProperties
  <2> QED
    BY <2>2
<1> HIDE DEF lengths
<1>3. Elements(instruction, lengths) \in Seq(Seq(Byte))
  BY <1>2, ElementsForm
<1>4. FlattenSeq(Elements(instruction, lengths)) \in Seq(Byte)
  BY <1>3, Flattened
<1> QED
  BY <1>4 DEF Documented, lengths

LEMMA WireForm ==
  ASSUME NEW p \in Peers
  PROVE  LET enc == Encoded(p)
             n == Len(p.script)
         IN  /\ p.countsBytes \in BOOLEAN /\ n \in Nat /\ DOMAIN p.script = 1..n
             /\ WireOf(p) \in Seq(Byte) /\ Len(WireOf(p)) = Offset(enc, n) /\ Offset(enc, 0) = 0
             /\ \A d \in 0..n : Offset(enc, d) \in Nat
             /\ \A d \in 1..n :
                  /\ p.script[d] \in Instruction /\ enc[d] \in Seq(Byte)
                  /\ Offset(enc, d) = Offset(enc, d - 1) + Len(enc[d])
                  /\ IsAt(WireOf(p), Offset(enc, d - 1), enc[d])
                  /\ p.countsBytes => enc[d] = String(p.script[d])
<1> DEFINE enc == Encoded(p)
           script == p.script
           n == Len(script)
<1>1. p.countsBytes \in BOOLEAN /\ script \in Seq(Instruction)
  BY PeersAssumption
<1> HIDE DEF script
<1>2. n \in Nat /\ DOMAIN script = 1..n
  BY <1>1, LenProperties
<1>3. ASSUME NEW d \in 1..n
      PROVE  /\ script[d] \in Instruction /\ enc[d] \in Seq(Byte)
             /\ p.countsBytes => enc[d] = String(script[d])
  <2>1. script[d] \in Instruction
    BY <1>1, ElementOfSeq
  <2>2. String(script[d]) \in Seq(Byte) /\ Documented(script[d]) \in Seq(Byte)
    BY <2>1, StringForm, DocumentedForm
  <2>3. enc[d] = IF p.countsBytes THEN String(script[d]) ELSE Documented(script[d])
    BY <1>2, Zenon DEF Encoded, script
  <2> QED
    BY <2>1, <2>2, <2>3
<1>4. enc \in Seq(Seq(Byte)) /\ Len(enc) = n
  <2>1. enc = [d \in 1..n |-> enc[d]]
    <3>1. enc = [d \in 1..n |-> IF p.countsBytes THEN String(script[d]) ELSE Documented(script[d])]
      BY <1>2, Zenon DEF Encoded, script
    <3> HIDE DEF enc
    <3> QED
      BY <3>1
  <2> HIDE DEF enc, n
  <2>2. enc \in [1..n -> Seq(Byte)]
    BY <1>3, <2>1
  <2> QED
    BY <1>2, <2>2, FunctionIsSeq
<1>5. WireOf(p) = FlattenSeq(enc)
  BY DEF WireOf
<1> HIDE DEF enc, n
<1>6. /\ FlattenSeq(enc) \in Seq(Byte)
      /\ Len(FlattenSeq(enc)) = Offset(enc, n) /\ Offset(enc, 0) = 0
      /\ \A k \in 0..n : Offset(enc, k) \in Nat
      /\ PartsIn(enc, n, FlattenSeq(enc))
  BY <1>4, Flattened
<1>7. ASSUME NEW d \in 1..n
      PROVE  /\ Offset(enc, d) = Offset(enc, d - 1) + Len(enc[d])
             /\ IsAt(WireOf(p), Offset(enc, d - 1), enc[d])
  BY <1>5, <1>6 DEF PartsIn
<1> QED
  BY <1>1, <1>2, <1>3, <1>5, <1>6, <1>7 DEF enc, n, script

(* An element on the wire of a peer that counts bytes.                     *)
LEMMA ElementOnWire ==
  ASSUME NEW p \in Peers, p.countsBytes, NEW d \in 1..Len(p.script), NEW k \in 1..Len(p.script[d])
  PROVE  IsAt(WireOf(p), Offset(Encoded(p), d - 1) + Offset(ElementsOf(p.script[d]), k - 1),
              ElementsOf(p.script[d])[k])
<1> DEFINE enc == Encoded(p)
           instruction == p.script[d]
           es == ElementsOf(instruction)
           m == Len(instruction)
<1>1. /\ instruction \in Instruction /\ enc[d] \in Seq(Byte) /\ WireOf(p) \in Seq(Byte)
      /\ Offset(enc, d - 1) \in Nat
      /\ IsAt(WireOf(p), Offset(enc, d - 1), enc[d]) /\ enc[d] = String(instruction)
  <2>1. d - 1 \in 0..Len(p.script)
    <3>1. Len(p.script) \in Nat
      BY WireForm
    <3> QED
      BY <3>1
  <2> QED
    BY <2>1, WireForm
<1> HIDE DEF enc, instruction
<1>2. /\ m \in Nat /\ es \in Seq(Seq(Byte)) /\ Len(es) = m
      /\ \A j \in 0..m : Offset(es, j) \in Nat
      /\ \A j \in 1..m : IsAt(String(instruction), Offset(es, j - 1), es[j])
  BY <1>1, StringForm
<1>3. k \in 1..m
  BY DEF instruction
<1> HIDE DEF es, m
<1>4. k - 1 \in 0..m
  BY <1>2, <1>3
<1>5. Offset(es, k - 1) \in Nat /\ IsAt(enc[d], Offset(es, k - 1), es[k])
  BY <1>1, <1>2, <1>3, <1>4
<1>6. es[k] \in Seq(Byte)
  BY <1>2, <1>3, ElementOfSeq
<1>7. IsAt(WireOf(p), Offset(enc, d - 1) + Offset(es, k - 1), es[k])
  BY <1>1, <1>5, <1>6, IsAtWithin
<1> QED
  BY <1>7 DEF enc, es, instruction

-----------------------------------------------------------------------------
(* The window.                                                             *)

Unread == \A i \in 0..(length - 1) : At(i) = Wire[received - length + i + 1]

LEMMA WireOfPeer == Wire = WireOf(peer)
  BY DEF Wire, WireOf, Encoded

LEMMA LenOfFunction ==
  ASSUME NEW n \in Nat, NEW f, f = [i \in 1..n |-> f[i]]
  PROVE  Len(f) = n
<1> DEFINE S == {f[i] : i \in 1..n}
<1>1. \A i \in 1..n : f[i] \in S
  OBVIOUS
<1> HIDE DEF S
<1>2. f \in [1..n -> S]
  BY <1>1
<1> QED
  BY <1>2, FunctionIsSeq

LEMMA SliceForm ==
  ASSUME NEW i \in Nat, NEW j \in Nat, i <= j
  PROVE  Len(Slice(i, j)) = j - i /\ \A n \in 1..(j - i) : Slice(i, j)[n] = At(i + n - 1)
<1> DEFINE s == Slice(i, j)
<1>1. s = [n \in 1..(j - i) |-> At(i + n - 1)]
  BY DEF Slice
<1> HIDE DEF s
<1>2. j - i \in Nat
  OBVIOUS
<1>3. s = [n \in 1..(j - i) |-> s[n]] /\ \A n \in 1..(j - i) : s[n] = At(i + n - 1)
  BY <1>1
<1>4. Len(s) = j - i
  BY <1>2, <1>3, LenOfFunction
<1> QED
  BY <1>3, <1>4 DEF s

(* The digits at parseStart, whatever follows them.                        *)
LEMMA LengthForm ==
  ASSUME TypeOK
  PROVE  /\ start \in Nat /\ length \in Nat /\ parseStart \in Nat
         /\ LengthEnd \in parseStart..length
         /\ \A i \in parseStart..(LengthEnd - 1) : IsDigit(At(i))
         /\ HasLength => ~IsDigit(At(LengthEnd))
         /\ ElementLength \in Nat
         /\ Terminator \in Nat /\ Terminator >= LengthEnd + 1
<1> DEFINE ends == {i \in parseStart..(length - 1) : ~IsDigit(At(i))}
<1>1. start \in Nat /\ length \in Nat /\ parseStart \in 0..length
  BY SizeAssumption DEF TypeOK
<1>2. /\ LengthEnd \in parseStart..length
      /\ \A i \in parseStart..(LengthEnd - 1) : IsDigit(At(i))
      /\ LengthEnd < length => ~IsDigit(At(LengthEnd))
  <2>1. LengthEnd = IF ends = {} THEN length ELSE CHOOSE i \in ends : \A j \in ends : i <= j
    BY DEF LengthEnd
  <2>2. CASE ends = {}
    BY <1>1, <2>1, <2>2
  <2>3. CASE ends # {}
    <3>1. ends \in SUBSET Nat
      BY <1>1
    <3>2. \E i \in ends : \A j \in ends : i <= j
      <4> HIDE DEF ends
      <4> QED
        BY <2>3, <3>1, Least
    <3>3. LengthEnd \in ends /\ \A j \in ends : LengthEnd <= j
      <4> HIDE DEF ends
      <4> QED
        BY <2>1, <2>3, <3>2
    <3> QED
      BY <1>1, <3>3
  <2> QED
    BY <2>2, <2>3
<1>3. ElementLength \in Nat
  <2> DEFINE s == Slice(parseStart, LengthEnd)
             n == LengthEnd - parseStart
  <2>1. /\ parseStart \in Nat /\ LengthEnd \in Nat /\ parseStart <= LengthEnd /\ n \in Nat
    BY <1>1, <1>2
  <2>2. Len(s) = n /\ \A i \in 1..n : s[i] = At(parseStart + i - 1)
    BY <2>1, SliceForm
  <2> HIDE DEF s
  <2>3. \A i \in 1..Len(s) : IsDigit(s[i])
    <3> SUFFICES ASSUME NEW i \in 1..n PROVE IsDigit(s[i])
      BY <2>2
    <3>1. parseStart + i - 1 \in parseStart..(LengthEnd - 1)
      BY <1>1, <2>1
    <3> QED
      BY <1>2, <2>2, <3>1
  <2>4. Number(s) \in Nat
    BY <2>1, <2>2, <2>3, NumberType
  <2> QED
    BY <2>4 DEF ElementLength, s
<1>4. Terminator \in Nat /\ Terminator >= LengthEnd + 1
  BY <1>1, <1>2, <1>3 DEF Terminator
<1> QED
  BY <1>1, <1>2, <1>3, <1>4 DEF HasLength

(* An element that the wire has at parseStart, as far as it is in the      *)
(* window.                                                                 *)
LEMMA ElementInWindow ==
  ASSUME TypeOK, Unread, length <= received,
         NEW instruction \in Instruction, NEW k \in 1..Len(instruction),
         IsAt(Wire, received - length + parseStart, ElementsOf(instruction)[k])
  PROVE  LET e == ElementsOf(instruction)[k]
         IN  /\ Len(e) \in Nat /\ Len(e) >= 3
             /\ HasLength => At(LengthEnd) = "." /\ Terminator = parseStart + Len(e) - 1
             /\ IsComplete => At(Terminator) = End(instruction, k)
             /\ parseStart + Len(e) <= length => HasLength /\ Terminator < length
<1> DEFINE v == instruction[k]
           bs == Bytes(v)
           n == Len(bs)
           end == End(instruction, k)
           e == ElementsOf(instruction)[k]
           ds == Decimal(n)
           off == received - length + parseStart
           dot == parseStart + Len(ds)
<1>1. /\ v \in Seq(Seq(Byte)) /\ end \in Byte /\ e = Element(v, n, end)
      /\ Len(e) \in Nat /\ Len(e) >= 3
  BY StringForm
<1>2. n \in Nat
  <2>1. bs \in Seq(Byte)
    BY <1>1, Flattened DEF Bytes
  <2> QED
    BY <2>1, LenProperties
<1> HIDE DEF n
<1>3. /\ ds \in Seq(Byte) /\ Len(ds) \in Nat /\ Len(ds) >= 1
      /\ Len(e) = Len(ds) + 1 + n + 1
      /\ \A i \in 1..Len(ds) : e[i] = ds[i] /\ IsDigit(e[i])
      /\ e[Len(ds) + 1] = "."
      /\ e[Len(ds) + 1 + n + 1] = end
  <2> HIDE DEF v, end, e
  <2>1. HasForm(Element(v, n, end), ds, Bytes(v), end)
    <3>1. v \in Seq(Seq(Byte)) /\ end \in Byte
      BY <1>1
    <3> QED
      BY <1>2, <3>1, ElementForm
  <2>2. Len(Bytes(v)) = n
    BY DEF n
  <2> HIDE DEF ds
  <2> QED
    BY <1>1, <2>1, <2>2 DEF HasForm
<1>4. Number(ds) = n
  BY <1>2, NumberOfDecimal
<1> HIDE DEF v, bs, end, e, ds
<1>5. /\ start \in Nat /\ length \in Nat /\ parseStart \in 0..length /\ received \in Nat /\ off \in Nat
      /\ LengthEnd \in parseStart..length
      /\ \A i \in parseStart..(LengthEnd - 1) : IsDigit(At(i))
      /\ HasLength => ~IsDigit(At(LengthEnd))
  <2>1. Len(Wire) \in Nat
    <3>1. WireOf(peer) \in Seq(Byte)
      BY WireForm DEF TypeOK
    <3> QED
      BY <3>1, WireOfPeer, LenProperties
  <2>2. parseStart \in 0..length /\ received \in 0..Len(Wire)
    BY DEF TypeOK
  <2>3. length \in Nat
    BY LengthForm
  <2>4. received \in Nat /\ off \in Nat
    BY <2>1, <2>2, <2>3
  <2> QED
    BY <2>2, <2>4, LengthForm
<1>6. ASSUME NEW i \in 1..Len(e), parseStart + i - 1 < length PROVE At(parseStart + i - 1) = e[i]
  <2>1. Wire[off + i] = e[i]
    BY DEF IsAt, e
  <2> DEFINE w == parseStart + i - 1
  <2>2. w \in 0..(length - 1) /\ off + i = received - length + w + 1
    BY <1>1, <1>5, <1>6
  <2> HIDE DEF w
  <2>3. At(w) = Wire[received - length + w + 1]
    BY <2>2 DEF Unread
  <2> QED
    BY <2>1, <2>2, <2>3 DEF w
<1> HIDE DEF off
<1>7. \A i \in 1..Len(ds) : i \in 1..Len(e)
  BY <1>2, <1>3
<1>8. ASSUME NEW j \in parseStart..(dot - 1), j < length PROVE IsDigit(At(j)) /\ At(j) = ds[j - parseStart + 1]
  <2> DEFINE i == j - parseStart + 1
  <2>1. i \in 1..Len(ds) /\ parseStart + i - 1 = j
    BY <1>3, <1>5
  <2> HIDE DEF i
  <2>2. At(j) = e[i]
    BY <1>6, <1>7, <1>8, <2>1
  <2>3. e[i] = ds[i] /\ IsDigit(e[i])
    BY <1>3, <2>1
  <2> QED
    BY <2>2, <2>3 DEF i
<1>9. dot < length => At(dot) = "." /\ ~IsDigit(At(dot))
  <2>1. SUFFICES ASSUME dot < length PROVE At(dot) = "."
    BY DigitFacts
  <2>2. Len(ds) + 1 \in 1..Len(e) /\ parseStart + (Len(ds) + 1) - 1 = dot
    BY <1>2, <1>3, <1>5
  <2> QED
    BY <1>3, <1>6, <2>1, <2>2
<1>10. /\ HasLength => LengthEnd = dot
       /\ dot < length => HasLength
  <2>1. ASSUME HasLength PROVE LengthEnd >= dot
    <3> SUFFICES ASSUME LengthEnd < dot PROVE FALSE
      BY <1>3, <1>5
    <3>1. LengthEnd \in parseStart..(dot - 1) /\ LengthEnd < length
      BY <1>3, <1>5, <2>1 DEF HasLength
    <3>2. IsDigit(At(LengthEnd))
      BY <1>8, <3>1
    <3> QED
      BY <1>5, <2>1, <3>2
  <2>2. ASSUME dot < length PROVE LengthEnd <= dot
    <3> SUFFICES ASSUME dot < LengthEnd PROVE FALSE
      BY <1>3, <1>5
    <3>1. dot \in parseStart..(LengthEnd - 1)
      BY <1>3, <1>5
    <3> QED
      BY <1>5, <1>9, <2>2, <3>1
  <2>3. dot \in Nat /\ LengthEnd \in Nat
    BY <1>3, <1>5
  <2> HIDE DEF dot
  <2> QED
    BY <1>5, <2>1, <2>2, <2>3 DEF HasLength
<1>11. ASSUME HasLength PROVE At(LengthEnd) = "." /\ Terminator = parseStart + Len(e) - 1
  <2>1. LengthEnd = dot /\ dot < length
    BY <1>10, <1>11 DEF HasLength
  <2> DEFINE s == Slice(parseStart, dot)
  <2>2. Len(s) = Len(ds) /\ \A i \in 1..Len(ds) : s[i] = At(parseStart + i - 1)
    <3>1. parseStart \in Nat /\ dot \in Nat /\ parseStart <= dot /\ dot - parseStart = Len(ds)
      BY <1>3, <1>5
    <3> HIDE DEF dot
    <3> QED
      BY <3>1, SliceForm
  <2> HIDE DEF s
  <2>3. ASSUME NEW i \in 1..Len(ds) PROVE s[i] = ds[i]
    <3> DEFINE j == parseStart + i - 1
    <3>1. j \in parseStart..(dot - 1) /\ j < length /\ j - parseStart + 1 = i
      BY <1>3, <1>5, <2>1
    <3> HIDE DEF j
    <3>2. At(j) = ds[i]
      BY <1>8, <3>1
    <3> QED
      BY <2>2, <3>2 DEF j
  <2>4. s = ds
    <3>1. s = [i \in 1..Len(ds) |-> At(parseStart + i - 1)]
      <4>1. dot - parseStart = Len(ds)
        BY <1>3, <1>5
      <4> QED
        BY <4>1 DEF Slice, s
    <3>2. ds = [i \in 1..Len(ds) |-> ds[i]]
      BY <1>3, LenProperties
    <3> QED
      BY <2>2, <2>3, <3>1, <3>2
  <2>5. ElementLength = n
    BY <1>4, <2>1, <2>4 DEF ElementLength, s
  <2>6. Terminator = parseStart + Len(e) - 1
    <3>1. Terminator = dot + 1 + n
      BY <2>1, <2>5 DEF Terminator
    <3> QED
      BY <1>2, <1>3, <1>5, <3>1
  <2> QED
    BY <1>9, <2>1, <2>6
<1>12. ASSUME IsComplete PROVE At(Terminator) = end
  <2>1. HasLength /\ Terminator < length
    BY <1>12 DEF IsComplete
  <2>2. Terminator = parseStart + Len(e) - 1
    BY <1>11, <2>1
  <2>3. Len(e) \in 1..Len(e)
    BY <1>1
  <2>4. At(Terminator) = e[Len(e)]
    BY <1>6, <2>1, <2>2, <2>3
  <2> QED
    BY <1>3, <2>4
<1>13. ASSUME parseStart + Len(e) <= length PROVE HasLength /\ Terminator < length
  <2>1. dot < length
    BY <1>2, <1>3, <1>5, <1>13
  <2>2. HasLength
    BY <1>10, <2>1
  <2>3. Terminator = parseStart + Len(e) - 1
    BY <1>11, <2>2
  <2> QED
    BY <1>1, <1>5, <1>13, <2>2, <2>3
<1> QED
  BY <1>1, <1>11, <1>12, <1>13 DEF e, end

-----------------------------------------------------------------------------
(* The inductive invariant.                                                *)

Current == peer.script[delivered + 1]

(* Of a peer that counts bytes: the window begins where an instruction     *)
(* does, and parseStart is where one of its elements does.                 *)
InFront ==
  peer.countsBytes =>
    /\ received - length = Offset(Encoded(peer), delivered)
    /\ IF delivered < Len(peer.script)
       THEN \E k \in 1..Len(Current) : parseStart = Offset(ElementsOf(Current), k - 1)
       ELSE parseStart = 0

IInv == TypeOK /\ length <= received /\ Unread /\ InFront /\ RoomToRead

LEMMA WireTypes ==
  ASSUME TypeOK
  PROVE  /\ Wire \in Seq(Byte) /\ Len(Wire) \in Nat /\ received \in Nat
         /\ start \in Nat /\ length \in Nat /\ parseStart \in Nat /\ Capacity \in Nat
<1>1. WireOf(peer) \in Seq(Byte)
  BY WireForm DEF TypeOK
<1>2. Wire \in Seq(Byte) /\ Len(Wire) \in Nat
  BY <1>1, WireOfPeer, LenProperties
<1> QED
  BY <1>2, SizeAssumption, LengthForm DEF TypeOK

(* A peer that counts bytes is in front of an element, or has sent all.    *)
LEMMA InFrontForm ==
  ASSUME IInv, peer.countsBytes
  PROVE  \/ /\ delivered = Len(peer.script) /\ length = 0 /\ ~HasLength
         \/ /\ delivered < Len(peer.script) /\ Current \in Instruction
            /\ Len(Current) \in Nat \ {0}
            /\ \E k \in 1..Len(Current) :
                 /\ parseStart = Offset(ElementsOf(Current), k - 1)
                 /\ IsAt(Wire, received - length + parseStart, ElementsOf(Current)[k])
<1> DEFINE enc == Encoded(peer)
           n == Len(peer.script)
<1>1. TypeOK /\ length <= received /\ InFront
  BY DEF IInv
<1>2. /\ peer \in Peers /\ delivered \in Nat /\ delivered <= n /\ received \in 0..Len(Wire)
      /\ length \in Nat /\ parseStart \in Nat /\ LengthEnd \in parseStart..length
  BY <1>1, LengthForm DEF TypeOK
<1>3. /\ n \in Nat /\ Len(Wire) = Offset(enc, n) /\ Len(Wire) \in Nat
      /\ \A d \in 0..n : Offset(enc, d) \in Nat
      /\ \A d \in 1..n : peer.script[d] \in Instruction
  BY <1>1, <1>2, WireForm, WireOfPeer, WireTypes
<1>4. received - length = Offset(enc, delivered)
  BY <1>1 DEF InFront
<1>5. CASE delivered = n
  <2>1. length = 0
    BY <1>1, <1>2, <1>3, <1>4, <1>5
  <2>2. ~HasLength
    BY <1>2, <2>1 DEF HasLength
  <2> QED
    BY <1>5, <2>1, <2>2
<1>6. CASE delivered < n
  <2> DEFINE d == delivered + 1
  <2>1. d \in 1..n /\ d - 1 = delivered /\ Current = peer.script[d]
    BY <1>2, <1>3, <1>6 DEF Current
  <2> HIDE DEF d
  <2>2. Current \in Instruction
    BY <1>3, <2>1
  <2>3. PICK k \in 1..Len(Current) : parseStart = Offset(ElementsOf(Current), k - 1)
    BY <1>1, <1>6 DEF InFront
  <2>4. IsAt(WireOf(peer), Offset(enc, d - 1) + Offset(ElementsOf(Current), k - 1),
             ElementsOf(Current)[k])
    BY <1>2, <2>1, ElementOnWire
  <2>5. IsAt(Wire, received - length + parseStart, ElementsOf(Current)[k])
    BY <1>4, <2>1, <2>3, <2>4, WireOfPeer
  <2>6. Len(Current) \in Nat \ {0}
    BY <2>2, StringForm
  <2> QED
    BY <1>6, <2>2, <2>3, <2>5, <2>6
<1> QED
  BY <1>2, <1>3, <1>5, <1>6

(* What a complete element of a peer that counts bytes is followed by.     *)
LEMMA CompleteForm ==
  ASSUME IInv, peer.countsBytes, IsComplete
  PROVE  /\ delivered < Len(peer.script) /\ Current \in Instruction
         /\ \E k \in 1..Len(Current) :
              /\ At(Terminator) = End(Current, k)
              /\ Terminator + 1 = Offset(ElementsOf(Current), k)
<1>0. TypeOK /\ length <= received /\ Unread
  BY DEF IInv
<1>1. HasLength
  BY DEF IsComplete
<1>2. /\ delivered < Len(peer.script) /\ Current \in Instruction
      /\ \E k \in 1..Len(Current) :
           /\ parseStart = Offset(ElementsOf(Current), k - 1)
           /\ IsAt(Wire, received - length + parseStart, ElementsOf(Current)[k])
  BY <1>1, InFrontForm
<1>3. PICK k \in 1..Len(Current) :
           /\ parseStart = Offset(ElementsOf(Current), k - 1)
           /\ IsAt(Wire, received - length + parseStart, ElementsOf(Current)[k])
  BY <1>2
<1> DEFINE e == ElementsOf(Current)[k]
<1>4. /\ Len(e) \in Nat /\ Terminator = parseStart + Len(e) - 1
      /\ At(Terminator) = End(Current, k)
  <2>1. /\ Len(e) \in Nat
        /\ HasLength => At(LengthEnd) = "." /\ Terminator = parseStart + Len(e) - 1
        /\ IsComplete => At(Terminator) = End(Current, k)
    BY <1>0, <1>2, <1>3, ElementInWindow
  <2> QED
    BY <1>1, <2>1
<1>5. Offset(ElementsOf(Current), k) = parseStart + Len(e)
  BY <1>2, <1>3, StringForm
<1> HIDE DEF e
<1>6. Terminator + 1 = Offset(ElementsOf(Current), k)
  <2>1. parseStart \in Nat
    BY <1>0, LengthForm
  <2> QED
    BY <1>4, <1>5, <2>1
<1> QED
  BY <1>2, <1>4, <1>6

LEMMA InitIInv == Init => IInv
<1> SUFFICES ASSUME Init PROVE IInv
  OBVIOUS
<1>1. /\ peer \in Peers /\ Len(Wire) \in Nat /\ Wire \in Seq(Byte)
  <2>1. WireOf(peer) \in Seq(Byte) /\ peer \in Peers
    BY WireForm DEF Init
  <2> QED
    BY <2>1, WireOfPeer, LenProperties
<1>2. /\ peer.countsBytes \in BOOLEAN /\ Len(peer.script) \in Nat /\ DOMAIN peer.script = 1..Len(peer.script)
      /\ Offset(Encoded(peer), 0) = 0
      /\ \A d \in 1..Len(peer.script) : peer.script[d] \in Instruction
  BY <1>1, WireForm
<1>3. TypeOK
  BY <1>1, <1>2, SizeAssumption DEF Init, TypeOK
<1>4. length <= received /\ Unread /\ RoomToRead
  BY DEF Init, Unread, RoomToRead
<1>5. InFront
  <2>1. received - length = Offset(Encoded(peer), delivered) /\ parseStart = 0
    BY <1>2 DEF Init
  <2>2. ASSUME delivered < Len(peer.script)
        PROVE  \E k \in 1..Len(Current) : parseStart = Offset(ElementsOf(Current), k - 1)
    <3>1. Current \in Instruction
      <4>1. delivered + 1 \in 1..Len(peer.script)
        BY <1>2, <2>2 DEF Init
      <4> QED
        BY <1>2, <4>1 DEF Current
    <3>2. Len(Current) \in Nat \ {0} /\ Offset(ElementsOf(Current), 0) = 0
      BY <3>1, StringForm
    <3>3. 1 \in 1..Len(Current) /\ 1 - 1 = 0
      BY <3>2
    <3> QED
      BY <2>1, <3>2, <3>3
  <2> QED
    BY <2>1, <2>2 DEF InFront
<1> QED
  BY <1>3, <1>4, <1>5 DEF IInv

(* Steps that leave the window alone and do not come to a read.            *)
LEMMA SteadyKeeps ==
  ASSUME IInv, UNCHANGED <<peer, received, array, start, length, parseStart, delivered>>,
         closed' \in BOOLEAN, pc' \in {"idle", "parse", "read"},
         err' \in {"none", "deadline", "syntax", "timeout", "closed", "zero"},
         pc' = "read" => pc = "read"
  PROVE  IInv'
<1>1. Wire' = Wire
  BY DEF Wire
<1>2. TypeOK'
  BY <1>1 DEF IInv, TypeOK
<1>3. (length <= received)'
  BY DEF IInv
<1>4. Unread'
  BY <1>1 DEF IInv, Unread, At
<1>5. InFront'
  BY DEF IInv, InFront, Current
<1>6. RoomToRead'
  BY DEF IInv, RoomToRead, Fits, cap
<1> QED
  BY <1>2, <1>3, <1>4, <1>5, <1>6 DEF IInv

LEMMA ReadSomeKeeps == IInv /\ ReadSome => IInv'
<1> SUFFICES ASSUME IInv, ReadSome PROVE IInv'
  OBVIOUS
<1>1. closed' \in BOOLEAN
  BY DEF IInv, TypeOK, ReadSome
<1> QED
  BY <1>1, SteadyKeeps DEF ReadSome, window

LEMMA BadLengthKeeps == IInv /\ BadLength => IInv'
<1> SUFFICES ASSUME IInv, BadLength PROVE IInv'
  OBVIOUS
<1>1. closed' \in BOOLEAN
  BY DEF IInv, TypeOK, BadLength
<1> QED
  BY <1>1, SteadyKeeps DEF BadLength, Return, window

LEMMA ReceiveNothingKeeps == IInv /\ ReceiveNothing => IInv'
<1> SUFFICES ASSUME IInv, ReceiveNothing PROVE IInv'
  OBVIOUS
<1>1. closed' \in BOOLEAN
  BY DEF IInv, TypeOK, ReceiveNothing
<1> QED
  BY <1>1, SteadyKeeps DEF ReceiveNothing, window

LEMMA ReadFailsKeeps == IInv /\ ReadFails => IInv'
<1> SUFFICES ASSUME IInv, ReadFails PROVE IInv'
  OBVIOUS
<1>1. closed' \in BOOLEAN
  BY DEF IInv, TypeOK, ReadFails
<1>2. err' \in {"none", "deadline", "syntax", "timeout", "closed", "zero"} /\ pc' = "idle"
  BY DEF ReadFails, Return
<1> QED
  BY <1>1, <1>2, SteadyKeeps DEF ReadFails, window

LEMMA CloseKeeps == IInv /\ Close => IInv'
<1> SUFFICES ASSUME IInv, Close PROVE IInv'
  OBVIOUS
<1>1. /\ pc' = pc /\ err' = err
      /\ pc \in {"idle", "parse", "read"}
      /\ err \in {"none", "deadline", "syntax", "timeout", "closed", "zero"}
  BY DEF IInv, TypeOK, Close, result
<1> QED
  BY <1>1, SteadyKeeps DEF Close, window, result

LEMMA StutterKeeps == IInv /\ UNCHANGED vars => IInv'
<1> SUFFICES ASSUME IInv, UNCHANGED vars PROVE IInv'
  OBVIOUS
<1>1. /\ closed' \in BOOLEAN /\ pc' = pc /\ err' = err
      /\ pc \in {"idle", "parse", "read"}
      /\ err \in {"none", "deadline", "syntax", "timeout", "closed", "zero"}
  BY DEF IInv, TypeOK, vars, result
<1> QED
  BY <1>1, SteadyKeeps DEF vars, window, result

(* Steps that only move parseStart.                                        *)
LEMMA NextElementKeeps == IInv /\ NextElement => IInv'
<1> SUFFICES ASSUME IInv, NextElement PROVE IInv'
  OBVIOUS
<1>0. /\ TypeOK /\ InFront /\ IsComplete /\ Terminator < length
      /\ Terminator \in Nat /\ length \in Nat /\ start \in Nat
  BY LengthForm DEF IInv, NextElement, IsComplete
<1>1. Wire' = Wire
  BY DEF Wire, NextElement
<1>2. TypeOK'
  <2>1. parseStart' \in 0..length
    <3>1. parseStart' = Terminator + 1
      BY DEF NextElement
    <3> QED
      BY <1>0, <3>1
  <2> QED
    BY <1>0, <1>1, <2>1 DEF TypeOK, NextElement, result
<1>3. (length <= received)' /\ Unread'
  BY <1>1 DEF IInv, Unread, At, NextElement
<1>4. InFront'
  <2> SUFFICES ASSUME peer.countsBytes PROVE InFront'
    BY DEF InFront, NextElement
  <2>1. /\ delivered < Len(peer.script) /\ Current \in Instruction
        /\ \E k \in 1..Len(Current) :
             /\ At(Terminator) = End(Current, k)
             /\ Terminator + 1 = Offset(ElementsOf(Current), k)
    BY <1>0, CompleteForm
  <2>2. PICK k \in 1..Len(Current) :
             /\ At(Terminator) = End(Current, k)
             /\ Terminator + 1 = Offset(ElementsOf(Current), k)
    BY <2>1
  <2>3. k # Len(Current)
    BY <2>2 DEF NextElement, End
  <2>4. k + 1 \in 1..Len(Current) /\ (k + 1) - 1 = k
    <3>1. Len(Current) \in Nat
      BY <2>1, StringForm
    <3> QED
      BY <2>3, <3>1
  <2>5. parseStart' = Offset(ElementsOf(Current), (k + 1) - 1)
    BY <2>2, <2>4 DEF NextElement
  <2>6. \E j \in 1..Len(Current) : parseStart' = Offset(ElementsOf(Current), j - 1)
    BY <2>4, <2>5
  <2>7. Current' = Current
    BY DEF Current, NextElement, result
  <2>8. received - length = Offset(Encoded(peer), delivered)
    BY <1>0 DEF InFront
  <2> QED
    BY <2>1, <2>6, <2>7, <2>8 DEF InFront, NextElement, result
<1>5. RoomToRead'
  BY DEF RoomToRead, NextElement
<1> QED
  BY <1>2, <1>3, <1>4, <1>5 DEF IInv

LEMMA BadTerminatorKeeps == IInv /\ BadTerminator => IInv'
<1> SUFFICES ASSUME IInv, BadTerminator PROVE IInv'
  OBVIOUS
<1>0. /\ TypeOK /\ IsComplete /\ Terminator < length
      /\ Terminator \in Nat /\ length \in Nat /\ start \in Nat
  BY LengthForm DEF IInv, BadTerminator, IsComplete
<1>1. Wire' = Wire
  BY DEF Wire, BadTerminator
<1>2. TypeOK'
  <2>1. parseStart' \in 0..length
    <3>1. parseStart' = Terminator + 1
      BY DEF BadTerminator
    <3> QED
      BY <1>0, <3>1
  <2> QED
    BY <1>0, <1>1, <2>1 DEF TypeOK, BadTerminator, Return
<1>3. (length <= received)' /\ Unread'
  BY <1>1 DEF IInv, Unread, At, BadTerminator
<1>4. InFront'
  <2>1. ASSUME peer.countsBytes PROVE FALSE
    <3>1. \E k \in 1..Len(Current) : At(Terminator) = End(Current, k)
      BY <1>0, <2>1, CompleteForm
    <3> QED
      BY <3>1 DEF BadTerminator, End
  <2> QED
    BY <2>1 DEF InFront, BadTerminator
<1>5. RoomToRead'
  BY DEF RoomToRead, BadTerminator, Return
<1> QED
  BY <1>2, <1>3, <1>4, <1>5 DEF IInv

(* Moving the window.                                                      *)
LEMMA MoveKeepsWindow ==
  ASSUME IInv, MoveToFront, UNCHANGED <<peer, received, delivered>>,
         closed' \in BOOLEAN, pc' \in {"idle", "parse", "read"},
         err' \in {"none", "deadline", "syntax", "timeout", "closed", "zero"}
  PROVE  TypeOK' /\ (length <= received)' /\ Unread' /\ InFront'
<1>0. /\ TypeOK /\ length <= received /\ Unread /\ InFront
      /\ start \in Nat /\ length \in Nat /\ Capacity \in Nat
  BY WireTypes DEF IInv
<1>1. Wire' = Wire
  BY DEF Wire
<1>2. /\ start' = 0 /\ length' = length /\ parseStart' = parseStart
      /\ array' = [i \in DOMAIN array |-> IF i < length THEN At(i) ELSE array[i]]
  BY DEF MoveToFront
<1>3. TypeOK'
  BY <1>0, <1>1, <1>2 DEF TypeOK
<1>4. Unread'
  <2> SUFFICES ASSUME NEW i \in 0..(length - 1) PROVE At(i)' = Wire[received - length + i + 1]
    BY <1>1, <1>2 DEF Unread
  <2>1. At(i)' = array'[i]
    BY <1>0, <1>2 DEF At
  <2>2. i \in DOMAIN array /\ i < length
    BY <1>0 DEF TypeOK
  <2>3. array'[i] = At(i)
    BY <1>2, <2>2
  <2> QED
    BY <1>0, <2>1, <2>3 DEF Unread
<1>5. InFront'
  BY <1>0, <1>2 DEF InFront, Current
<1> QED
  BY <1>0, <1>2, <1>3, <1>4, <1>5

LEMMA FlushKeeps == IInv /\ Flush => IInv'
<1> SUFFICES ASSUME IInv, Flush PROVE IInv'
  OBVIOUS
<1>1. /\ MoveToFront /\ UNCHANGED <<peer, received, delivered>> /\ closed' \in BOOLEAN
      /\ pc' = "idle"
      /\ err' \in {"none", "deadline", "syntax", "timeout", "closed", "zero"}
  BY DEF IInv, TypeOK, Flush, result
<1>2. TypeOK' /\ (length <= received)' /\ Unread' /\ InFront'
  BY <1>1, MoveKeepsWindow
<1>3. RoomToRead'
  BY <1>1 DEF RoomToRead
<1> QED
  BY <1>2, <1>3 DEF IInv

(* A read is asked for only when the element in front is not complete, so  *)
(* that less than MaxGuacMessage bytes of a peer that fits are held.       *)
LEMMA NeedMoreKeeps == IInv /\ NeedMore => IInv'
<1> SUFFICES ASSUME IInv, NeedMore PROVE IInv'
  OBVIOUS
<1>0. /\ TypeOK /\ length <= received /\ Unread /\ InFront
      /\ start \in Nat /\ length \in Nat /\ Capacity \in Nat /\ parseStart \in Nat
      /\ MaxGuacMessage \in Nat \ {0} /\ MaxGuacMessage <= Capacity
  BY WireTypes, SizeAssumption DEF IInv
<1>1. /\ UNCHANGED <<peer, received, delivered>> /\ closed' \in BOOLEAN /\ pc' = "read"
      /\ err' \in {"none", "deadline", "syntax", "timeout", "closed", "zero"}
  BY <1>0 DEF TypeOK, NeedMore, result
<1>2. TypeOK' /\ (length <= received)' /\ Unread' /\ InFront'
  <2>1. CASE MoveToFront
    BY <1>1, <2>1, MoveKeepsWindow
  <2>2. CASE UNCHANGED window
    <3>1. Wire' = Wire
      BY <1>1 DEF Wire
    <3>2. TypeOK'
      BY <1>0, <1>1, <2>2, <3>1 DEF TypeOK, window
    <3>3. Unread'
      BY <1>0, <1>1, <2>2, <3>1 DEF Unread, At, window
    <3>4. InFront' /\ (length <= received)'
      BY <1>0, <1>1, <2>2 DEF InFront, Current, window
    <3> QED
      BY <3>2, <3>3, <3>4
  <2> QED
    BY <2>1, <2>2 DEF NeedMore
<1>3. cap' >= MaxGuacMessage /\ length' = length
  <2>1. CASE cap < MaxGuacMessage
    BY <1>0, <2>1 DEF NeedMore, MoveToFront, cap
  <2>2. CASE ~(cap < MaxGuacMessage)
    BY <1>0, <2>2 DEF NeedMore, window, cap
  <2> QED
    BY <2>1, <2>2
<1>4. ASSUME Fits PROVE length < MaxGuacMessage
  <2>0. peer.countsBytes
    BY <1>4 DEF Fits
  <2>1. CASE length = 0
    BY <1>0, <2>1
  <2>2. CASE length # 0
    <3>1. /\ delivered < Len(peer.script) /\ Current \in Instruction
          /\ \E k \in 1..Len(Current) :
               /\ parseStart = Offset(ElementsOf(Current), k - 1)
               /\ IsAt(Wire, received - length + parseStart, ElementsOf(Current)[k])
      BY <2>0, <2>2, InFrontForm
    <3>2. PICK k \in 1..Len(Current) :
               /\ parseStart = Offset(ElementsOf(Current), k - 1)
               /\ IsAt(Wire, received - length + parseStart, ElementsOf(Current)[k])
      BY <3>1
    <3> DEFINE es == ElementsOf(Current)
               m == Len(Current)
    <3>3. /\ m \in Nat /\ es \in Seq(Seq(Byte)) /\ Len(es) = m
          /\ Len(String(Current)) = Offset(es, m)
          /\ Offset(es, k) = parseStart + Len(es[k])
          /\ \A j \in 0..m : Offset(es, j) \in Nat
      BY <3>1, <3>2, StringForm
    <3>4. Offset(es, k) <= Offset(es, m)
      <4>1. k \in 0..Len(es) /\ m \in k..Len(es)
        BY <3>3
      <4> QED
        BY <3>3, <4>1, OffsetsGrow
    <3>5. Len(String(Current)) <= MaxGuacMessage
      <4>1. delivered + 1 \in DOMAIN peer.script
        <5>1. /\ Len(peer.script) \in Nat /\ DOMAIN peer.script = 1..Len(peer.script)
              /\ delivered \in Nat
          BY <1>0, WireForm DEF TypeOK
        <5> QED
          BY <3>1, <5>1
      <4> QED
        BY <1>4, <4>1 DEF Fits, Current
    <3>6. /\ Len(es[k]) \in Nat
          /\ parseStart + Len(es[k]) <= length => HasLength /\ Terminator < length
      BY <1>0, <3>1, <3>2, ElementInWindow
    <3>7. ~(HasLength /\ Terminator < length)
      <4>1. Terminator \in Nat
        BY <1>0, LengthForm
      <4> QED
        BY <1>0, <4>1 DEF NeedMore
    <3>8. Offset(es, k) \in Nat /\ Offset(es, m) \in Nat
      BY <3>3
    <3> HIDE DEF es, m
    <3> QED
      BY <1>0, <3>3, <3>4, <3>5, <3>6, <3>7, <3>8
  <2> QED
    BY <2>1, <2>2
<1>5. RoomToRead'
  <2>1. Fits' => Fits
    BY <1>1 DEF Fits
  <2>2. cap' \in Int
    <3>1. start' \in 0..Capacity
      BY <1>2 DEF TypeOK
    <3> QED
      BY <1>0, <3>1 DEF cap
  <2> QED
    BY <1>0, <1>3, <1>4, <2>1, <2>2 DEF RoomToRead
<1> QED
  BY <1>2, <1>5 DEF IInv

(* A read.                                                                 *)
LEMMA ReceiveKeeps ==
  ASSUME IInv, NEW n \in 1..Capacity, Receive(n)
  PROVE  IInv'
<1>0. /\ TypeOK /\ length <= received /\ Unread /\ InFront
      /\ start \in Nat /\ length \in Nat /\ Capacity \in Nat /\ received \in Nat
      /\ Len(Wire) \in Nat /\ parseStart \in Nat /\ n \in Nat /\ n >= 1
  BY WireTypes DEF IInv
<1>1. Wire' = Wire
  BY DEF Wire, Receive
<1>2. /\ n <= (Capacity - start) - length /\ n <= Len(Wire) - received
      /\ length' = length + n /\ received' = received + n
      /\ start' = start /\ parseStart' = parseStart /\ peer' = peer /\ delivered' = delivered
      /\ array' = [i \in DOMAIN array |->
                     IF i - (start + length) \in 0..(n - 1)
                     THEN Wire[received + i - (start + length) + 1]
                     ELSE array[i]]
  BY DEF Receive, cap, result
<1>3. TypeOK'
  <2>1. /\ received' \in 0..Len(Wire') /\ length' \in 0..(Capacity - start')
        /\ parseStart' \in 0..length' /\ start' \in 0..Capacity
    BY <1>0, <1>1, <1>2 DEF TypeOK
  <2>2. DOMAIN array' = 0..(Capacity - 1)
    BY <1>0, <1>2 DEF TypeOK
  <2> QED
    BY <1>0, <2>1, <2>2 DEF TypeOK, Receive, result
<1>4. Unread'
  <2> SUFFICES ASSUME NEW i \in 0..((length + n) - 1)
               PROVE  At(i)' = Wire[(received + n) - (length + n) + i + 1]
    BY <1>1, <1>2 DEF Unread
  <2> DEFINE j == start + i
  <2>1. (received + n) - (length + n) + i + 1 = received - length + i + 1
    BY <1>0
  <2>2. At(i)' = array'[j]
    BY <1>2 DEF At
  <2>3. j \in DOMAIN array
    BY <1>0, <1>2 DEF TypeOK
  <2>4. array'[j] = IF j - (start + length) \in 0..(n - 1)
                    THEN Wire[received + j - (start + length) + 1]
                    ELSE array[j]
    BY <1>2, <2>3
  <2>5. CASE i < length
    <3>1. ~(j - (start + length) \in 0..(n - 1))
      BY <1>0, <2>5
    <3>2. i \in 0..(length - 1)
      BY <1>0, <2>5
    <3>3. array[j] = Wire[received - length + i + 1]
      BY <1>0, <3>2 DEF Unread, At
    <3> QED
      BY <2>1, <2>2, <2>4, <3>1, <3>3
  <2>6. CASE ~(i < length)
    <3>1. j - (start + length) \in 0..(n - 1)
      BY <1>0, <2>6
    <3>2. received + j - (start + length) + 1 = received - length + i + 1
      BY <1>0
    <3> HIDE DEF j
    <3> QED
      BY <2>1, <2>2, <2>4, <3>1, <3>2
  <2> QED
    BY <2>5, <2>6
<1>5. InFront'
  <2>1. received' - length' = received - length
    BY <1>0, <1>2
  <2> QED
    BY <1>0, <1>2, <2>1 DEF InFront, Current
<1>6. (length <= received)' /\ RoomToRead'
  BY <1>0, <1>2 DEF RoomToRead, Receive
<1> QED
  BY <1>3, <1>4, <1>5, <1>6 DEF IInv

(* The end of an instruction: it is cut off the window, and of a peer that *)
(* counts bytes it is the one that comes next.                             *)
LEMMA EndKeeps ==
  ASSUME IInv, EndOfInstruction
  PROVE  /\ IInv'
         /\ peer.countsBytes =>
              /\ delivered < Len(peer.script) /\ Current \in Instruction
              /\ last' = String(Current)
<1>0. /\ TypeOK /\ length <= received /\ Unread /\ InFront /\ IsComplete
      /\ start \in Nat /\ length \in Nat /\ Capacity \in Nat /\ received \in Nat
      /\ Len(Wire) \in Nat /\ Wire \in Seq(Byte) /\ delivered \in Nat
  BY WireTypes DEF IInv, TypeOK, EndOfInstruction
<1>1. Wire' = Wire
  BY DEF Wire, EndOfInstruction
<1> DEFINE T == Terminator + 1
<1>2. T \in Nat /\ T <= length /\ T >= 1
  <2>1. Terminator \in Nat /\ Terminator < length
    BY <1>0, LengthForm DEF IsComplete
  <2> QED
    BY <1>0, <2>1
<1>3. /\ At(Terminator) = ";" /\ last' = Slice(0, T)
      /\ start' = start + T /\ length' = length - T /\ parseStart' = 0
      /\ delivered' = delivered + 1 /\ peer' = peer /\ received' = received
      /\ closed' = closed /\ array' = array /\ pc' = "idle" /\ err' = "none"
  <2>1. start' = start + Terminator + 1 /\ Terminator \in Nat
    BY <1>0, LengthForm DEF EndOfInstruction
  <2>2. start' = start + T
    BY <1>0, <2>1
  <2> HIDE DEF T
  <2>3. last' = Slice(0, T) /\ length' = length - T
    BY DEF EndOfInstruction, T
  <2> QED
    BY <2>2, <2>3 DEF EndOfInstruction, Return
<1> HIDE DEF T
<1>4. ASSUME peer.countsBytes
      PROVE  /\ delivered < Len(peer.script) /\ Current \in Instruction
             /\ T = Len(String(Current))
             /\ String(Current) \in Seq(Byte)
             /\ IsAt(Wire, received - length, String(Current))
             /\ (received - length) + T = Offset(Encoded(peer), delivered + 1)
             /\ Len(peer.script) \in Nat
  <2>1. /\ delivered < Len(peer.script) /\ Current \in Instruction
        /\ \E k \in 1..Len(Current) :
             /\ At(Terminator) = End(Current, k)
             /\ T = Offset(ElementsOf(Current), k)
    BY <1>0, <1>4, CompleteForm DEF T
  <2>2. PICK k \in 1..Len(Current) :
             /\ At(Terminator) = End(Current, k)
             /\ T = Offset(ElementsOf(Current), k)
    BY <2>1
  <2>3. k = Len(Current)
    BY <1>3, <2>2 DEF End
  <2>4. T = Len(String(Current)) /\ String(Current) \in Seq(Byte)
    BY <2>1, <2>2, <2>3, StringForm
  <2> DEFINE d == delivered + 1
             enc == Encoded(peer)
  <2>5. /\ Len(peer.script) \in Nat /\ d \in 1..Len(peer.script) /\ d - 1 = delivered
    <3>1. Len(peer.script) \in Nat
      BY <1>0, WireForm DEF TypeOK
    <3> QED
      BY <1>0, <2>1, <3>1
  <2>6. /\ Offset(enc, d) = Offset(enc, d - 1) + Len(enc[d])
        /\ IsAt(WireOf(peer), Offset(enc, d - 1), enc[d])
        /\ enc[d] = String(peer.script[d])
    <3>1. peer \in Peers
      BY <1>0 DEF TypeOK
    <3> HIDE DEF d
    <3> QED
      BY <1>4, <2>5, <3>1, WireForm
  <2>7. Current = peer.script[d]
    BY DEF Current
  <2>8. received - length = Offset(enc, delivered)
    BY <1>0, <1>4 DEF InFront
  <2> HIDE DEF enc
  <2>9. IsAt(Wire, received - length, String(Current))
    BY <2>5, <2>6, <2>7, <2>8, WireOfPeer
  <2>10. (received - length) + T = Offset(enc, d)
    BY <2>4, <2>5, <2>6, <2>7, <2>8
  <2> QED
    BY <2>1, <2>4, <2>5, <2>9, <2>10 DEF enc
<1>10. start' \in 0..Capacity /\ length' \in 0..(Capacity - start') /\ parseStart' \in 0..length'
  <2>1. start \in 0..Capacity /\ length \in 0..(Capacity - start) /\ Capacity \in Nat
    BY <1>0 DEF TypeOK
  <2>2. start' = start + T /\ length' = length - T /\ parseStart' = 0
    BY <1>3
  <2> QED
    BY <1>2, <2>1, <2>2
<1>5. TypeOK'
  <2>1. peer.countsBytes => delivered + 1 <= Len(peer.script)
    <3> SUFFICES ASSUME peer.countsBytes PROVE delivered + 1 <= Len(peer.script)
      OBVIOUS
    <3>1. delivered < Len(peer.script) /\ Len(peer.script) \in Nat
      BY <1>4
    <3>2. delivered \in Nat
      BY <1>0
    <3> QED
      BY <3>1, <3>2
  <2>2. /\ peer' \in Peers /\ received' \in 0..Len(Wire') /\ closed' \in BOOLEAN
        /\ DOMAIN array' = 0..(Capacity - 1)
    BY <1>0, <1>1, <1>3 DEF TypeOK
  <2>3. /\ pc' \in {"idle", "parse", "read"}
        /\ err' \in {"none", "deadline", "syntax", "timeout", "closed", "zero"}
    BY <1>3
  <2>4. delivered' \in Nat
    <3>1. delivered \in Nat /\ delivered' = delivered + 1
      BY <1>0, <1>3
    <3> QED
      BY <3>1
  <2>5. peer'.countsBytes => delivered' <= Len(peer'.script)
    BY <1>3, <2>1
  <2> QED
    BY <1>10, <2>2, <2>3, <2>4, <2>5 DEF TypeOK
<1>6. Unread'
  <2> SUFFICES ASSUME NEW i \in 0..((length - T) - 1)
               PROVE  At(i)' = Wire[received - (length - T) + i + 1]
    BY <1>1, <1>3 DEF Unread
  <2> DEFINE j == T + i
  <2>1. j \in 0..(length - 1) /\ received - (length - T) + i + 1 = received - length + j + 1
        /\ (start + T) + i = start + j
    BY <1>0, <1>2
  <2>2. At(i)' = array[(start + T) + i]
    BY <1>3 DEF At
  <2> HIDE DEF j
  <2>3. At(j) = Wire[received - length + j + 1]
    BY <1>0, <2>1 DEF Unread
  <2> QED
    BY <2>1, <2>2, <2>3 DEF At
<1>7. InFront'
  <2> SUFFICES ASSUME peer.countsBytes
               PROVE  /\ received - (length - T) = Offset(Encoded(peer), delivered + 1)
                      /\ delivered + 1 < Len(peer.script) =>
                           \E k \in 1..Len(Current)' : 0 = Offset(ElementsOf(Current)', k - 1)
    BY <1>3 DEF InFront
  <2>1. received - (length - T) = (received - length) + T
    BY <1>0, <1>2
  <2>2. ASSUME delivered + 1 < Len(peer.script)
        PROVE  \E k \in 1..Len(Current)' : 0 = Offset(ElementsOf(Current)', k - 1)
    <3> DEFINE next == peer.script[(delivered + 1) + 1]
    <3>1. Current' = next
      BY <1>3 DEF Current
    <3>2. next \in Instruction
      <4>1. (delivered + 1) + 1 \in 1..Len(peer.script) /\ peer \in Peers
        BY <1>0, <1>4, <2>2 DEF TypeOK
      <4> QED
        BY <4>1, WireForm
    <3> HIDE DEF next
    <3>3. Len(next) \in Nat \ {0} /\ Offset(ElementsOf(next), 0) = 0
      BY <3>2, StringForm
    <3>4. 1 \in 1..Len(next) /\ 1 - 1 = 0
      BY <3>3
    <3>5. \E k \in 1..Len(next) : 0 = Offset(ElementsOf(next), k - 1)
      BY <3>3, <3>4
    <3> QED
      BY <3>1, <3>5
  <2> QED
    BY <1>4, <2>1, <2>2
<1>8. (length <= received)' /\ RoomToRead'
  <2>1. length \in Nat /\ received \in Nat /\ length <= received
    BY <1>0
  <2>2. received' = received /\ length' = length - T /\ pc' = "idle"
    BY <1>3
  <2>3. (length <= received)'
    BY <1>2, <2>1, <2>2
  <2> QED
    BY <2>2, <2>3 DEF RoomToRead
<1>9. ASSUME peer.countsBytes PROVE last' = String(Current)
  <2> DEFINE p == String(Current)
  <2>1. /\ p \in Seq(Byte) /\ Len(p) = T /\ IsAt(Wire, received - length, p)
    BY <1>4, <1>9
  <2> HIDE DEF p
  <2>2. ASSUME NEW i \in 1..T PROVE At(0 + i - 1) = p[i]
    <3>1. Wire[received - length + i] = p[i]
      BY <2>1 DEF IsAt
    <3> DEFINE j == 0 + i - 1
    <3>2. j \in 0..(length - 1) /\ received - length + j + 1 = received - length + i
      BY <1>0, <1>2
    <3> HIDE DEF j
    <3>3. At(j) = Wire[received - length + j + 1]
      BY <1>0, <3>2 DEF Unread
    <3> QED
      BY <3>1, <3>2, <3>3 DEF j
  <2>3. Slice(0, T) = [i \in 1..T |-> At(0 + i - 1)]
    BY <1>2 DEF Slice
  <2>4. p = [i \in 1..T |-> p[i]]
    BY <2>1, LenProperties
  <2>5. Slice(0, T) = p
    BY <2>2, <2>3, <2>4
  <2> QED
    BY <1>3, <2>5 DEF p
<1> QED
  BY <1>4, <1>5, <1>6, <1>7, <1>8, <1>9 DEF IInv

-----------------------------------------------------------------------------
(* The theorems.                                                           *)

LEMMA NextKeeps == IInv /\ [Next]_vars => IInv'
<1> SUFFICES ASSUME IInv, [Next]_vars PROVE IInv'
  OBVIOUS
<1>1. CASE ReadSome
  BY <1>1, ReadSomeKeeps
<1>2. CASE NextElement
  BY <1>2, NextElementKeeps
<1>3. CASE EndOfInstruction
  BY <1>3, EndKeeps
<1>4. CASE BadTerminator
  BY <1>4, BadTerminatorKeeps
<1>5. CASE BadLength
  BY <1>5, BadLengthKeeps
<1>6. CASE NeedMore
  BY <1>6, NeedMoreKeeps
<1>7. CASE \E n \in 1..Capacity : Receive(n)
  BY <1>7, ReceiveKeeps
<1>8. CASE ReceiveNothing
  BY <1>8, ReceiveNothingKeeps
<1>9. CASE ReadFails
  BY <1>9, ReadFailsKeeps
<1>10. CASE Flush
  BY <1>10, FlushKeeps
<1>11. CASE Close
  BY <1>11, CloseKeeps
<1>12. CASE UNCHANGED vars
  BY <1>12, StutterKeeps
<1> QED
  BY <1>1, <1>2, <1>3, <1>4, <1>5, <1>6, <1>7, <1>8, <1>9, <1>10, <1>11, <1>12 DEF Next, Parsing

LEMMA IInvIsInvariant == Spec => []IInv
  BY InitIInv, NextKeeps, PTL DEF Spec

LEMMA IInvImpliesSafe == IInv => Safe
<1> SUFFICES ASSUME IInv PROVE WindowIsUnread
  BY DEF Safe, IInv
<1>1. /\ Wire \in Seq(Byte) /\ received \in Nat /\ length \in Nat /\ length <= received
      /\ Unread /\ received <= Len(Wire) /\ Len(Wire) \in Nat
  BY WireTypes DEF IInv, TypeOK
<1> DEFINE s == Slice(0, length)
           m == received - length
<1>2. Len(s) = length /\ \A i \in 1..length : s[i] = At(0 + i - 1)
  <2>1. length \in Nat /\ length - 0 = length /\ 0 <= length
    BY <1>1
  <2>2. Len(s) = length - 0 /\ \A i \in 1..(length - 0) : s[i] = At(0 + i - 1)
    BY <2>1, SliceForm
  <2> HIDE DEF s
  <2> QED
    BY <2>1, <2>2
<1>3. m \in Nat /\ m + length = received
  BY <1>1
<1>4. ASSUME NEW i \in 1..length PROVE s[i] = Wire[m + i] /\ Wire[m + i] \in Byte
  <2> DEFINE j == 0 + i - 1
  <2>1. j \in 0..(length - 1) /\ received - length + j + 1 = m + i /\ m + i \in 1..Len(Wire)
    BY <1>1
  <2> HIDE DEF j
  <2>2. At(j) = Wire[m + i]
    BY <1>1, <2>1 DEF Unread
  <2> HIDE DEF m, s
  <2> QED
    BY <1>1, <1>2, <2>1, <2>2, ElementOfSeq DEF j
<1> HIDE DEF m
<1>5. s \in Seq(Byte)
  <2>1. s = [i \in 1..length |-> s[i]]
    <3>1. length - 0 = length
      BY <1>1
    <3>2. s = [i \in 1..length |-> At(0 + i - 1)]
      BY <3>1 DEF Slice
    <3> HIDE DEF s
    <3> QED
      BY <3>2
  <2> HIDE DEF s
  <2>2. s \in [1..length -> Byte]
    BY <1>4, <2>1
  <2> QED
    BY <1>1, <2>2, FunctionIsSeq
<1> HIDE DEF s
<1>6. SubSeq(Wire, m + 1, m + Len(s)) = s
  <2>1. m + Len(s) <= Len(Wire) /\ \A i \in 1..Len(s) : Wire[m + i] = s[i]
    BY <1>1, <1>2, <1>3, <1>4
  <2> QED
    BY <1>1, <1>3, <1>5, <2>1, SubSeqAt
<1> QED
  BY <1>2, <1>3, <1>6 DEF WindowIsUnread, m, s

THEOREM StreamIsSafe == Spec => []Safe
  BY IInvIsInvariant, IInvImpliesSafe, PTL

(* String writes what Parse reads.                                         *)
THEOREM ParseInvertsString ==
  \A instruction \in Instruction :
    Parse(String(instruction)) = [k \in DOMAIN instruction |-> Bytes(instruction[k])]
  BY ParseOfString

(* The refinement: the end of an instruction delivers it, all other steps  *)
(* stutter.                                                                *)
LEMMA InitIsRefined == Init => Promise!Init
<1> SUFFICES ASSUME Init PROVE Promise!Init
  OBVIOUS
<1>1. InBytes(peer.script) \in {InBytes(p.script) : p \in Peers}
  BY DEF Init
<1>2. Got(delivered, 0) = 0 /\ Got(Parse(last), <<>>) = <<>>
  BY ParseOfNothing DEF Init, Got
<1> QED
  BY <1>1, <1>2 DEF Promise!Init

LEMMA QuietIsRefined ==
  ASSUME UNCHANGED <<peer, delivered, last>>
  PROVE  UNCHANGED Promise!vars
  BY DEF Promise!vars, InBytes, Got

LEMMA EndIsRefined ==
  ASSUME IInv, EndOfInstruction
  PROVE  [Promise!Deliver]_(Promise!vars)
<1>1. peer' = peer /\ delivered' = delivered + 1
  BY DEF EndOfInstruction
<1>2. CASE ~peer.countsBytes
  BY <1>1, <1>2 DEF Promise!vars, InBytes, Got
<1>3. CASE peer.countsBytes
  <2>1. /\ delivered < Len(peer.script) /\ Current \in Instruction /\ last' = String(Current)
    BY <1>3, EndKeeps
  <2>2. Parse(last') = [k \in DOMAIN Current |-> Bytes(Current[k])]
    BY <2>1, ParseOfString
  <2> DEFINE n == Len(peer.script)
             s == InBytes(peer.script)
  <2>3. n \in Nat /\ DOMAIN peer.script = 1..n /\ delivered \in Nat
    BY WireForm DEF IInv, TypeOK
  <2>4. s = [i \in 1..n |-> [j \in DOMAIN peer.script[i] |-> Bytes(peer.script[i][j])]]
    BY <2>3, Zenon DEF InBytes
  <2>5. Len(s) = n
    <3> HIDE DEF s, n
    <3>1. s = [i \in 1..n |-> s[i]]
      BY <2>4
    <3> QED
      BY <2>3, <3>1, LenOfFunction
  <2>6. s[delivered + 1] = [j \in DOMAIN Current |-> Bytes(Current[j])]
    <3>1. delivered + 1 \in 1..n
      BY <2>1, <2>3
    <3> HIDE DEF s
    <3> QED
      BY <2>4, <3>1, Zenon DEF Current
  <2> HIDE DEF s
  <2>7. Parse(last') = s[delivered + 1]
    BY <2>2, <2>6
  <2>8. /\ Got(delivered, 0) = delivered /\ Got(delivered, 0)' = delivered'
        /\ Got(Parse(last), <<>>)' = Parse(last')
        /\ InBytes(peer.script)' = s /\ InBytes(peer.script) = s
    BY <1>1, <1>3 DEF Got, s, InBytes
  <2>9. Promise!Deliver
    BY <1>1, <2>1, <2>5, <2>7, <2>8 DEF Promise!Deliver
  <2> QED
    BY <2>9
<1> QED
  BY <1>2, <1>3

LEMMA NextIsRefined == IInv /\ [Next]_vars => [Promise!Deliver]_(Promise!vars)
<1> SUFFICES ASSUME IInv, [Next]_vars PROVE [Promise!Deliver]_(Promise!vars)
  OBVIOUS
<1>1. CASE EndOfInstruction
  BY <1>1, EndIsRefined
<1>2. CASE ~EndOfInstruction
  <2>1. UNCHANGED <<peer, delivered, last>>
    BY <1>2 DEF Next, Parsing, ReadSome, NextElement, BadTerminator, BadLength, NeedMore,
                Receive, ReceiveNothing, ReadFails, Flush, Close, vars, result
  <2> QED
    BY <2>1, QuietIsRefined
<1> QED
  BY <1>1, <1>2

THEOREM StreamInOrder == Spec => InOrder
  BY InitIsRefined, NextIsRefined, IInvIsInvariant, PTL DEF Spec, InOrder, Promise!Spec
=============================================================================
