---------------------------- MODULE GuacProtocol ----------------------------
(***************************************************************************)
(* Instructions of the Guacamole protocol on the wire,                     *)
(* src/bbtty/guac/guac_instruction.go.                                     *)
(*                                                                         *)
(* An instruction is a sequence of elements, LENGTH.VALUE each, separated  *)
(* by "," and ended by ";".  A value is a sequence of characters and a     *)
(* character the sequence of its bytes in UTF-8, so that a length in bytes *)
(* and one in characters differ.                                           *)
(***************************************************************************)
EXTENDS Integers, Sequences, FiniteSets, SequencesExt

CONSTANTS
  Byte,   \* what is sent
  Digits  \* the digits from zero on, ten of them in the code

ASSUME DigitsAssumption ==
  /\ {".", ",", ";"} \subseteq Byte
  /\ Digits \in Seq(Byte) /\ Len(Digits) >= 2
  /\ \A d, e \in DOMAIN Digits : Digits[d] = Digits[e] => d = e
  /\ \A d \in DOMAIN Digits : Digits[d] \notin {".", ",", ";"}

Base == Len(Digits)

IsDigit(b) == \E d \in DOMAIN Digits : Digits[d] = b

DigitValue(b) == (CHOOSE d \in DOMAIN Digits : Digits[d] = b) - 1

(* The number that a sequence of digits stands for, from the left.         *)
Number(ds) ==
  LET value[n \in 0..Len(ds)] == IF n = 0 THEN 0 ELSE Base * value[n - 1] + DigitValue(ds[n])
  IN  value[Len(ds)]

(* fmt's %d.                                                               *)
Decimal(n) ==
  LET digits[m \in 0..n] ==
        (IF m < Base THEN <<>> ELSE digits[m \div Base]) \o <<Digits[(m % Base) + 1]>>
  IN  digits[n]

Bytes(value) == FlattenSeq(value)

(* The wire form of an instruction with given lengths.                     *)
Element(value, length, end) == Decimal(length) \o <<".">> \o Bytes(value) \o <<end>>

Elements(instruction, lengths) ==
  [i \in DOMAIN instruction |->
     Element(instruction[i], lengths[i], IF i = Len(instruction) THEN ";" ELSE ",")]

(* Instruction.String: Go's len counts bytes.                              *)
ByteLengths(instruction) == [i \in DOMAIN instruction |-> Len(Bytes(instruction[i]))]

String(instruction) == FlattenSeq(Elements(instruction, ByteLengths(instruction)))

(* The wire form the comment at the head of the file describes: "this      *)
(* length denotes the number of Unicode characters".                       *)
Documented(instruction) ==
  FlattenSeq(Elements(instruction, [i \in DOMAIN instruction |-> Len(instruction[i])]))

Malformed == <<"malformed">>

(* The element that begins at i: its first ".", its terminator, and        *)
(* whether it is one, complete (else an error, or a panic when data ends). *)
DotFrom(data, i) ==
  LET dots == {j \in i..Len(data) : data[j] = "."}
  IN  IF dots = {} THEN Len(data) + 1 ELSE CHOOSE j \in dots : \A k \in dots : j <= k

EndFrom(data, i) == DotFrom(data, i) + Number(SubSeq(data, i, DotFrom(data, i) - 1)) + 1

IsElement(data, i) ==
  /\ DotFrom(data, i) \in (i + 1)..Len(data)
  /\ \A j \in i..(DotFrom(data, i) - 1) : IsDigit(data[j])
  /\ EndFrom(data, i) <= Len(data)

Value(data, i) ==
  IF IsElement(data, i) THEN SubSeq(data, DotFrom(data, i) + 1, EndFrom(data, i) - 1) ELSE Malformed

(* elementStart after the element at i; the loop ends at the end.          *)
NextStart(data, i) ==
  IF IsElement(data, i) /\ data[EndFrom(data, i)] # ";" THEN EndFrom(data, i) + 1 ELSE Len(data) + 1

(* Parse: the values of the elements of a complete instruction, in bytes.  *)
Parse(data) ==
  LET over == Len(data) + 1
      next == [i \in 1..over |-> NextStart(data, i)]
      elementStart[n \in 1..over] == IF n = 1 THEN 1 ELSE next[elementStart[n - 1]]
      turns == Cardinality({n \in 1..over : elementStart[n] < over})
  IN  [n \in 1..turns |-> Value(data, elementStart[n])]
=============================================================================
