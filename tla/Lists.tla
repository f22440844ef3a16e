------------------------------- MODULE Lists --------------------------------
(***************************************************************************)
(* The list and text helpers of src/utils/utils.go and                     *)
(* src/utils/format/format.go, as functions, and what each is to give.     *)
(* A Go map has no order: ArrayDiff and ArrayIntersect give sets here, and *)
(* StringsFormat has a result for every order of its replacements.         *)
(***************************************************************************)
EXTENDS Integers, Sequences, FiniteSets, SequencesExt

CONSTANTS
  Mantissa,  \* a float64 has the whole numbers up to this one, 2^53 in the code
  Scales     \* the powers of two up to the square of Mantissa

(* What the proofs need to know of powers of two.                          *)
FloatIsSound ==
  /\ Mantissa \in Nat \ {0} /\ 1 \in Scales
  /\ \A m \in Scales : /\ m \in 1..(Mantissa * Mantissa)
                       /\ 2 * m \in Scales \/ m = Mantissa * Mantissa

-----------------------------------------------------------------------------
(* ArrayDiff and ArrayIntersect: tmp counts 1 for an element of the first  *)
(* list, and 1 for each occurrence in the others.                          *)

Occurrences(x, others) ==
  {at \in UNION {{p} \X (DOMAIN others[p]) : p \in DOMAIN others} : others[at[1]][at[2]] = x}

(* Mutant: an occurrence in the last of the other lists is missed.         *)
BugTmp(first, others) ==
  [x \in ToSet(first) |-> 1 + Cardinality(Occurrences(x, Front(others)))]

Tmp(first, others) == [x \in ToSet(first) |-> 1 + Cardinality(Occurrences(x, others))]

ArrayDiff(first, others) ==
  IF first = <<>> \/ others = <<>> THEN ToSet(first)
  ELSE LET tmp == Tmp(first, others) IN {x \in ToSet(first) : tmp[x] = 1}

ArrayIntersect(first, others) ==
  IF first = <<>> \/ others = <<>> THEN ToSet(first)
  ELSE LET tmp == Tmp(first, others) IN {x \in ToSet(first) : tmp[x] > 1}

(* The turns of a loop that append, in their order.                        *)
Ascending(turns) ==
  [k \in 1..Cardinality(turns) |->
     CHOOSE t \in turns : Cardinality({u \in turns : u < t}) = k - 1]

(* An element is appended the first time it is met.                        *)
SliceRemoveDuplicate(languages) ==
  LET new == {t \in DOMAIN languages : \A u \in 1..(t - 1) : languages[u] # languages[t]}
  IN  [k \in DOMAIN Ascending(new) |-> languages[Ascending(new)[k]]]

-----------------------------------------------------------------------------
(* ExcelValueLoc: the cells of one row that are under the wanted columns.  *)

Panic == <<"panic">>

(* The turns of the two loops, over the wanted columns and the header.     *)
Wanted(header, t) == ((t - 1) \div Len(header)) + 1
Column(header, t) == ((t - 1) % Len(header)) + 1

(* The numbers of the columns that have a wanted name.                     *)
ColIndex(header, cols) ==
  LET found == {t \in 1..(Len(header) * Len(cols)) :
                  header[Column(header, t)] = cols[Wanted(header, t)]}
  IN  [k \in DOMAIN Ascending(found) |-> Column(header, Ascending(found)[k])]

(* colIndex has room for one column per name; a row may be shorter than    *)
(* the header, which leaves cells empty.  A cell is its number here.       *)
ExcelValueLoc(header, width, cols) ==
  LET found == ColIndex(header, cols) IN
  IF Len(found) > Len(cols) THEN Panic
  ELSE [i \in DOMAIN found |-> IF found[i] <= width THEN found[i] ELSE 0]

(* GetPages: int64(math.Ceil(float64(count) / float64(Limit))), each number *)
(* rounded to the nearest float64, in the middle to the even one.  What is  *)
(* below Mantissa * u is rounded to a multiple of u, a scale or one by one. *)
Nearest(a, b) ==
  LET q == a \div b
      rest == 2 * (a % b)
  IN  IF rest < b \/ (rest = b /\ q % 2 = 0) THEN q ELSE q + 1

Unit(a, b) ==
  CHOOSE u \in Scales : a < Mantissa * u * b /\ \A v \in Scales : a < Mantissa * v * b => u <= v

Steps(a, b) ==
  CHOOSE m \in Scales : a * m < Mantissa * b /\ \A n \in Scales : a * n < Mantissa * b => n <= m

Float(n) == Unit(n, 1) * Nearest(n, Unit(n, 1))

CeilOfQuotient(a, b) ==
  IF a < Mantissa * b
  THEN (Nearest(a * Steps(a, b), b) + Steps(a, b) - 1) \div Steps(a, b)
  ELSE Unit(a, b) * Nearest(a, Unit(a, b) * b)

GetPages(count, limit) == CeilOfQuotient(Float(count), Float(limit))

-----------------------------------------------------------------------------
(* StringsFormat: a text is a sequence of characters.                      *)

FoundAt(text, i, old) == i + Len(old) - 1 <= Len(text) /\ SubSeq(text, i, i + Len(old) - 1) = old

(* Mutant: only the first place is replaced.                               *)
BugReplace(text, old, new) ==
  IF \E i \in DOMAIN text : FoundAt(text, i, old)
  THEN LET i == CHOOSE i \in DOMAIN text :
                  FoundAt(text, i, old) /\ \A j \in 1..(i - 1) : ~FoundAt(text, j, old)
       IN  SubSeq(text, 1, i - 1) \o new \o SubSeq(text, i + Len(old), Len(text))
  ELSE text

(* strings.Replace: from the left, and not in what has been put in.        *)
Replace(text, old, new) ==
  LET from[i \in 1..(Len(text) + 1)] ==
        IF i > Len(text) THEN <<>>
        ELSE IF FoundAt(text, i, old) THEN new \o from[i + Len(old)]
        ELSE <<text[i]>> \o from[i + 1]
  IN  from[1]

Mark(k) == <<"{">> \o k \o <<"}">>

StringsFormat(text, data, order) ==
  LET after[n \in 0..Len(order)] ==
        IF n = 0 THEN text ELSE Replace(after[n - 1], Mark(order[n]), data[order[n]])
  IN  after[Len(order)]

Orders(S) == {order \in [1..Cardinality(S) -> S] : \A k \in S : \E n \in DOMAIN order : order[n] = k}

-----------------------------------------------------------------------------
(* What the calls give, and what is right.                                 *)

Results(call) ==
  CASE call.op = "diff" -> {ArrayDiff(call.first, call.others)}
    [] call.op = "intersect" -> {ArrayIntersect(call.first, call.others)}
    [] call.op = "duplicates" -> {SliceRemoveDuplicate(call.first)}
    [] call.op = "excel" -> {ExcelValueLoc(call.header, call.width, call.cols)}
    [] call.op = "pages" -> {GetPages(call.count, call.limit)}
    [] call.op = "format" ->
         {StringsFormat(call.text, call.data, order) : order \in Orders(DOMAIN call.data)}

Distinct(seq) == \A i, j \in DOMAIN seq : seq[i] = seq[j] => i = j
Union(others) == UNION {ToSet(others[p]) : p \in DOMAIN others}
First(seq, x) == CHOOSE i \in DOMAIN seq : seq[i] = x /\ \A j \in 1..(i - 1) : seq[j] # x

(* The cells r of a row under the wanted columns that the header has, in   *)
(* the order in which they are wanted.                                     *)
IsRow(header, width, cols, r) ==
  \E col \in [DOMAIN r -> DOMAIN cols] :
    /\ \A c \in DOMAIN cols : cols[c] \in ToSet(header) <=> \E i \in DOMAIN r : col[i] = c
    /\ \A i, j \in DOMAIN r : i < j => col[i] < col[j]
    /\ \A i \in DOMAIN r :
         IF \E n \in 1..width : header[n] = cols[col[i]]
         THEN r[i] \in 1..width /\ header[r[i]] = cols[col[i]]
         ELSE r[i] = 0

(* What every list has.                                                    *)
InEvery(first, others) == {x \in ToSet(first) : \A p \in DOMAIN others : x \in ToSet(others[p])}

(* The difference leaves out what any other list has.  The intersection    *)
(* has what every list has, and, if there is one other list, no more (of   *)
(* several it has what any of them has, unlike that of PHP).  The first of *)
(* equal elements stay, in order.  Columns of a header that has no name    *)
(* twice are found in the order in which they are wanted.  The pages are   *)
(* as few as hold all, if no number is too large for a float64.            *)
Right(call, r) ==
  CASE call.op = "diff" -> r = ToSet(call.first) \ Union(call.others)
    [] call.op = "intersect" ->
         /\ InEvery(call.first, call.others) \subseteq r /\ r \subseteq ToSet(call.first)
         /\ Len(call.others) = 1 => r = InEvery(call.first, call.others)
    [] call.op = "duplicates" ->
         /\ Distinct(r) /\ ToSet(r) = ToSet(call.first)
         /\ \A i, j \in DOMAIN r : i < j => First(call.first, r[i]) < First(call.first, r[j])
    [] call.op = "excel" ->
         Distinct(call.header) => IsRow(call.header, call.width, call.cols, r)
    [] call.op = "pages" ->
         (call.count < Mantissa /\ call.limit < Mantissa) =>
           r * call.limit >= call.count /\ (r - 1) * call.limit < call.count

(* A text with all its marks replaced at once.                             *)
Filled(text, data) ==
  LET from[i \in 1..(Len(text) + 1)] ==
        IF i > Len(text) THEN <<>>
        ELSE IF \E k \in DOMAIN data : FoundAt(text, i, Mark(k))
        THEN LET k == CHOOSE k \in DOMAIN data : FoundAt(text, i, Mark(k))
             IN  data[k] \o from[i + Len(Mark(k))]
        ELSE <<text[i]>> \o from[i + 1]
  IN  from[1]

(* No brace is opened before the last one is closed.                       *)
Unnested(text) ==
  \A i, j \in DOMAIN text : (i < j /\ text[i] = "{" /\ text[j] = "{") =>
    \E n \in i..j : text[n] = "}"

(* When no value has a brace, and no braces of the text are nested, every  *)
(* mark is replaced once, in whatever order the map is walked.             *)
FormatRight(call, r) ==
  (Unnested(call.text) /\ \A k \in DOMAIN call.data : ToSet(call.data[k]) \cap {"{", "}"} = {})
    => r = Filled(call.text, call.data)
=============================================================================
