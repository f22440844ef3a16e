----------------------------- MODULE PureCalls ------------------------------
(* The pure functions of Lists, Conversions and DbAccounts as calls: a     *)
(* behaviour is one call on some input, which returns one of its results.  *)
EXTENDS DbAccounts

CONSTANTS Octet, Mantissa, Scales

VARIABLES
  call,   \* the function and its arguments
  returned  \* <<>> before the call has returned, <<r>> after

pureVars == <<call, returned>>

L == INSTANCE Lists
C == INSTANCE Conversions

UpTo(S, n) == UNION {[1..k -> S] : k \in 0..n}

ListCall ==
  LET Short == UpTo(1..3, 2) IN
  \/ \E op \in {"diff", "intersect"} : \E first \in Short : \E others \in UpTo(Short, 2) :
       call = [op |-> op, first |-> first, others |-> others]
  \/ \E first \in UpTo(1..3, 5) : call = [op |-> "duplicates", first |-> first]
  \/ \E header \in UpTo({"a", "b", "c"}, 3) : \E cols \in UpTo({"a", "b", "d"}, 2) :
       \E width \in 0..Len(header) :
         call = [op |-> "excel", header |-> header, width |-> width, cols |-> cols]
  \/ \E count \in 0..40 : \E limit \in 1..10 : call = [op |-> "pages", count |-> count, limit |-> limit]

(* Texts of marks and of braces that stand alone or around them.           *)
FormatCall ==
  LET Piece == {L!Mark(<<"x">>), L!Mark(<<"y">>), <<"{">>, <<"}">>, <<"x">>} IN
  \E pieces \in UpTo(Piece, 3) : \E keys \in SUBSET {<<"x">>, <<"y">>} :
    \E data \in [keys -> {<<>>, <<"y">>, L!Mark(<<"y">>)}] :
      call = [op |-> "format", text |-> FlattenSeq(pieces), data |-> data]

(* Of one to four bytes in UTF-8, of two in GBK, cut off, and none.        *)
Characters ==
  {<<65>>, <<195, 169>>, <<228, 189, 160>>, <<240, 159, 152, 128>>, <<196, 227>>, <<186, 195>>,
   <<228, 189>>, <<>>}

ConversionCall ==
  \/ \E segs \in [1..4 -> 0..(Octet - 1)] : call = [op |-> "ip", segs |-> segs]
  \/ \E s \in UpTo({"plain", "emoji", "escape"}, 3) : call = [op |-> "emoji", s |-> s]
  \/ \E first, second, third, fourth \in Characters :
       call = [op |-> "coding", data |-> first \o second \o third \o fourth]
  \/ \E kind \in C!ErrKind : call = [op |-> "error", kind |-> kind]
  \/ \E now, then \in {0, 1, 29, 30, 31, 59, 60, 61, 89, 90, 91, 119, 120} :
       call = [op |-> "code", now |-> now, then |-> then]

Name == {"oracle", "db2", "mysql", "tidb", "sqlserver", "postgres", "postgresql", "informix",
         "dm", "gbase", "shentong", "oceanbase", "hive", "other"}
Type == [name : Name, lower : BOOLEAN]

AccountCall ==
  \/ \E op \in {"password", "again"} : \E plain \in UpTo(Byte, 4) : call = [op |-> op, plain |-> plain]
  \/ \E type \in Type : \E sid, instance, cluster \in BOOLEAN :
       \E stored \in UpTo(Byte, 1) \cup {Encode(plain) : plain \in UpTo(Byte, 1)} :
         call = [op |-> "account", type |-> type,
                 c |-> [sid |-> sid, instance |-> instance, cluster |-> cluster, stored |-> stored]]
  \/ \E type \in Type :
       \E message \in DOMAIN OracleCodeMap \cup
                      {"network adapter", "Access denied", "Invalid username", "other"} :
         call = [op |-> "dberror", type |-> type, message |-> message]

Init == returned = <<>> /\ (ListCall \/ FormatCall \/ ConversionCall \/ AccountCall)

Lists == call.op \in {"diff", "intersect", "duplicates", "excel", "pages"}
Formats == call.op = "format"
Conversions == call.op \in {"ip", "emoji", "coding", "error", "code"}
Accounts == call.op \in {"password", "again", "account", "dberror"}

Returns(results) == \E r \in results : returned' = <<r>>

Next ==
  /\ returned = <<>>
  /\ \/ (Lists \/ Formats) /\ Returns(L!Results(call))
     \/ Conversions /\ Returns(C!Results(call))
     \/ Accounts /\ Returns(Results(call))
  /\ UNCHANGED call

Spec == Init /\ [][Next]_pureVars

-----------------------------------------------------------------------------
(* Properties: what each call returns is right.                            *)

FormatRight == (Formats /\ returned # <<>>) => L!FormatRight(call, returned[1])
ListsRight == (Lists /\ returned # <<>>) => L!Right(call, returned[1])
ConversionsRight == (Conversions /\ returned # <<>>) => C!Right(call, returned[1])
AccountsRight == (Accounts /\ returned # <<>>) => Right(call, returned[1])
=============================================================================
