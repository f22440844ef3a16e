----------------------------- MODULE DbAccounts -----------------------------
(***************************************************************************)
(* What a request of src/bbc/bbc.go says of its database: the password,    *)
(* which src/utils/encryption/encryption.go has stored, the user and the   *)
(* URL, made in one way for requests (getQueryURL) and in another for      *)
(* connections (src/bbc/jdbc_url.go); and the codes of database errors.    *)
(*                                                                         *)
(* A text is a sequence of bytes, a byte two halves, and each half has a   *)
(* digit, which is a byte again.  The cipher is external, a permutation of *)
(* the blocks, one after the other.                                        *)
(***************************************************************************)
EXTENDS Integers, Sequences, SequencesExt

CONSTANTS
  BlockSize,     \* the bytes of a block, 8 in the code
  HexDigit,      \* the digits of the halves from zero on, 16 in the code
  HexValue,      \* the half that each byte which may stand for one does
  EncryptBlock,  \* the cipher
  DecryptBlock

Base == Len(HexDigit)
Byte == 0..(Base * Base - 1)
Block == [1..BlockSize -> Byte]

(* What holds of DES and of hexadecimal digits, which may be capitals.     *)
CodingIsSound ==
  /\ BlockSize \in Nat \ {0}
  /\ HexDigit \in Seq(Byte) /\ Base # 0
  /\ \A d \in DOMAIN HexDigit : HexDigit[d] \in DOMAIN HexValue /\ HexValue[HexDigit[d]] = d - 1
  /\ \A b \in DOMAIN HexValue : HexValue[b] \in 0..(Base - 1)
  /\ EncryptBlock \in [Block -> Block] /\ DecryptBlock \in [Block -> Block]
  /\ \A b \in Block : DecryptBlock[EncryptBlock[b]] = b

-----------------------------------------------------------------------------
(* encryption.go.                                                          *)

ToHex(text) ==
  [i \in 1..(2 * Len(text)) |->
     LET byte == text[(i + 1) \div 2] IN
     HexDigit[1 + (IF i % 2 = 1 THEN byte \div Base ELSE byte % Base)]]

FromHex(text) ==
  [n \in 1..(Len(text) \div 2) |-> Base * HexValue[text[2 * n - 1]] + HexValue[text[2 * n]]]

(* Each block of a text of whole blocks by itself.                         *)
BlockAt(text, n) == [j \in 1..BlockSize |-> text[BlockSize * n + j]]

OnBlocks(cipher, text) ==
  [i \in 1..Len(text) |->
     cipher[BlockAt(text, (i - 1) \div BlockSize)][((i - 1) % BlockSize) + 1]]

(* At least one byte, a whole block if the text fills its last one.        *)
ZeroPadding(text) == text \o [i \in 1..(BlockSize - (Len(text) % BlockSize)) |-> 0]

(* Mutant: zeros are not taken off.                                        *)
BugUnPadding(text) == text

(* Zeros are taken off at both ends.                                       *)
ZeroUnPadding(text) ==
  LET kept == {i \in DOMAIN text : text[i] # 0} IN
  IF kept = {} THEN <<>>
  ELSE SubSeq(text, CHOOSE i \in kept : \A j \in kept : i <= j,
                    CHOOSE i \in kept : \A j \in kept : i >= j)

Encode(text) == ToHex(OnBlocks(EncryptBlock, ZeroPadding(text)))

(* The texts that Decode gives no error for.                               *)
Decodable(text) ==
  /\ \A i \in DOMAIN text : text[i] \in DOMAIN HexValue
  /\ Len(text) % (2 * BlockSize) = 0

Decode(text) == ZeroUnPadding(OnBlocks(DecryptBlock, FromHex(text)))

EncodeWithCheck(text) == IF Decodable(text) THEN text ELSE Encode(text)
PasswordDecode(text) == IF Decodable(text) THEN Decode(text) ELSE text

-----------------------------------------------------------------------------
(* A type of database is a name in some spelling.  The URLs are made of    *)
(* strings.ToLower of it, everything else compares it as it is.            *)
ToLower(type) == type.name
Lower(name) == [name |-> name, lower |-> TRUE]

(* The URLs: a scheme, how address and name are written, what follows.     *)

Url(scheme, form, tail) == [scheme |-> scheme, form |-> form, tail |-> tail]
Slash(scheme) == Url(scheme, "//ip:port/name", "none")
NoUrl == Url("none", "none", "none")

SqlServer(c) ==
  IF c.instance THEN Url("sqlserver", "//ip:port", "instance") ELSE Url("sqlserver", "//ip:port", "none")

Oracle(c) == IF c.sid THEN Url("oracle", "ip:port:name", "none") ELSE Slash("oracle")

getQueryURL(type, c) ==
  LET name == ToLower(type) IN
  CASE name = "oracle" -> Oracle(c)
    [] name \in {"mysql", "tidb"} -> Url("mysql", "//ip:port/name", "encoding")
    [] name = "sqlserver" -> SqlServer(c)
    [] name \in {"postgres", "postgresql"} -> Slash("postgresql")
    [] name = "informix" -> Url("informix-sqli", "//ip:port/name", ":encoding")
    [] name = "shentong" -> Slash("oscar")
    [] name = "oceanbase" -> Url("oceanbase", "//ip:port/name", "encoding")
    [] name \in {"db2", "dm", "gbase", "hive"} -> Slash(name)
    [] OTHER -> NoUrl

getJDBCUrl(type, c) ==
  LET name == ToLower(type) IN
  CASE name = "oracle" /\ ~c.sid -> Slash("oracle")
    [] name = "oracle" /\ c.sid -> Url("oracle", "ip:port:name", "none")
    [] name = "db2" -> Url("db2", "//ip:port/name", "timeout")
    [] name = "mysql" -> Url("mysql", "//ip:port/name", "encoding")
    [] name = "sqlserver" -> SqlServer(c)
    [] name \in {"postgres", "postgresql"} -> Slash("postgresql")
    [] name = "informix" -> Url("informix-sqli", "//ip:port/name", ":encoding")
    [] name = "shentong" -> Slash("oscar")
    [] name = "oceanbase" -> Url("oceanbase", "//ip:port/name", "encoding")
    [] name \in {"dm", "gbase", "hive"} -> Slash(name)
    [] OTHER -> NoUrl

(* GetQueryData: the user of oceanbase has node and cluster, if the type   *)
(* is spelled like that; the password is what Decode gives, if it gives    *)
(* something.                                                              *)
GetQueryData(type, c) ==
  [type |-> IF type = Lower("tidb") THEN Lower("mysql") ELSE type,
   user |-> IF type = Lower("oceanbase") /\ c.cluster THEN "user@node#cluster" ELSE "user",
   password |-> IF Decodable(c.stored) /\ Decode(c.stored) # <<>> THEN Decode(c.stored) ELSE c.stored,
   url |-> getQueryURL(type, c)]

-----------------------------------------------------------------------------
(* CatchErrorCode: a message has the text of the network adapter, the      *)
(* number of a known or unknown error of oracle, or a text of another      *)
(* database.                                                               *)

OracleCodeMap ==
  [ORA12514 |-> "ErrDBServiceName", ORA01045 |-> "ErrDBUserPrivilege", ORA01017 |-> "ErrDBUserAuth",
   ORA28000 |-> "ErrDBUserLocked", ORA00257 |-> "ErrDBArchiver"]

CatchErrorCode(type, message) ==
  CASE type = Lower("oracle") /\ message = "network adapter" -> "ErrDBConnectFailed"
    [] type = Lower("oracle") /\ message \in DOMAIN OracleCodeMap -> OracleCodeMap[message]
    [] type = Lower("mysql") -> IF message = "Access denied" THEN "ErrDBUserAuth" ELSE "ErrDBConnectTimeout"
    [] type = Lower("dm") -> IF message = "Invalid username" THEN "ErrDBUserAuth" ELSE "ErrDBConnectTimeout"
    [] OTHER -> "ErrUnDefineError"

-----------------------------------------------------------------------------
(* What the calls give, and what is right.                                 *)

Results(call) ==
  CASE call.op = "password" -> {PasswordDecode(EncodeWithCheck(call.plain))}
    [] call.op = "again" -> {EncodeWithCheck(EncodeWithCheck(call.plain))}
    [] call.op = "account" ->
         {GetQueryData(call.type, [call.c EXCEPT !.stored = EncodeWithCheck(@)])}
    [] call.op = "dberror" -> {CatchErrorCode(call.type, call.message)}

Unpadded(text) == text = <<>> \/ (text[1] # 0 /\ text[Len(text)] # 0)

AuthMessage == [oracle |-> "ORA01017", mysql |-> "Access denied", dm |-> "Invalid username"]

(* A password that neither begins nor ends with a zero byte and is not     *)
(* itself a text in blocks of hexadecimal digits comes back, also through  *)
(* a request; one that has been encoded is not encoded again.  The two     *)
(* ways to make a URL agree, in every spelling, but for db2 and tidb; in   *)
(* small letters the request's type is mysql if its URL is, and a refused  *)
(* login has one code in every database.                                   *)
Right(call, r) ==
  CASE call.op = "password" -> (Unpadded(call.plain) /\ ~Decodable(call.plain)) => r = call.plain
    [] call.op = "again" -> r = EncodeWithCheck(call.plain)
    [] call.op = "account" ->
         /\ (Unpadded(call.c.stored) /\ ~Decodable(call.c.stored)) => r.password = call.c.stored
         /\ call.type.name \notin {"db2", "tidb"} => r.url = getJDBCUrl(call.type, call.c)
         /\ call.type.lower => (r.type = Lower("mysql") <=> r.url.scheme = "mysql")
    [] call.op = "dberror" ->
         \A name \in DOMAIN AuthMessage :
           (call.type = Lower(name) /\ call.message = AuthMessage[name]) => r = "ErrDBUserAuth"
=============================================================================
