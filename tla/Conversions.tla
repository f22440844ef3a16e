---------------------------- MODULE Conversions -----------------------------
(***************************************************************************)
(* Conversions there and back: addresses and emoji (src/utils/utils.go),   *)
(* the coding of a text (src/utils/format/format.go), the status of an     *)
(* error (src/bbtty/guac/errors.go and status.go), and one-time codes      *)
(* (src/bbGoogleAuth/auth.go).                                             *)
(***************************************************************************)
EXTENDS Integers, Sequences, FiniteSets, SequencesExt

CONSTANT Octet  \* the values of one part of an address, 256 in the code

-----------------------------------------------------------------------------
(* An address of four parts, each in range, so that + is the code's |.     *)

Weight == <<Octet * Octet * Octet, Octet * Octet, Octet, 1>>

StringIpToInt(segs) ==
  segs[1] * Weight[1] + segs[2] * Weight[2] + segs[3] * Weight[3] + segs[4] * Weight[4]

IpIntToString(n) == [i \in 1..4 |-> (n \div Weight[i]) % Octet]

-----------------------------------------------------------------------------
(* Emoji: the runes of four bytes and the escapes [\u...] in brackets.     *)

UnicodeEmojiCode(s) == [i \in DOMAIN s |-> IF s[i] = "emoji" THEN "escape" ELSE s[i]]
UnicodeEmojiDecode(s) == [i \in DOMAIN s |-> IF s[i] = "escape" THEN "emoji" ELSE s[i]]

-----------------------------------------------------------------------------
(* The coding of bytes.  Reading past the end panics.                      *)

(* preNUm: the ones that a byte begins with.                               *)
Ones == <<128, 192, 224, 240, 248, 252, 254, 255>>
preNUm(byte) == Cardinality({k \in 1..8 : byte >= Ones[k]})

Continues(byte) == byte \in 128..191

(* The loops go over the bytes, each turn over a character that is         *)
(* recognised: where the one stands that is not, or behind the end.        *)
Stops(data, next) ==
  LET at[n \in 0..Len(data)] == IF n = 0 THEN 1 ELSE next[at[n - 1]]
  IN  at[Len(data)]

(* A character of two bytes is not recognised.                             *)
Utf8Bytes(data, i) ==
  IF i > Len(data) THEN 0
  ELSE IF data[i] < 128 THEN 1
  ELSE LET num == preNUm(data[i]) IN
       IF num > 2 /\ \A k \in (i + 1)..(i + num - 1) : k <= Len(data) /\ Continues(data[k])
       THEN num ELSE 0

(* Not a first byte of three or more, or one that is not followed by a     *)
(* byte that continues it.                                                 *)
isUtf8(data) ==
  LET i == Stops(data, [n \in 1..(Len(data) + 1) |-> n + Utf8Bytes(data, n)]) IN
  IF i > Len(data) THEN "yes"
  ELSE IF \/ preNUm(data[i]) <= 2
          \/ \E k \in (i + 1)..(i + preNUm(data[i]) - 1) : k <= Len(data) /\ ~Continues(data[k])
  THEN "no" ELSE "panic"

GbkBytes(data, i) ==
  IF i > Len(data) THEN 0
  ELSE IF data[i] < 128 THEN 1
  ELSE IF data[i] \in 129..254 /\ i < Len(data) /\ data[i + 1] \in (64..254) \ {247} THEN 2 ELSE 0

isGBK(data) ==
  LET i == Stops(data, [n \in 1..(Len(data) + 1) |-> n + GbkBytes(data, n)]) IN
  IF i > Len(data) THEN "yes"
  ELSE IF data[i] \in 129..254 /\ i = Len(data) THEN "panic" ELSE "no"

GetStrCoding(data) ==
  CASE isUtf8(data) = "yes" -> "UTF8"
    [] isUtf8(data) = "panic" -> "panic"
    [] isUtf8(data) = "no" ->
         CASE isGBK(data) = "yes" -> "GBK"
           [] isGBK(data) = "panic" -> "panic"
           [] isGBK(data) = "no" -> "UNKNOWN"

-----------------------------------------------------------------------------
(* The status of an error and its number in the protocol.                  *)

ErrKind ==
  {"ClientBadType", "Client", "ClientOverrun", "ClientTimeout", "ClientTooMany",
   "ConnectionClosed", "Other", "ResourceClosed", "ResourceConflict", "ResourceNotFound",
   "Security", "ServerBusy", "Server", "SessionClosed", "SessionConflict", "SessionTimeout",
   "Unauthorized", "Unsupported", "Upstream", "UpstreamNotFound", "UpstreamTimeout",
   "UpstreamUnavailable"}

(* Most kinds have the name of their status.                               *)
StatusOf(kind) ==
  CASE kind \in {"ConnectionClosed", "Other", "Server"} -> "ServerError"
    [] kind = "Client" -> "ClientBadRequest"
    [] kind = "Security" -> "ClientForbidden"
    [] kind = "Unauthorized" -> "ClientUnauthorized"
    [] kind = "Upstream" -> "UpstreamError"
    [] OTHER -> kind

(* guacamoleStatusMap: the statuses and their codes in the protocol.       *)
GuacCode ==
  [Success |-> 0, Unsupported |-> 256, ServerError |-> 512, ServerBusy |-> 513,
   UpstreamTimeout |-> 514, UpstreamError |-> 515, ResourceNotFound |-> 516,
   ResourceConflict |-> 517, ResourceClosed |-> 518, UpstreamNotFound |-> 519,
   UpstreamUnavailable |-> 520, SessionConflict |-> 521, SessionTimeout |-> 522,
   SessionClosed |-> 523, ClientBadRequest |-> 768, ClientUnauthorized |-> 769,
   ClientForbidden |-> 771, ClientTimeout |-> 776, ClientOverrun |-> 781,
   ClientBadType |-> 783, ClientTooMany |-> 797]

Undefined == "Undefined"

(* Mutant: the code of another status.                                     *)
BugCode(status) == IF status = "SessionClosed" THEN GuacCode.SessionTimeout ELSE GuacCode[status]

GetGuacamoleStatusCode(status) == GuacCode[status]

(* Any status with the code, as the map has no order.                      *)
FromGuacamoleStatusCode(code) ==
  LET found == {s \in DOMAIN GuacCode : GetGuacamoleStatusCode(s) = code} IN
  IF found = {} THEN {Undefined} ELSE found

-----------------------------------------------------------------------------
(* One-time codes: the code of an interval of 30 seconds is the interval's *)
(* number (the hash is external; two intervals may share a code by chance).*)

oneTimePassword(interval) == interval

(* Division of Go rounds towards zero.                                     *)
Quotient(a, b) == IF a >= 0 THEN a \div b ELSE -((-a) \div b)

getCode(now) == {oneTimePassword(Quotient(now + d, 30)) : d \in {0, 30, -30}}

VerifyCode(now, code) == code \in getCode(now)

-----------------------------------------------------------------------------
(* What the calls give, and what is right.                                 *)

Results(call) ==
  CASE call.op = "ip" -> {IpIntToString(StringIpToInt(call.segs))}
    [] call.op = "emoji" -> {UnicodeEmojiDecode(UnicodeEmojiCode(call.s))}
    [] call.op = "coding" -> {GetStrCoding(call.data)}
    [] call.op = "error" -> FromGuacamoleStatusCode(GetGuacamoleStatusCode(StatusOf(call.kind)))
    [] call.op = "code" -> {VerifyCode(call.now, oneTimePassword(Quotient(call.then, 30)))}

(* The characters of a text: where each is and the bytes it has.           *)
Ascii(data) == {<<i, 1>> : i \in {i \in DOMAIN data : data[i] < 128}}

Utf8(data) ==
  {c \in (DOMAIN data) \X {3, 4} :
     /\ data[c[1]] \in IF c[2] = 3 THEN 224..239 ELSE 240..247
     /\ \A j \in (c[1] + 1)..(c[1] + c[2] - 1) : j \in DOMAIN data /\ Continues(data[j])}

Gbk(data) ==
  {<<i, 2>> : i \in {i \in 1..(Len(data) - 1) :
                      data[i] \in 129..223 /\ data[i + 1] \in (64..254) \ {247}}}

(* Characters follow each other from the first byte to the last.           *)
Covers(chars, data) ==
  LET end == Len(data) + 1 IN
  /\ 1 \in {c[1] : c \in chars} \cup {end}
  /\ \A c \in chars : c[1] + c[2] \in {d[1] : d \in chars} \cup {end}

IsText(data, chars) == \E text \in SUBSET chars : Covers(text, data)

(* An address and a text without escapes come back; whole characters of    *)
(* one, three or four bytes are UTF8, and Chinese in GBK whose first bytes *)
(* begin no longer character is GBK; the status of an error survives its   *)
(* number; a code is accepted for 30 seconds before and after its interval *)
(* shows it, and refused from 60 seconds on.                               *)
Right(call, r) ==
  CASE call.op = "ip" -> r = call.segs
    [] call.op = "emoji" -> "escape" \notin ToSet(call.s) => r = call.s
    [] call.op = "coding" ->
         /\ IsText(call.data, Ascii(call.data) \cup Utf8(call.data)) => r = "UTF8"
         /\ \A text \in SUBSET (Ascii(call.data) \cup Gbk(call.data)) :
              (Covers(text, call.data) /\ ~(text \subseteq Ascii(call.data))) => r = "GBK"
    [] call.op = "error" -> r = StatusOf(call.kind) /\ r \in DOMAIN GuacCode
    [] call.op = "code" ->
         LET apart == IF call.now > call.then THEN call.now - call.then ELSE call.then - call.now IN
         /\ apart <= 30 => r
         /\ (apart >= 60 /\ call.now >= 30) => ~r
=============================================================================
