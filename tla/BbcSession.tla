----------------------------- MODULE BbcSession -----------------------------
(***************************************************************************)
(* CommonBBC, src/bbc/bbc.go: a client of a service that runs SQL.  The    *)
(* object holds the request, the URL, and what the service has answered;   *)
(* each call changes some of it, and JSON is unmarshalled into what is     *)
(* there: a field that an answer leaves out keeps its old content, and a   *)
(* body that does not parse changes nothing.  Calls are numbered.          *)
(***************************************************************************)
EXTENDS Integers, FiniteSets

CONSTANT MaxCalls  \* bound: the calls of one object

VARIABLES
  bbc,      \* SQL, Type, Class and, as the calls whose answers they
            \* hold content of, Response and Error
  calls,    \* how many calls have asked the service
  cleaned,  \* how many of them came before the last CleanData
  told,     \* the calls whose answers the last call has told its caller
  text      \* the SQL text last handed to the service

bbcVars == <<bbc, calls, cleaned, told, text>>

(* A text: whether the marks of the view's name are in it, its part for    *)
(* global views (on one line or on several), how many comments and "with   *)
(* ur" were appended, and whether it is a select for update.               *)
Texts == [marks : {TRUE}, block : {"none", "line", "lines"}, comments : {0}, ur : {0},
          update : BOOLEAN]

InfoText == [marks |-> FALSE, block |-> "none", comments |-> 0, ur |-> 0, update |-> FALSE]

Init ==
  /\ bbc \in [SQL : Texts, Type : {"db2", "other"}, Class : {"dql", "dml"},
              Response : {{}}, Error : {{}}]
  /\ calls = 0 /\ cleaned = 0 /\ told = {} /\ text = InfoText

-----------------------------------------------------------------------------
(* formatViews.                                                            *)

(* With global views the signs around the part are removed, without them   *)
(* the part is, if it is on one line: the dot of the pattern stops there.  *)
Views(sql, global) ==
  [sql EXCEPT !.marks = FALSE,
              !.block = IF ~global /\ @ = "lines" THEN @ ELSE "none"]

Commented(sql, marked) == IF marked THEN [sql EXCEPT !.comments = @ + 1] ELSE sql

(* Mutant: a text that has "with ur" already gets it again.                *)
BugWithUr(sql, type, class, wanted) ==
  IF type = "db2" /\ class = "dql" /\ wanted /\ ~sql.update
  THEN [sql EXCEPT !.ur = @ + 1] ELSE sql

WithUr(sql, type, class, wanted) ==
  IF type = "db2" /\ class = "dql" /\ wanted /\ ~sql.update /\ sql.ur = 0
  THEN [sql EXCEPT !.ur = @ + 1] ELSE sql

formatViews(b, global, marked, wanted) ==
  [b EXCEPT !.SQL = WithUr(Commented(Views(b.SQL, global), marked), b.Type, b.Class, wanted)]

-----------------------------------------------------------------------------
(* One exchange with the service.                                          *)

(* Code 0: no response, or a body that cannot be read.  The content of a   *)
(* body: all fields, some of them, or no JSON.                             *)
Answers == [code : {0, 200, 500}, body : {"all", "some", "none"}]

(* json.Unmarshal of the answer to call n into what a field holds.         *)
Unmarshal(held, n, a) ==
  CASE a.body = "all" -> {n}
    [] a.body = "some" -> held \cup {n}
    [] a.body = "none" -> held

Received(b, n, a) ==
  IF a.code = 0 THEN b
  ELSE IF a.code = 200 THEN [b EXCEPT !.Response = Unmarshal(@, n, a)]
  ELSE [b EXCEPT !.Error = Unmarshal(@, n, a)]

(* What is told: Response on success, the message of Error on a refusal,   *)
(* an error of the transport otherwise.                                    *)
Tells(b, a) ==
  IF a.code = 0 THEN {} ELSE IF a.code = 200 THEN b.Response ELSE b.Error

Asks(b, a) ==
  /\ calls < MaxCalls /\ calls' = calls + 1
  /\ text' = b.SQL
  /\ bbc' = Received(b, calls + 1, a)

(* DbQuery ignores that a body does not parse, and tells what it held.     *)
DbQuery ==
  /\ \E global, marked, wanted \in BOOLEAN : \E a \in Answers :
       /\ Asks(formatViews(bbc, global, marked, wanted), a)
       /\ told' = Tells(bbc', a)
  /\ UNCHANGED cleaned

(* dbExec does not ignore it.                                              *)
dbExec(b, a) ==
  /\ Asks(b, a)
  /\ told' = IF a.code = 200 /\ a.body = "none" THEN {} ELSE Tells(bbc', a)

(* GetSQLExecuteInfo replaces the request's text and class, executes it,   *)
(* and fails if Error has a message, whichever call has left it there.     *)
GetSQLExecuteInfo ==
  /\ \E a \in Answers :
       LET b == [bbc EXCEPT !.SQL = InfoText, !.Class = "dql"] IN
       \/ dbExec(b, a)
       \/ /\ a.code = 200 /\ a.body # "none" /\ bbc.Error # {}
          /\ Asks(b, a) /\ told' = bbc.Error
  /\ UNCHANGED cleaned

(* ManageDBConnections puts a refusal into Error and returns nil.          *)
ManageDBConnections ==
  \E a \in Answers :
    /\ calls < MaxCalls /\ calls' = calls + 1
    /\ bbc' = IF a.code = 200 THEN bbc ELSE Received(bbc, calls + 1, a)
    /\ told' = {}
    /\ UNCHANGED <<cleaned, text>>

(* The answer goes into fresh variables; no response at all panics.        *)
GetDBConnections ==
  /\ calls < MaxCalls /\ calls' = calls + 1
  /\ told' \in {{}, {calls + 1}}
  /\ UNCHANGED <<bbc, cleaned, text>>

(* The same: an error of the request is dropped, which then panics.        *)
StatsDBProxyConn == GetDBConnections

-----------------------------------------------------------------------------
(* Calls that do not ask.                                                  *)

(* Mutant: the error stays.                                                *)
BugCleanData ==
  /\ bbc' = [bbc EXCEPT !.Response = {}]
  /\ cleaned' = calls /\ told' = {}
  /\ UNCHANGED <<calls, text>>

CleanData ==
  /\ bbc' = [bbc EXCEPT !.Response = {}, !.Error = {}]
  /\ cleaned' = calls /\ told' = {}
  /\ UNCHANGED <<calls, text>>

(* The caller sets a new text and class.                                   *)
NewRequest ==
  /\ \E sql \in Texts : \E class \in {"dql", "dml"} :
       bbc' = [bbc EXCEPT !.SQL = sql, !.Class = class]
  /\ UNCHANGED <<calls, cleaned, told, text>>

Next ==
  \/ DbQuery \/ GetSQLExecuteInfo
  \/ ManageDBConnections \/ GetDBConnections \/ StatsDBProxyConn \/ CleanData \/ NewRequest

Spec == Init /\ [][Next]_bbcVars

-----------------------------------------------------------------------------
(* Properties.                                                             *)

(* Whatever a call tells its caller, in what it returns or in the object's *)
(* fields, the service has answered since the last CleanData: an answer    *)
(* or an error outlives later calls, but not that.                         *)
ToldSinceClean ==
  /\ \A n \in told : n > cleaned
  /\ bbc.Response \cup bbc.Error \subseteq (cleaned + 1)..calls

(* The texts handed to the service have no marks and no one-line part for  *)
(* global views, and "with ur" at most once and never for update, however  *)
(* often one request is repeated and commented.                            *)
TextsAreWhole ==
  /\ ~text.marks /\ text.block # "line"
  /\ text.ur <= 1 /\ (text.update => text.ur = 0)
=============================================================================
