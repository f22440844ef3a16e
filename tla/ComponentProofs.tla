--------------------------- MODULE ComponentProofs ---------------------------
(***************************************************************************)
(* Proofs about the components that stand alone, each for its own          *)
(* specification: ProgressMap, LocalProcess, SshHelper, SshClients,        *)
(* BbcSession, ChannelShell and EsLog, for any number of goroutines, keys, *)
(* calls, portions of output and logs; and about the calls of PureCalls:   *)
(* for passwords of any length and every cipher that CodingIsSound allows  *)
(* (DbAccounts), for lists of any length and numbers of any size (Lists;   *)
(* its StringsFormat is left to the model checker), and for                *)
(* addresses of any size, bytes of any number and any time (Conversions).  *)
(***************************************************************************)
EXTENDS MCComponents, FiniteSetTheorems, SequenceTheorems, TLAPS

-----------------------------------------------------------------------------
(* LocalProcess.  The channel ptyClosed is closed by the goroutine that    *)
(* has seen the program's end and closed the pty; Close waits for it.      *)

ProcessInv ==
  /\ closer \in [Closer -> {"out", "signal", "select", "returned"}]
  /\ waits \in {"wait", "close", "done"} /\ ptyClosed \in BOOLEAN
  /\ waits # "wait" => program = "exited" /\ ~ptyOpen
  /\ ptyClosed => waits = "done"
  /\ \A c \in Closer : closer[c] = "returned" => ptyClosed

(* Every step keeps the invariant of LocalProcess.                          *)
LEMMA ProcessStep == ProcessInv /\ [Local!Next]_Local!vars => ProcessInv'
<1> SUFFICES ASSUME ProcessInv, [Local!Next]_Local!vars PROVE ProcessInv'
  OBVIOUS
<1> USE DEF ProcessInv
<1>1. CASE Local!Exit
  BY <1>1 DEF Local!Exit, Local!pty, Local!closers
<1>2. CASE Local!WaitReturns
  BY <1>2 DEF Local!WaitReturns, Local!proc, Local!closers
<1>3. CASE Local!CloseChan
  BY <1>3 DEF Local!CloseChan, Local!proc, Local!closers
<1>4. ASSUME NEW c \in Closer, Local!ClosePty(c) PROVE ProcessInv'
  BY <1>4 DEF Local!ClosePty, Local!CloseAt, Local!proc
<1>5. ASSUME NEW c \in Closer, Local!Signal(c) PROVE ProcessInv'
  BY <1>5 DEF Local!Signal, Local!CloseAt, Local!proc, Local!pty
<1>6. ASSUME NEW c \in Closer, Local!TimeOut(c) PROVE ProcessInv'
  BY <1>6 DEF Local!TimeOut, Local!pty
<1>7. ASSUME NEW c \in Closer, Local!Return(c) PROVE ProcessInv'
  BY <1>7 DEF Local!Return, Local!CloseAt, Local!proc, Local!pty
<1>8. CASE Local!SetCloseTimeout \/ Local!Tick \/ UNCHANGED Local!vars
  BY <1>8 DEF Local!SetCloseTimeout, Local!Tick, Local!vars, Local!proc, Local!pty, Local!closers
<1> QED
  BY <1>1, <1>2, <1>3, <1>4, <1>5, <1>6, <1>7, <1>8 DEF Local!Next, Local!Closing

(* A Close returns only when the program is gone, its pty closed on this   *)
(* side and the channel closed, whichever goroutine came first.            *)
THEOREM ClosesWhenGone == Local!Spec => []Local!ReturnsWhenGone
<1>1. Local!Init => ProcessInv
  BY DEF Local!Init, ProcessInv
<1>2. ProcessInv => Local!ReturnsWhenGone
  BY DEF ProcessInv, Local!ReturnsWhenGone
<1> QED
  BY <1>1, <1>2, ProcessStep, PTL DEF Local!Spec

-----------------------------------------------------------------------------
(* SshHelper.  A call that is still to dial has not made its connection.   *)

HelperInv ==
  /\ made \in Nat /\ connects \in Nat /\ client \in Nat
  /\ at \in {"out", "dial", "session"}
  /\ made <= connects
  /\ at = "dial" => made < connects
  /\ at = "session" => client # 0
  /\ (at = "out" /\ result = "ok") => (client # 0 /\ session = client)

(* Every step keeps the invariant of SshHelper.                             *)
LEMMA HelperStep == HelperInv /\ [Helper!Next]_Helper!sshVars => HelperInv'
<1> SUFFICES ASSUME HelperInv, [Helper!Next]_Helper!sshVars PROVE HelperInv'
  OBVIOUS
<1> USE DEF HelperInv, Helper!None
<1>1. CASE Helper!SetConnect
  BY <1>1 DEF Helper!SetConnect
<1>2. CASE Helper!DialFails
  BY <1>2 DEF Helper!DialFails, Helper!Again
<1>3. CASE Helper!Dials
  BY <1>3 DEF Helper!Dials
<1>4. CASE Helper!SessionFails
  BY <1>4 DEF Helper!SessionFails, Helper!Again
<1>5. CASE Helper!NewSession
  BY <1>5 DEF Helper!NewSession
<1>6. CASE Helper!CombinedOutput
  BY <1>6 DEF Helper!CombinedOutput
<1>7. CASE Helper!Run
  BY <1>7 DEF Helper!Run
<1>8. CASE Helper!Close
  BY <1>8 DEF Helper!Close
<1>9. CASE UNCHANGED Helper!sshVars
  BY <1>9 DEF Helper!sshVars
<1> QED
  BY <1>1, <1>2, <1>3, <1>4, <1>5, <1>6, <1>7, <1>8, <1>9 DEF Helper!Next

(* However often the dial and the session are tried again, a call of       *)
(* SetConnect makes one connection at most, and one that returned nil      *)
(* leaves a session of the connection that Close closes.                   *)
THEOREM OneConnectionEach == Helper!Spec => []Helper!RetriesKeepOne
<1>1. Helper!Init => HelperInv
  BY DEF Helper!Init, HelperInv, Helper!None
<1>2. HelperInv => Helper!RetriesKeepOne
  BY DEF HelperInv, Helper!RetriesKeepOne, Helper!None
<1> QED
  BY <1>1, <1>2, HelperStep, PTL DEF Helper!Spec

-----------------------------------------------------------------------------
(* SshClients.  What a caller has and is still to register is nobody       *)
(* else's; what it has otherwise is registered under its key, or nowhere.  *)

Callers == [pc : {"out", "dial", "make", "add", "has"}, key : Key \cup {"none"}, has : Nat]

Holds(c) == caller[c].pc \in {"add", "has"}

OwnToAdd(c) ==
  /\ \A k \in Key : sessions[k] # caller[c].has
  /\ \A d \in Caller : (d # c /\ Holds(d)) => caller[d].has # caller[c].has

ClientsInv ==
  /\ sessions \in [Key -> Nat] /\ opened \in Nat
  /\ caller \in [Caller -> Callers]
  /\ \A c \in Caller : Holds(c) => caller[c].has \in 1..opened
  /\ \A k \in Key : sessions[k] \in 0..opened /\ (sessions[k] # 0 => k # "none")
  /\ \A c \in Caller : caller[c].pc = "add" => OwnToAdd(c)
  /\ \A c \in Caller : caller[c].pc = "has" =>
       \A k \in Key : sessions[k] = caller[c].has => caller[c].key = k
  /\ Clients!SharedAreRegistered

(* Every step keeps the invariant of SshClients.                            *)
LEMMA ClientsStep == ClientsInv /\ [Clients!Next]_Clients!registryVars => ClientsInv'
<1> SUFFICES ASSUME ClientsInv, [Clients!Next]_Clients!registryVars PROVE ClientsInv'
  OBVIOUS
<1> USE DEF ClientsInv, Callers, Holds, OwnToAdd, Clients!SharedAreRegistered, Clients!Goes,
            Clients!At, Clients!Out, Clients!NoKey, Clients!NoSession
<1>1. ASSUME NEW c \in Caller, Clients!GetClient(c) PROVE ClientsInv'
  BY <1>1 DEF Clients!GetClient
<1>2. ASSUME NEW c \in Caller, Clients!Dial(c) PROVE ClientsInv'
  BY <1>2 DEF Clients!Dial
<1>3. ASSUME NEW c \in Caller, Clients!GetLogicSshWsSession(c) PROVE ClientsInv'
  BY <1>3 DEF Clients!GetLogicSshWsSession
<1>4. ASSUME NEW c \in Caller, Clients!Make(c) PROVE ClientsInv'
  BY <1>4 DEF Clients!Make
<1>5. ASSUME NEW c \in Caller, Clients!AddLogicSshWsSession(c) PROVE ClientsInv'
  BY <1>5 DEF Clients!AddLogicSshWsSession
<1>6. ASSUME NEW c \in Caller, Clients!Leaves(c) PROVE ClientsInv'
  BY <1>6 DEF Clients!Leaves
<1>7. ASSUME NEW k \in Key, Clients!AutoRecycle(k) PROVE ClientsInv'
  BY <1>7 DEF Clients!AutoRecycle
<1>8. CASE UNCHANGED Clients!registryVars
  BY <1>8 DEF Clients!registryVars
<1> QED
  BY <1>1, <1>2, <1>3, <1>4, <1>5, <1>6, <1>7, <1>8 DEF Clients!Next

(* Two callers that hold one session have both asked for the key it is     *)
(* registered under, whoever lost a race to register its own.              *)
THEOREM SharedByKey == Clients!Spec => []Clients!SharedAreRegistered
<1>1. Clients!Init => ClientsInv
  BY DEF Clients!Init, Clients!Out, Clients!NoKey, Clients!NoSession, ClientsInv, Callers, Holds,
         OwnToAdd, Clients!SharedAreRegistered, Clients!At
<1>2. ClientsInv => Clients!SharedAreRegistered
  BY DEF ClientsInv
<1> QED
  BY <1>1, <1>2, ClientsStep, PTL DEF Clients!Spec

-----------------------------------------------------------------------------
(* BbcSession.                                                             *)

SqlTexts ==
  [marks : BOOLEAN, block : {"none", "line", "lines"}, comments : Nat, ur : {0, 1},
   update : BOOLEAN]

(* "with ur" is never in a text for update.                                *)
Whole(sql) == sql \in SqlTexts /\ (sql.update => sql.ur = 0)

Objects ==
  [SQL : SqlTexts, Type : {"db2", "other"}, Class : {"dql", "dml"},
   Response : SUBSET Nat, Error : SUBSET Nat]

BbcInv ==
  /\ bbc \in Objects /\ calls \in Nat /\ cleaned \in Nat /\ cleaned <= calls
  /\ Whole(bbc.SQL)
  /\ bbc.Response \subseteq (cleaned + 1)..calls
  /\ bbc.Error \subseteq (cleaned + 1)..calls
  /\ told \subseteq (cleaned + 1)..calls
  /\ Bbc!TextsAreWhole

(* A text that has been formatted is whole, and can be handed over.        *)
LEMMA Formatted ==
  ASSUME NEW b \in Objects, Whole(b.SQL), NEW global \in BOOLEAN, NEW marked \in BOOLEAN,
         NEW wanted \in BOOLEAN
  PROVE  LET f == Bbc!formatViews(b, global, marked, wanted) IN
         /\ f \in Objects /\ Whole(f.SQL)
         /\ ~f.SQL.marks /\ f.SQL.block # "line"
         /\ f.Response = b.Response /\ f.Error = b.Error
<1> DEFINE v == Bbc!Views(b.SQL, global)
           c == Bbc!Commented(v, marked)
           u == Bbc!WithUr(c, b.Type, b.Class, wanted)
<1>1. b.SQL \in SqlTexts
  BY DEF Objects
<1>2. Whole(v) /\ ~v.marks /\ v.block # "line"
  BY <1>1 DEF Whole, SqlTexts, Bbc!Views
<1> HIDE DEF v
<1>3. Whole(c) /\ ~c.marks /\ c.block # "line"
  BY <1>2 DEF Whole, SqlTexts, Bbc!Commented
<1> HIDE DEF c
<1>4. Whole(u) /\ ~u.marks /\ u.block # "line"
  BY <1>3 DEF Whole, SqlTexts, Bbc!WithUr
<1> HIDE DEF u
<1>5. Bbc!formatViews(b, global, marked, wanted) = [b EXCEPT !.SQL = u]
  BY DEF Bbc!formatViews, u, c, v
<1> QED
  BY <1>4, <1>5 DEF Objects, Whole

(* What an exchange leaves in the object, and may tell, was answered since *)
(* the last CleanData.                                                     *)
LEMMA Asked ==
  ASSUME BbcInv, NEW b \in Objects, Whole(b.SQL), NEW a \in Bbc!Answers, Bbc!Asks(b, a),
         b.Response = bbc.Response, b.Error = bbc.Error, cleaned' = cleaned
  PROVE  /\ bbc' \in Objects /\ Whole(bbc'.SQL) /\ calls' = calls + 1 /\ text' = b.SQL
         /\ bbc'.Response \subseteq (cleaned + 1)..(calls + 1)
         /\ bbc'.Error \subseteq (cleaned + 1)..(calls + 1)
         /\ Bbc!Tells(bbc', a) \subseteq (cleaned + 1)..(calls + 1)
<1> DEFINE Since == (cleaned + 1)..(calls + 1)
<1>1. /\ calls \in Nat /\ cleaned \in Nat /\ cleaned <= calls
      /\ b.Response \subseteq Since /\ b.Error \subseteq Since
      /\ calls + 1 \in Since /\ Since \subseteq Nat
  BY DEF BbcInv
<1>2. calls' = calls + 1 /\ text' = b.SQL /\ bbc' = Bbc!Received(b, calls + 1, a)
  BY DEF Bbc!Asks
<1> HIDE DEF Since
<1>3. \A held : held \subseteq Since => Bbc!Unmarshal(held, calls + 1, a) \subseteq Since
  BY <1>1 DEF Bbc!Unmarshal, Bbc!Answers
<1>4. \/ bbc' = b
      \/ bbc' = [b EXCEPT !.Response = Bbc!Unmarshal(b.Response, calls + 1, a)]
      \/ bbc' = [b EXCEPT !.Error = Bbc!Unmarshal(b.Error, calls + 1, a)]
  BY <1>2 DEF Bbc!Received
<1>5. /\ bbc' \in Objects /\ bbc'.SQL = b.SQL
      /\ bbc'.Response \subseteq Since /\ bbc'.Error \subseteq Since
  BY <1>1, <1>3, <1>4 DEF Objects
<1>6. Bbc!Tells(bbc', a) \subseteq Since
  BY <1>5 DEF Bbc!Tells
<1> QED
  BY <1>2, <1>5, <1>6 DEF Since

LEMMA TextsBegin ==
  ASSUME NEW sql \in Bbc!Texts
  PROVE  Whole(sql)
<1>1. \E bl \in {"none", "line", "lines"}, up \in BOOLEAN :
        sql = [marks |-> TRUE, block |-> bl, comments |-> 0, ur |-> 0, update |-> up]
  BY Zenon DEF Bbc!Texts
<1> QED
  BY <1>1 DEF Whole, SqlTexts

(* Every step keeps the invariant of BbcSession.                            *)
LEMMA BbcStep == BbcInv /\ [Bbc!Next]_Bbc!bbcVars => BbcInv'
<1> SUFFICES ASSUME BbcInv, [Bbc!Next]_Bbc!bbcVars PROVE BbcInv'
  OBVIOUS
<1>1. /\ bbc \in Objects /\ Whole(bbc.SQL) /\ calls \in Nat /\ cleaned \in Nat
      /\ cleaned <= calls
      /\ bbc.Response \subseteq (cleaned + 1)..calls
      /\ bbc.Error \subseteq (cleaned + 1)..calls
      /\ told \subseteq (cleaned + 1)..calls
      /\ Bbc!TextsAreWhole
  BY DEF BbcInv
(* A step that asks with a whole text, and tells of what the object holds. *)
<1>2. ASSUME NEW b \in Objects, Whole(b.SQL), NEW a \in Bbc!Answers, Bbc!Asks(b, a),
             ~b.SQL.marks, b.SQL.block # "line",
             b.Response = bbc.Response, b.Error = bbc.Error, cleaned' = cleaned,
             \/ told' = {} \/ told' = Bbc!Tells(bbc', a) \/ told' = bbc.Error
      PROVE  BbcInv'
  <2>1. /\ bbc' \in Objects /\ Whole(bbc'.SQL) /\ calls' = calls + 1 /\ text' = b.SQL
        /\ bbc'.Response \subseteq (cleaned + 1)..(calls + 1)
        /\ bbc'.Error \subseteq (cleaned + 1)..(calls + 1)
        /\ Bbc!Tells(bbc', a) \subseteq (cleaned + 1)..(calls + 1)
    BY <1>2, Asked
  <2>2. told' \subseteq (cleaned + 1)..(calls + 1)
    BY <1>1, <1>2, <2>1
  <2>3. Bbc!TextsAreWhole'
    BY <1>2, <2>1 DEF Bbc!TextsAreWhole, Whole, SqlTexts
  <2> QED
    BY <1>1, <1>2, <2>1, <2>2, <2>3 DEF BbcInv
<1>3. CASE Bbc!DbQuery
  <2>1. PICK global \in BOOLEAN, marked \in BOOLEAN, wanted \in BOOLEAN, a \in Bbc!Answers :
          /\ Bbc!Asks(Bbc!formatViews(bbc, global, marked, wanted), a)
          /\ told' = Bbc!Tells(bbc', a)
    BY <1>3 DEF Bbc!DbQuery
  <2>2. cleaned' = cleaned
    BY <1>3 DEF Bbc!DbQuery
  <2> DEFINE f == Bbc!formatViews(bbc, global, marked, wanted)
  <2>3. /\ f \in Objects /\ Whole(f.SQL) /\ ~f.SQL.marks /\ f.SQL.block # "line"
        /\ f.Response = bbc.Response /\ f.Error = bbc.Error
    BY <1>1, Formatted
  <2>4. Bbc!Asks(f, a) /\ told' = Bbc!Tells(bbc', a)
    BY <2>1
  <2> HIDE DEF f
  <2> QED
    BY <1>2, <2>2, <2>3, <2>4
<1>4. CASE Bbc!GetSQLExecuteInfo
  <2> DEFINE b == [bbc EXCEPT !.SQL = Bbc!InfoText, !.Class = "dql"]
  <2>1. PICK a \in Bbc!Answers : /\ Bbc!Asks(b, a)
                                 /\ \/ told' = {} \/ told' = Bbc!Tells(bbc', a)
                                    \/ told' = bbc.Error
    BY <1>4 DEF Bbc!GetSQLExecuteInfo, Bbc!dbExec
  <2>2. cleaned' = cleaned
    BY <1>4 DEF Bbc!GetSQLExecuteInfo
  <2>3. /\ b \in Objects /\ Whole(b.SQL) /\ ~b.SQL.marks /\ b.SQL.block # "line"
        /\ b.Response = bbc.Response /\ b.Error = bbc.Error
    BY <1>1 DEF Objects, Whole, SqlTexts, Bbc!InfoText
  <2> HIDE DEF b
  <2> QED
    BY <1>2, <2>1, <2>2, <2>3
<1>5. CASE Bbc!ManageDBConnections
  <2>1. PICK a \in Bbc!Answers :
          /\ calls' = calls + 1 /\ told' = {} /\ UNCHANGED <<cleaned, text>>
          /\ \/ bbc' = bbc
             \/ bbc' = [bbc EXCEPT !.Error = Bbc!Unmarshal(bbc.Error, calls + 1, a)]
    BY <1>5 DEF Bbc!ManageDBConnections, Bbc!Received
  <2>2. Bbc!Unmarshal(bbc.Error, calls + 1, a) \subseteq (cleaned + 1)..(calls + 1)
    BY <1>1 DEF Bbc!Unmarshal, Bbc!Answers
  <2>3. /\ bbc' \in Objects /\ bbc'.SQL = bbc.SQL
        /\ bbc'.Response \subseteq (cleaned + 1)..(calls + 1)
        /\ bbc'.Error \subseteq (cleaned + 1)..(calls + 1)
    BY <1>1, <2>1, <2>2 DEF Objects
  <2>4. Bbc!TextsAreWhole'
    BY <1>1, <2>1 DEF Bbc!TextsAreWhole
  <2> QED
    BY <1>1, <2>1, <2>3, <2>4 DEF BbcInv
<1>6. CASE Bbc!GetDBConnections \/ Bbc!StatsDBProxyConn
  <2>1. /\ calls' = calls + 1 /\ told' \in {{}, {calls + 1}}
        /\ UNCHANGED <<bbc, cleaned, text>>
    BY <1>6 DEF Bbc!GetDBConnections, Bbc!StatsDBProxyConn
  <2>2. Bbc!TextsAreWhole'
    BY <1>1, <2>1 DEF Bbc!TextsAreWhole
  <2> QED
    BY <1>1, <2>1, <2>2 DEF BbcInv
<1>7. CASE Bbc!CleanData
  <2>1. /\ bbc' = [bbc EXCEPT !.Response = {}, !.Error = {}]
        /\ cleaned' = calls /\ told' = {} /\ UNCHANGED <<calls, text>>
    BY <1>7 DEF Bbc!CleanData
  <2>2. /\ bbc' \in Objects /\ bbc'.SQL = bbc.SQL
        /\ bbc'.Response = {} /\ bbc'.Error = {}
    BY <1>1, <2>1 DEF Objects
  <2>3. Bbc!TextsAreWhole'
    BY <1>1, <2>1 DEF Bbc!TextsAreWhole
  <2> QED
    BY <1>1, <2>1, <2>2, <2>3 DEF BbcInv
<1>8. CASE Bbc!NewRequest
  <2>1. PICK sql \in Bbc!Texts, class \in {"dql", "dml"} :
          bbc' = [bbc EXCEPT !.SQL = sql, !.Class = class]
    BY <1>8 DEF Bbc!NewRequest
  <2>2. UNCHANGED <<calls, cleaned, told, text>>
    BY <1>8 DEF Bbc!NewRequest
  <2>3. Whole(sql)
    BY TextsBegin
  <2>4. /\ bbc' \in Objects /\ bbc'.SQL = sql
        /\ bbc'.Response = bbc.Response /\ bbc'.Error = bbc.Error
    BY <1>1, <2>1, <2>3 DEF Objects, Whole
  <2>5. Bbc!TextsAreWhole'
    BY <1>1, <2>2 DEF Bbc!TextsAreWhole
  <2> QED
    BY <1>1, <2>2, <2>3, <2>4, <2>5 DEF BbcInv
<1>9. CASE UNCHANGED Bbc!bbcVars
  BY <1>1, <1>9 DEF Bbc!bbcVars, BbcInv, Bbc!TextsAreWhole
<1> QED
  BY <1>3, <1>4, <1>5, <1>6, <1>7, <1>8, <1>9 DEF Bbc!Next

(* It holds at the beginning.                                               *)
LEMMA BbcBegins == Bbc!Init => BbcInv
<1> SUFFICES ASSUME Bbc!Init PROVE BbcInv
  OBVIOUS
<1>1. bbc.SQL \in Bbc!Texts
  BY DEF Bbc!Init
<1>2. Whole(bbc.SQL)
  BY <1>1, TextsBegin
<1>3. bbc \in Objects /\ bbc.Response = {} /\ bbc.Error = {}
  BY <1>2 DEF Bbc!Init, Objects, Whole
<1>4. Bbc!TextsAreWhole
  BY DEF Bbc!Init, Bbc!TextsAreWhole, Bbc!InfoText
<1> QED
  BY <1>2, <1>3, <1>4 DEF Bbc!Init, BbcInv

(* Whatever a call tells, the service has answered since the last          *)
(* CleanData, though answers may leave fields out or not parse.            *)
THEOREM ToldAnswers == Bbc!Spec => []Bbc!ToldSinceClean
<1>1. BbcInv => Bbc!ToldSinceClean
  BY DEF BbcInv, Bbc!ToldSinceClean
<1> QED
  BY <1>1, BbcBegins, BbcStep, PTL DEF Bbc!Spec

(* However often a request is repeated and commented, the text handed to   *)
(* the service has no marks, no one-line part for global views, and        *)
(* "with ur" once at most and never for update.                            *)
THEOREM TextsStayWhole == Bbc!Spec => []Bbc!TextsAreWhole
<1>1. BbcInv => Bbc!TextsAreWhole
  BY DEF BbcInv
<1> QED
  BY <1>1, BbcBegins, BbcStep, PTL DEF Bbc!Spec

-----------------------------------------------------------------------------
(* ProgressMap.                                                            *)

Counts == [1..3 -> Nat]

Reports ==
  [pc : {"out", "load", "read", "write", "store", "unlock"}, cell : Nat, field : 1..3, v : Nat]

(* A call that writes holds the mutex, in a slice that exists, and has     *)
(* read what the counter still is; one that is to store has added 1.       *)
Counted(w) ==
  LET report == worker[w] IN
  /\ report.pc # "out" => mux
  /\ report.pc \in {"read", "write", "store"} => report.cell \in 1..Len(cells)
  /\ report.pc = "write" => report.v = cells[report.cell][report.field]

Exact ==
  \A n \in 1..Len(cells) : \A f \in 1..3 :
    cells[n][f] = added[n][f] + Progress!UnderWay(n, f)

ProgressInv ==
  /\ cells \in Seq(Counts) /\ added \in Seq(Counts) /\ Len(added) = Len(cells)
  /\ entry \in 0..Len(cells) /\ mux \in BOOLEAN
  /\ worker \in [Worker -> Reports]
  /\ \A w \in Worker : Counted(w)
  /\ \A w, u \in Worker : worker[w].pc # "out" /\ worker[u].pc # "out" => w = u
  /\ Exact

(* A step of one worker that writes no counter and does not end at, or     *)
(* start from, where a call has written and is to store.                   *)
LEMMA ReportMoves ==
  ASSUME ProgressInv, NEW w \in Worker, NEW to \in Reports,
         worker' = [worker EXCEPT ![w] = to], UNCHANGED <<cells, added, entry>>,
         mux' \in BOOLEAN, mux' = (to.pc # "out"),
         worker[w].pc # "out" \/ ~mux,
         worker[w].pc # "store", to.pc # "store",
         to.pc \in {"read", "write"} => to.cell \in 1..Len(cells),
         to.pc = "write" => to.v = cells[to.cell][to.field]
  PROVE  ProgressInv'
<1>1. /\ worker \in [Worker -> Reports]
      /\ \A u \in Worker : Counted(u)
      /\ \A u \in Worker : u # w => worker[u].pc = "out"
  BY DEF ProgressInv, Counted
<1>2. worker' \in [Worker -> Reports] /\ worker'[w] = to
      /\ \A u \in Worker : u # w => worker'[u] = worker[u]
  BY <1>1
<1>3. \A u \in Worker : Counted(u)'
  BY <1>1, <1>2 DEF Counted
<1>4. \A n, f : Progress!UnderWay(n, f)' = Progress!UnderWay(n, f)
  BY <1>1, <1>2 DEF Progress!UnderWay, Progress!At
<1>5. Exact'
  BY <1>4 DEF ProgressInv, Exact
<1>6. \A u, v \in Worker : worker'[u].pc # "out" /\ worker'[v].pc # "out" => u = v
  BY <1>1, <1>2
<1> QED
  BY <1>2, <1>3, <1>5, <1>6 DEF ProgressInv

LEMMA ZeroCounts == <<0, 0, 0>> \in Counts /\ \A f \in 1..3 : <<0, 0, 0>>[f] = 0
BY DEF Counts

(* A new slice: nothing is added to it, and no call has it.                *)
LEMMA ResetCounts ==
  ASSUME ProgressInv, Progress!Reset
  PROVE  ProgressInv'
<1> DEFINE N == Len(cells)
<1>1. /\ N \in Nat /\ cells \in Seq(Counts) /\ added \in Seq(Counts) /\ Len(added) = N
      /\ \A u \in Worker : Counted(u)
  BY DEF ProgressInv
<1>2. /\ cells' = Append(cells, <<0, 0, 0>>) /\ added' = Append(added, <<0, 0, 0>>)
      /\ entry' = N + 1 /\ mux' = mux /\ worker' = worker
  BY DEF Progress!Reset
<1>3. /\ cells' \in Seq(Counts) /\ added' \in Seq(Counts)
      /\ Len(cells') = N + 1 /\ Len(added') = N + 1
      /\ \A n \in 1..N : cells'[n] = cells[n] /\ added'[n] = added[n]
      /\ cells'[N + 1] = <<0, 0, 0>> /\ added'[N + 1] = <<0, 0, 0>>
  BY <1>1, <1>2, ZeroCounts
<1> HIDE DEF N
<1>4. \A u \in Worker : Counted(u)'
  BY <1>1, <1>2, <1>3 DEF Counted, N
<1>5. \A n, f : Progress!UnderWay(n, f)' = Progress!UnderWay(n, f)
  BY <1>2 DEF Progress!UnderWay, Progress!At
<1>6. \A f \in 1..3 : Progress!UnderWay(N + 1, f) = 0
  BY <1>1 DEF Progress!UnderWay, Progress!At, Counted, N
<1>7. ASSUME NEW n \in 1..(N + 1), NEW f \in 1..3
      PROVE  cells'[n][f] = added'[n][f] + Progress!UnderWay(n, f)'
  <2>1. CASE n \in 1..N
    BY <1>3, <1>5, <2>1 DEF ProgressInv, Exact, N
  <2>2. CASE n = N + 1
    BY <1>3, <1>5, <1>6, <2>2, ZeroCounts
  <2> QED
    BY <1>1, <2>1, <2>2
<1>8. Exact'
  BY <1>3, <1>7 DEF Exact
<1> QED
  BY <1>1, <1>2, <1>3, <1>4, <1>8 DEF ProgressInv

(* While a call is under way, it is the only one.                          *)
LEMMA OnlyCall ==
  ASSUME ProgressInv, NEW w \in Worker, worker[w].pc # "out"
  PROVE  /\ worker[w] \in Reports /\ mux
         /\ \A u \in Worker : u # w => worker[u].pc = "out"
         /\ \A n, f : Progress!UnderWay(n, f) =
              IF worker[w].pc = "store" /\ worker[w].cell = n /\ worker[w].field = f
              THEN 1 ELSE 0
<1>1. /\ worker[w] \in Reports /\ mux
      /\ \A u \in Worker : u # w => worker[u].pc = "out"
  BY DEF ProgressInv, Counted
<1> QED
  BY <1>1 DEF Progress!UnderWay, Progress!At

(* An Add that writes changes the counter of its slice, and a Store counts *)
(* it.                                                                     *)
LEMMA WriteCounts ==
  ASSUME ProgressInv, NEW w \in Worker, Progress!Write(w)
  PROVE  ProgressInv'
<1> DEFINE report == worker[w]
           n == report.cell
           g == report.field
           to == [report EXCEPT !.pc = "store"]
<1>1. /\ report.pc = "write" /\ report \in Reports
      /\ \A u \in Worker : u # w => worker[u].pc = "out"
      /\ \A m, f : Progress!UnderWay(m, f) = 0
      /\ mux
  BY OnlyCall DEF Progress!Write, Progress!At
<1>2. /\ n \in 1..Len(cells) /\ g \in 1..3 /\ report.v = cells[n][g] /\ report.v \in Nat
  BY <1>1 DEF ProgressInv, Counted, Reports
<1>3. /\ cells \in Seq(Counts) /\ added \in Seq(Counts) /\ Len(added) = Len(cells)
      /\ worker \in [Worker -> Reports]
  BY DEF ProgressInv
<1>4. /\ cells' = [cells EXCEPT ![n] = [cells[n] EXCEPT ![g] = report.v + 1]]
      /\ worker' = [worker EXCEPT ![w] = to]
      /\ UNCHANGED <<entry, added, mux>>
  BY DEF Progress!Write, Progress!Goes
<1>5. /\ to \in Reports /\ worker'[w] = to /\ worker' \in [Worker -> Reports]
      /\ to.pc = "store" /\ to.cell = n /\ to.field = g
      /\ \A u \in Worker : u # w => worker'[u] = worker[u]
  BY <1>1, <1>3, <1>4 DEF Reports
<1>6. cells[n] \in Counts
  BY <1>2, <1>3
<1> HIDE DEF to, n, g, report
<1>7. [cells[n] EXCEPT ![g] = report.v + 1] \in Counts
  BY <1>2, <1>6 DEF Counts
<1>8. /\ cells' \in Seq(Counts) /\ Len(cells') = Len(cells)
      /\ \A m \in 1..Len(cells) :
           cells'[m] = IF m = n THEN [cells[n] EXCEPT ![g] = report.v + 1] ELSE cells[m]
  BY <1>2, <1>3, <1>4, <1>7
<1>9. \A m, f : Progress!UnderWay(m, f)' = IF m = n /\ f = g THEN 1 ELSE 0
  BY <1>1, <1>5 DEF Progress!UnderWay, Progress!At
<1>10. ASSUME NEW m \in 1..Len(cells), NEW f \in 1..3
       PROVE  cells'[m][f] = added'[m][f] + Progress!UnderWay(m, f)'
  <2>1. cells[m][f] = added[m][f] /\ added[m][f] \in Nat
    <3>1. cells[m][f] = added[m][f] + 0
      BY <1>1 DEF ProgressInv, Exact
    <3>2. added[m] \in Counts
      BY <1>3
    <3> QED
      BY <3>1, <3>2 DEF Counts
  <2>2. CASE m = n /\ f = g
    <3>1. cells'[m][f] = report.v + 1
      BY <1>2, <1>6, <1>8, <2>2 DEF Counts
    <3> QED
      BY <1>2, <1>4, <1>9, <2>1, <2>2, <3>1
  <2>3. CASE ~(m = n /\ f = g)
    <3>1. cells'[m][f] = cells[m][f]
      BY <1>6, <1>8, <2>3 DEF Counts
    <3> QED
      BY <1>4, <1>9, <2>1, <2>3, <3>1
  <2> QED
    BY <2>2, <2>3
<1>11. Exact'
  BY <1>8, <1>10 DEF Exact
<1>12. \A u \in Worker : Counted(u)'
  BY <1>1, <1>2, <1>4, <1>5, <1>8 DEF Counted
<1>13. \A u, v \in Worker : worker'[u].pc # "out" /\ worker'[v].pc # "out" => u = v
  BY <1>1, <1>5
<1> QED
  BY <1>3, <1>4, <1>5, <1>8, <1>11, <1>12, <1>13 DEF ProgressInv

LEMMA StoreCounts ==
  ASSUME ProgressInv, NEW w \in Worker, Progress!Store(w)
  PROVE  ProgressInv'
<1> DEFINE report == worker[w]
           n == report.cell
           g == report.field
           to == Progress!Call("unlock", 0, 1, 0)
<1>1. /\ report.pc = "store" /\ report \in Reports
      /\ \A u \in Worker : u # w => worker[u].pc = "out"
      /\ \A m, f : Progress!UnderWay(m, f) = IF n = m /\ g = f THEN 1 ELSE 0
      /\ mux
  BY OnlyCall DEF Progress!Store, Progress!At
<1>2. n \in 1..Len(cells) /\ g \in 1..3
  BY <1>1 DEF ProgressInv, Counted, Reports
<1>3. /\ cells \in Seq(Counts) /\ added \in Seq(Counts) /\ Len(added) = Len(cells)
      /\ worker \in [Worker -> Reports]
  BY DEF ProgressInv
<1>4. /\ added' = [added EXCEPT ![n] = [added[n] EXCEPT ![g] = added[n][g] + 1]]
      /\ worker' = [worker EXCEPT ![w] = to]
      /\ entry' = n /\ UNCHANGED <<cells, mux>>
  BY DEF Progress!Store, Progress!Goes, Progress!NoCell
<1>5. /\ to \in Reports /\ worker'[w] = to /\ worker' \in [Worker -> Reports]
      /\ to.pc = "unlock"
      /\ \A u \in Worker : u # w => worker'[u] = worker[u]
  BY <1>1, <1>3, <1>4 DEF Reports, Progress!Call
<1>6. added[n] \in Counts
  BY <1>2, <1>3
<1> HIDE DEF to, n, g, report
<1>7. [added[n] EXCEPT ![g] = added[n][g] + 1] \in Counts
  BY <1>2, <1>6 DEF Counts
<1>8. /\ added' \in Seq(Counts) /\ Len(added') = Len(cells)
      /\ \A m \in 1..Len(cells) :
           added'[m] = IF m = n THEN [added[n] EXCEPT ![g] = added[n][g] + 1] ELSE added[m]
  BY <1>2, <1>3, <1>4, <1>7
<1>9. \A m, f : Progress!UnderWay(m, f)' = 0
  BY <1>1, <1>5 DEF Progress!UnderWay, Progress!At
<1>10. ASSUME NEW m \in 1..Len(cells), NEW f \in 1..3
       PROVE  cells'[m][f] = added'[m][f] + Progress!UnderWay(m, f)'
  <2>1. /\ cells[m][f] = added[m][f] + (IF n = m /\ g = f THEN 1 ELSE 0)
        /\ added[m][f] \in Nat
    <3>1. cells[m][f] = added[m][f] + (IF n = m /\ g = f THEN 1 ELSE 0)
      BY <1>1 DEF ProgressInv, Exact
    <3>2. added[m] \in Counts
      BY <1>3
    <3> QED
      BY <3>1, <3>2 DEF Counts
  <2>2. CASE m = n /\ f = g
    <3>1. added'[m][f] = added[m][f] + 1
      BY <1>2, <1>6, <1>8, <2>2 DEF Counts
    <3> QED
      BY <1>4, <1>9, <2>1, <2>2, <3>1
  <2>3. CASE ~(m = n /\ f = g)
    <3>1. added'[m][f] = added[m][f]
      BY <1>6, <1>8, <2>3 DEF Counts
    <3> QED
      BY <1>4, <1>9, <2>1, <2>3, <3>1
  <2> QED
    BY <2>2, <2>3
<1>11. Exact'
  BY <1>4, <1>10 DEF Exact
<1>12. \A u \in Worker : Counted(u)'
  BY <1>1, <1>4, <1>5 DEF Counted
<1>13. \A u, v \in Worker : worker'[u].pc # "out" /\ worker'[v].pc # "out" => u = v
  BY <1>1, <1>5
<1> QED
  BY <1>2, <1>3, <1>4, <1>5, <1>8, <1>11, <1>12, <1>13 DEF ProgressInv

(* Every step keeps the invariant of ProgressMap.                           *)
LEMMA ProgressStep == ProgressInv /\ [Progress!Next]_Progress!mapVars => ProgressInv'
<1> SUFFICES ASSUME ProgressInv, [Progress!Next]_Progress!mapVars PROVE ProgressInv'
  OBVIOUS
<1>1. CASE Progress!Reset
  BY <1>1, ResetCounts
<1>2. CASE Progress!Delete \/ UNCHANGED Progress!mapVars
  <2>1. entry' \in 0..Len(cells)
    BY <1>2 DEF ProgressInv, Progress!Delete, Progress!NoCell, Progress!mapVars, Progress!shared
  <2>2. UNCHANGED <<cells, added, mux, worker>>
    BY <1>2 DEF Progress!Delete, Progress!mapVars, Progress!shared
  <2> QED
    BY <2>1, <2>2 DEF ProgressInv, Counted, Exact, Progress!UnderWay, Progress!At
<1>3. ASSUME NEW w \in Worker, Progress!Lock(w) PROVE ProgressInv'
  <2>1. PICK f \in 1..3 : worker' = [worker EXCEPT ![w] = Progress!Call("load", 0, f, 0)]
    BY <1>3 DEF Progress!Lock, Progress!Goes, Progress!Field, Progress!NoCell
  <2>2. Progress!Call("load", 0, f, 0) \in Reports /\ Progress!Call("load", 0, f, 0).pc = "load"
    BY DEF Reports, Progress!Call
  <2>3. worker[w].pc = "out" /\ ~mux /\ mux' = TRUE /\ UNCHANGED <<cells, added, entry>>
    BY <1>3 DEF Progress!Lock, Progress!At
  <2> QED
    BY <2>1, <2>2, <2>3, ReportMoves
<1>4. ASSUME NEW w \in Worker, Progress!Load(w) PROVE ProgressInv'
  <2>1. /\ worker[w].pc = "load" /\ worker[w] \in Reports /\ mux = TRUE
        /\ UNCHANGED <<cells, added, entry, mux>>
    BY <1>4, OnlyCall DEF Progress!Load, Progress!At, Progress!shared, ProgressInv
  <2>2. \E to \in Reports : /\ worker' = [worker EXCEPT ![w] = to]
                            /\ to.pc \in {"read", "load", "unlock"}
                            /\ to.pc = "read" => to.cell \in 1..Len(cells)
    <3>1. CASE entry # 0
      <4>1. worker' = [worker EXCEPT ![w] = Progress!Call("read", entry, worker[w].field, 0)]
        BY <1>4, <3>1 DEF Progress!Load, Progress!Goes, Progress!NoCell
      <4> DEFINE to == Progress!Call("read", entry, worker[w].field, 0)
      <4>2. entry \in 1..Len(cells) /\ entry \in Nat /\ worker[w].field \in 1..3
        BY <2>1, <3>1 DEF Reports, ProgressInv
      <4>3. to \in Reports /\ to.pc = "read" /\ to.cell \in 1..Len(cells)
        BY <4>2 DEF Progress!Call, Reports
      <4> HIDE DEF to
      <4> QED
        BY <4>1, <4>3 DEF to
    <3>2. CASE entry = 0 /\ worker[w].v = 2
      <4>1. worker' = [worker EXCEPT ![w] = Progress!Call("unlock", 0, 1, 0)]
        BY <1>4, <3>2 DEF Progress!Load, Progress!Goes, Progress!NoCell
      <4> DEFINE to == Progress!Call("unlock", 0, 1, 0)
      <4>2. to \in Reports /\ to.pc = "unlock"
        BY DEF Progress!Call, Reports
      <4> HIDE DEF to
      <4> QED
        BY <4>1, <4>2 DEF to
    <3>3. CASE entry = 0 /\ worker[w].v # 2
      <4>1. worker' = [worker EXCEPT ![w] = [worker[w] EXCEPT !.v = worker[w].v + 1]]
        BY <1>4, <3>3 DEF Progress!Load, Progress!Goes, Progress!NoCell
      <4> DEFINE to == [worker[w] EXCEPT !.v = worker[w].v + 1]
      <4>2. to \in Reports /\ to.pc = "load"
        BY <2>1 DEF Reports
      <4> HIDE DEF to
      <4> QED
        BY <4>1, <4>2 DEF to
    <3> QED
      BY <3>1, <3>2, <3>3
  <2> QED
    BY <2>1, <2>2, ReportMoves
<1>5. ASSUME NEW w \in Worker, Progress!Read(w) PROVE ProgressInv'
  <2> DEFINE report == worker[w]
             cell == cells[report.cell]
             to == [pc |-> "write", cell |-> report.cell, field |-> report.field,
                    v |-> cell[report.field]]
  <2>1. /\ report.pc = "read" /\ report \in Reports /\ mux = TRUE
        /\ UNCHANGED <<cells, added, entry, mux>>
    BY <1>5, OnlyCall DEF Progress!Read, Progress!At, Progress!shared, ProgressInv
  <2>2. report.cell \in 1..Len(cells) /\ report.field \in 1..3
    BY <2>1 DEF ProgressInv, Counted, Reports
  <2>3. cell \in Counts
    BY <2>2 DEF ProgressInv
  <2>4. to \in Reports
    <3> HIDE DEF cell
    <3> QED
      BY <2>1, <2>2, <2>3 DEF Reports, Counts
  <2>5. \/ worker' = [worker EXCEPT ![w] = Progress!Call("unlock", 0, 1, 0)]
        \/ worker' = [worker EXCEPT ![w] = to]
    BY <1>5, <2>1 DEF Progress!Read, Progress!Goes, Progress!NoCell, Reports
  <2>6. /\ Progress!Call("unlock", 0, 1, 0) \in Reports
        /\ Progress!Call("unlock", 0, 1, 0).pc = "unlock"
    BY DEF Reports, Progress!Call
  <2> QED
    BY <2>1, <2>2, <2>4, <2>5, <2>6, ReportMoves
<1>6. ASSUME NEW w \in Worker, Progress!Write(w) PROVE ProgressInv'
  BY <1>6, WriteCounts
<1>7. ASSUME NEW w \in Worker, Progress!Store(w) PROVE ProgressInv'
  BY <1>7, StoreCounts
<1>8. ASSUME NEW w \in Worker, Progress!Unlock(w) PROVE ProgressInv'
  <2>1. Progress!NoCall \in Reports /\ Progress!NoCall.pc = "out"
    BY DEF Reports, Progress!NoCall, Progress!Call, Progress!NoCell
  <2>2. /\ worker[w].pc = "unlock" /\ mux' = FALSE /\ UNCHANGED <<cells, added, entry>>
        /\ worker' = [worker EXCEPT ![w] = Progress!NoCall]
    BY <1>8 DEF Progress!Unlock, Progress!At, Progress!Goes
  <2> QED
    BY <2>1, <2>2, ReportMoves
<1> QED
  BY <1>1, <1>2, <1>3, <1>4, <1>5, <1>6, <1>7, <1>8 DEF Progress!Next, Progress!InCall

(* No report of progress is lost: whatever is stored, reset or deleted     *)
(* between the steps of an Add, every counter of every slice is the number *)
(* of calls that have added to it.                                         *)
THEOREM ReportsKept == Progress!Spec => []Progress!CountsKept
<1>1. Progress!Init => ProgressInv
  <2> SUFFICES ASSUME Progress!Init PROVE ProgressInv
    OBVIOUS
  <2>1. /\ cells = <<>> /\ added = <<>> /\ entry = 0 /\ mux = FALSE
        /\ worker = [w \in Worker |-> Progress!NoCall]
    BY DEF Progress!Init, Progress!NoCell
  <2>2. Progress!NoCall \in Reports /\ Progress!NoCall.pc = "out"
    BY DEF Reports, Progress!NoCall, Progress!Call, Progress!NoCell
  <2>3. \A w \in Worker : Counted(w)
    BY <2>1, <2>2 DEF Counted
  <2>4. Exact
    BY <2>1 DEF Exact
  <2>5. cells \in Seq(Counts) /\ added \in Seq(Counts) /\ Len(cells) = 0 /\ Len(added) = 0
    BY <2>1
  <2>6. worker \in [Worker -> Reports] /\ \A w \in Worker : worker[w].pc = "out"
    BY <2>1, <2>2
  <2>7. entry \in 0..0
    BY <2>1
  <2>8. mux \in BOOLEAN
    BY <2>1, Zenon
  <2> QED
    BY <2>3, <2>4, <2>5, <2>6, <2>7, <2>8 DEF ProgressInv
<1>2. ProgressInv => Progress!CountsKept
  BY DEF ProgressInv, Exact, Progress!CountsKept, Progress!Field
<1> QED
  BY <1>1, <1>2, ProgressStep, PTL DEF Progress!Spec
-----------------------------------------------------------------------------
(* ChannelShell.  The output that has not been read is a run of portions   *)
(* up to the last one written; what the consumer has or is about to get    *)
(* comes before it, if the shell is local, and without a portion that is   *)
(* out of order in any case.                                               *)

Messages == [copy : Seq(Nat), n : Nat]

(* What the consumer got, g, with the message m that is on its way, whose  *)
(* portions may lie in the array a.                                        *)
Seen(g, m, a) == g \o (m.copy \o SubSeq(a, 1, m.n))

(* b is the last portions of those up to p.                                *)
Latest(b, p) == Len(b) <= p /\ \A n \in 1..Len(b) : b[n] = p - Len(b) + n

(* The portions of b, of those up to p, may be seen after the ones of s.   *)
Fresh(b, s, p) ==
  /\ \A m, n \in DOMAIN s : m < n => s[m] <= s[n] \/ \E k \in 1..(m - 1) : s[k] = s[n]
  /\ \A m \in DOMAIN s : s[m] <= p
  /\ \A n \in 1..Len(b) : (\E m \in DOMAIN s : s[m] = b[n]) \/ \A m \in DOMAIN s : s[m] < b[n]

Numbered(s) == \A n \in DOMAIN s : s[n] = n

LEMMA AppendIs ==
  ASSUME NEW b \in Seq(Nat), NEW p \in Nat
  PROVE  /\ Append(b, p) \in Seq(Nat) /\ Len(b) \in Nat /\ Len(Append(b, p)) = Len(b) + 1
         /\ Append(b, p)[Len(b) + 1] = p
         /\ \A n \in 1..Len(b) : Append(b, p)[n] = b[n]
OBVIOUS

LEMMA ConcatIs ==
  ASSUME NEW s \in Seq(Nat), NEW t \in Seq(Nat)
  PROVE  /\ s \o t \in Seq(Nat) /\ Len(s) \in Nat /\ Len(t) \in Nat
         /\ DOMAIN s = 1..Len(s) /\ DOMAIN t = 1..Len(t)
         /\ DOMAIN (s \o t) = 1..(Len(s) + Len(t)) /\ Len(s \o t) = Len(s) + Len(t)
         /\ \A n \in 1..Len(s) : (s \o t)[n] = s[n]
         /\ \A n \in 1..Len(t) : (s \o t)[Len(s) + n] = t[n]
OBVIOUS

LEMMA PartIs ==
  ASSUME NEW s \in Seq(Nat), NEW m \in Nat, NEW n \in Nat, n <= Len(s)
  PROVE  /\ SubSeq(s, m + 1, n) \in Seq(Nat)
         /\ m <= n => Len(SubSeq(s, m + 1, n)) = n - m
         /\ m > n => Len(SubSeq(s, m + 1, n)) = 0
         /\ \A k \in 1..(n - m) : SubSeq(s, m + 1, n)[k] = s[m + k]
OBVIOUS

LEMMA SameSequences ==
  ASSUME NEW s \in Seq(Nat), NEW t \in Seq(Nat), Len(s) = Len(t),
         \A n \in 1..Len(s) : s[n] = t[n]
  PROVE  s = t
OBVIOUS

(* Output that is appended, to what there is in the array or elsewhere.    *)
LEMMA LatestAppend ==
  ASSUME NEW b \in Seq(Nat), NEW p \in Nat, Latest(b, p)
  PROVE  Latest(Append(b, p + 1), p + 1)
<1> DEFINE k == Len(b)
           c == Append(b, p + 1)
<1>1. /\ k \in Nat /\ Len(c) = k + 1 /\ c[k + 1] = p + 1 /\ \A n \in 1..k : c[n] = b[n]
  BY AppendIs
<1>2. k <= p /\ \A n \in 1..k : b[n] = p - k + n
  BY DEF Latest
<1> HIDE DEF k, c
<1>3. ASSUME NEW n \in 1..(k + 1) PROVE c[n] = (p + 1) - (k + 1) + n
  <2>1. CASE n \in 1..k
    BY <1>1, <1>2, <2>1
  <2>2. CASE n = k + 1
    BY <1>1, <2>2
  <2> QED
    BY <1>1, <2>1, <2>2
<1>4. Latest(c, p + 1)
  BY <1>1, <1>2, <1>3 DEF Latest
<1> QED
  BY <1>4 DEF c

LEMMA FreshAppend ==
  ASSUME NEW b \in Seq(Nat), NEW s \in Seq(Nat), NEW p \in Nat, Fresh(b, s, p)
  PROVE  Fresh(Append(b, p + 1), s, p + 1)
<1> DEFINE k == Len(b)
           c == Append(b, p + 1)
<1>1. /\ k \in Nat /\ Len(c) = k + 1 /\ c[k + 1] = p + 1 /\ \A n \in 1..k : c[n] = b[n]
  BY AppendIs
<1>2. /\ \A m, n \in DOMAIN s : m < n => s[m] <= s[n] \/ \E l \in 1..(m - 1) : s[l] = s[n]
      /\ \A m \in DOMAIN s : s[m] <= p /\ s[m] \in Nat
      /\ \A n \in 1..k : (\E m \in DOMAIN s : s[m] = b[n]) \/ \A m \in DOMAIN s : s[m] < b[n]
  BY DEF Fresh
<1> HIDE DEF k, c
<1>3. \A m \in DOMAIN s : s[m] <= p + 1 /\ s[m] < p + 1
  BY <1>2
<1>4. ASSUME NEW n \in 1..(k + 1)
      PROVE  (\E m \in DOMAIN s : s[m] = c[n]) \/ \A m \in DOMAIN s : s[m] < c[n]
  <2>1. CASE n \in 1..k
    BY <1>1, <1>2, <2>1
  <2>2. CASE n = k + 1
    BY <1>1, <1>3, <2>2
  <2> QED
    BY <1>1, <2>1, <2>2
<1>5. Fresh(c, s, p + 1)
  BY <1>1, <1>2, <1>3, <1>4 DEF Fresh
<1> QED
  BY <1>5 DEF c

(* All there is is taken.                                                  *)
LEMMA FreshTaken ==
  ASSUME NEW b \in Seq(Nat), NEW s \in Seq(Nat), NEW p \in Nat, Latest(b, p), Fresh(b, s, p)
  PROVE  Fresh(b, s \o b, p)
<1> DEFINE j == Len(s)
           k == Len(b)
           u == s \o b
<1>1. /\ j \in Nat /\ k \in Nat /\ DOMAIN s = 1..j /\ DOMAIN u = 1..(j + k)
      /\ \A n \in 1..j : u[n] = s[n]
      /\ \A n \in 1..k : u[j + n] = b[n]
      /\ \A n \in 1..j : s[n] \in Nat
  BY ConcatIs
<1>2. k <= p /\ \A n \in 1..k : b[n] = p - k + n
  BY DEF Latest
<1>3. /\ \A m, n \in DOMAIN s : m < n => s[m] <= s[n] \/ \E l \in 1..(m - 1) : s[l] = s[n]
      /\ \A m \in DOMAIN s : s[m] <= p
      /\ \A n \in 1..k : (\E m \in DOMAIN s : s[m] = b[n]) \/ \A m \in DOMAIN s : s[m] < b[n]
  BY DEF Fresh
<1> HIDE DEF j, k, u
<1>4. \A n \in 1..k : b[n] <= p /\ b[n] \in Nat
  BY <1>1, <1>2
<1>5. \A n \in 1..(j + k) : n \in 1..j \/ (n > j /\ n - j \in 1..k /\ u[n] = b[n - j])
  <2>1. ASSUME NEW n \in 1..(j + k), n > j
        PROVE  n - j \in 1..k /\ u[n] = b[n - j]
    <3>1. n - j \in 1..k /\ j + (n - j) = n
      BY <1>1, <2>1
    <3> QED
      BY <1>1, <3>1
  <2> QED
    BY <1>1, <2>1
<1>6. \A n \in 1..(j + k) : u[n] <= p
  BY <1>1, <1>3, <1>4, <1>5
<1>7. \A n \in 1..k : \E m \in 1..(j + k) : u[m] = b[n]
  <2>1. ASSUME NEW n \in 1..k PROVE j + n \in 1..(j + k) /\ u[j + n] = b[n]
    BY <1>1
  <2> QED
    BY <2>1
<1>8. ASSUME NEW m \in 1..(j + k), NEW n \in 1..(j + k), m < n
      PROVE  u[m] <= u[n] \/ \E l \in 1..(m - 1) : u[l] = u[n]
  <2>1. CASE n \in 1..j
    <3>1. m \in 1..j /\ \A l \in 1..(m - 1) : l \in 1..j
      BY <1>1, <1>8, <2>1
    <3>2. u[m] = s[m] /\ u[n] = s[n] /\ \A l \in 1..(m - 1) : u[l] = s[l]
      BY <1>1, <2>1, <3>1
    <3>3. s[m] <= s[n] \/ \E l \in 1..(m - 1) : s[l] = s[n]
      BY <1>1, <1>3, <1>8, <2>1, <3>1
    <3> QED
      BY <3>2, <3>3
  <2>2. CASE n > j /\ m \in 1..j
    <3> PICK i \in 1..k : u[n] = b[i]
      <4>1. ~(n \in 1..j)
        BY <1>1, <2>2
      <4>2. n - j \in 1..k /\ u[n] = b[n - j]
        BY <1>5, <4>1
      <4> QED
        BY <4>2
    <3>1. u[m] = s[m] /\ b[i] \in Nat /\ s[m] \in Nat
      BY <1>1, <1>4, <2>2
    <3>2. CASE \A l \in 1..j : s[l] < b[i]
      BY <2>2, <3>1, <3>2
    <3>3. CASE \E l \in 1..j : s[l] = b[i]
      <4> PICK l \in 1..j : s[l] = b[i]
        BY <3>3
      <4>1. CASE l < m
        <5>1. l \in 1..(m - 1) /\ u[l] = u[n]
          BY <1>1, <4>1
        <5> QED
          BY <5>1
      <4>2. CASE l = m
        BY <3>1, <4>2
      <4>3. CASE l > m
        <5>1. s[m] <= s[l] \/ \E o \in 1..(m - 1) : s[o] = s[l]
          BY <1>1, <1>3, <2>2, <4>3
        <5>2. \A o \in 1..(m - 1) : u[o] = s[o]
          BY <1>1, <2>2
        <5> QED
          BY <3>1, <5>1, <5>2
      <4> QED
        BY <1>1, <4>1, <4>2, <4>3
    <3> QED
      BY <1>1, <1>3, <3>2, <3>3
  <2>3. CASE n > j /\ m > j
    <3>1. /\ m - j \in 1..k /\ n - j \in 1..k /\ m - j < n - j
          /\ u[m] = b[m - j] /\ u[n] = b[n - j]
      BY <1>1, <1>5, <1>8, <2>3
    <3>2. b[m - j] = p - k + (m - j) /\ b[n - j] = p - k + (n - j)
      BY <1>2, <3>1
    <3> QED
      BY <1>1, <3>1, <3>2
  <2> QED
    BY <1>1, <2>1, <2>2, <2>3
<1>9. Fresh(b, u, p)
  BY <1>1, <1>6, <1>7, <1>8 DEF Fresh, k
<1> QED
  BY <1>9 DEF u

(* What the consumer sees, as messages and the array change.               *)
LEMMA SentIs ==
  ASSUME NEW m \in Messages, NEW a \in Seq(Nat), m.n <= Len(a)
  PROVE  /\ m.copy \in Seq(Nat) /\ m.n \in Nat
         /\ m.copy \o SubSeq(a, 1, m.n) \in Seq(Nat)
<1>1. m.copy \in Seq(Nat) /\ m.n \in Nat
  BY DEF Messages
<1>2. SubSeq(a, 1, m.n) \in Seq(Nat)
  BY <1>1, PartIs
<1> QED
  BY <1>1, <1>2

LEMMA NoPart == \A a \in Seq(Nat) : SubSeq(a, 1, 0) = <<>>
OBVIOUS

LEMMA NoConcat == \A s \in Seq(Nat) : s \o <<>> = s /\ <<>> \o s = s
OBVIOUS

LEMMA SeenNone ==
  ASSUME NEW g \in Seq(Nat), NEW a \in Seq(Nat), NEW c \in Seq(Nat)
  PROVE  /\ Seen(g, [copy |-> <<>>, n |-> 0], a) = g
         /\ Seen(g, [copy |-> c, n |-> 0], a) = g \o c
<1>1. /\ SubSeq(a, 1, 0) = <<>> /\ c \o <<>> = c /\ <<>> \o <<>> = <<>> /\ g \o <<>> = g
  BY NoPart, NoConcat
<1>2. Seen(g, [copy |-> <<>>, n |-> 0], a) = g \o (<<>> \o SubSeq(a, 1, 0))
  BY DEF Seen
<1>3. Seen(g, [copy |-> c, n |-> 0], a) = g \o (c \o SubSeq(a, 1, 0))
  BY DEF Seen
<1> QED
  BY <1>1, <1>2, <1>3

LEMMA SeenTaken ==
  ASSUME NEW g \in Seq(Nat), NEW a \in Seq(Nat), NEW k \in Nat, k <= Len(a)
  PROVE  Seen(g, [copy |-> <<>>, n |-> k], a) = g \o SubSeq(a, 1, k)
<1>1. SubSeq(a, 1, k) \in Seq(Nat)
  BY PartIs
<1>2. Seen(g, [copy |-> <<>>, n |-> k], a) = g \o (<<>> \o SubSeq(a, 1, k))
  BY DEF Seen
<1> QED
  BY <1>1, <1>2, NoConcat

LEMMA SeenCopied ==
  ASSUME NEW g \in Seq(Nat), NEW m \in Messages, NEW a \in Seq(Nat), m.n <= Len(a),
         NEW b \in Seq(Nat)
  PROVE  /\ Seen(g, [copy |-> m.copy \o SubSeq(a, 1, m.n), n |-> 0], b) = Seen(g, m, a)
         /\ Seen(g \o (m.copy \o SubSeq(a, 1, m.n)), [copy |-> <<>>, n |-> 0], b) = Seen(g, m, a)
<1> DEFINE c == m.copy \o SubSeq(a, 1, m.n)
<1>1. c \in Seq(Nat) /\ Seen(g, m, a) = g \o c
  BY SentIs DEF Seen
<1> HIDE DEF c
<1>2. g \o c \in Seq(Nat)
  BY <1>1
<1>3. Seen(g, [copy |-> c, n |-> 0], b) = g \o c
  BY <1>1, SeenNone
<1>4. Seen(g \o c, [copy |-> <<>>, n |-> 0], b) = g \o c
  BY <1>2, SeenNone
<1> QED
  BY <1>1, <1>3, <1>4 DEF c

LEMMA SeenSame ==
  ASSUME NEW g, NEW m \in Messages, NEW a \in Seq(Nat), NEW b \in Seq(Nat),
         m.n <= Len(a), m.n <= Len(b), \A k \in 1..m.n : a[k] = b[k]
  PROVE  Seen(g, m, a) = Seen(g, m, b)
<1> DEFINE n == m.n
           s == SubSeq(a, 1, n)
           t == SubSeq(b, 1, n)
<1>1. n \in Nat /\ \A k \in 1..n : a[k] = b[k]
  BY DEF Messages
<1>2. /\ s \in Seq(Nat) /\ Len(s) = n /\ \A k \in 1..n : s[k] = a[k]
      /\ t \in Seq(Nat) /\ Len(t) = n /\ \A k \in 1..n : t[k] = b[k]
  <2>1. n <= Len(a) /\ n <= Len(b)
    OBVIOUS
  <2> HIDE DEF n
  <2> QED
    BY <1>1, <2>1, SMTT(30)
<1> HIDE DEF n, s, t
<1>3. s = t
  BY <1>1, <1>2, SameSequences
<1> QED
  BY <1>3 DEF Seen, n, s, t

(* The array after a portion q has been appended to the k there are in it, *)
(* in place or in a larger array.                                          *)
Appended(a, k, q, grow) ==
  SubSeq(a, 1, k) \o <<q>> \o (IF grow THEN <<>> ELSE SubSeq(a, k + 2, Len(a)))

LEMMA PutBetween ==
  ASSUME NEW s \in Seq(Nat), NEW q \in Nat, NEW t \in Seq(Nat)
  PROVE  /\ s \o <<q>> \o t \in Seq(Nat) /\ Len(s \o <<q>> \o t) = Len(s) + 1 + Len(t)
         /\ SubSeq(s \o <<q>> \o t, 1, Len(s) + 1) = Append(s, q)
         /\ \A n \in 1..Len(s) : (s \o <<q>> \o t)[n] = s[n]
<1> DEFINE k == Len(s)
           u == Append(s, q)
           b == u \o t
           v == SubSeq(b, 1, k + 1)
<1>1. s \o <<q>> = u
  OBVIOUS
<1>2. /\ k \in Nat /\ u \in Seq(Nat) /\ Len(u) = k + 1 /\ \A n \in 1..k : u[n] = s[n]
  BY AppendIs
<1> HIDE DEF u
<1>3. /\ b \in Seq(Nat) /\ Len(t) \in Nat /\ Len(b) = Len(u) + Len(t)
      /\ \A n \in 1..Len(u) : b[n] = u[n]
  BY <1>2, ConcatIs
<1> HIDE DEF b
<1>4. v \in Seq(Nat) /\ Len(v) = k + 1 /\ \A n \in 1..(k + 1) : v[n] = b[n]
  <2>1. Len(b) \in Nat /\ k + 1 <= Len(b) /\ k + 1 \in Nat
    BY <1>2, <1>3
  <2> HIDE DEF k
  <2> QED
    BY <1>3, <2>1
<1> HIDE DEF k, v
<1>5. v = u
  BY <1>2, <1>3, <1>4, SameSequences
<1>6. \A n \in 1..k : b[n] = s[n]
  BY <1>2, <1>3
<1>7. Len(b) = k + 1 + Len(t)
  BY <1>2, <1>3
<1> QED
  BY <1>1, <1>3, <1>5, <1>6, <1>7 DEF b, k, u, v

Extends(b, a, k, q, grow) ==
  /\ b \in Seq(Nat) /\ k + 1 <= Len(b)
  /\ SubSeq(b, 1, k + 1) = Append(SubSeq(a, 1, k), q)
  /\ \A n \in 1..k : b[n] = a[n]
  /\ ~grow => Len(a) <= Len(b)
  /\ grow => Len(b) = k + 1

LEMMA ArrayAppend ==
  ASSUME NEW a \in Seq(Nat), NEW k \in Nat, k <= Len(a), NEW q \in Nat, NEW grow \in BOOLEAN
  PROVE  Extends(Appended(a, k, q, grow), a, k, q, grow)
<1> DEFINE s == SubSeq(a, 1, k)
           t == IF grow THEN <<>> ELSE SubSeq(a, k + 2, Len(a))
           b == Appended(a, k, q, grow)
<1>1. Len(a) \in Nat
  OBVIOUS
<1>2. s \in Seq(Nat) /\ Len(s) = k /\ \A n \in 1..k : s[n] = a[n]
  OBVIOUS
<1>3. /\ SubSeq(a, k + 2, Len(a)) \in Seq(Nat)
      /\ k + 1 <= Len(a) => Len(SubSeq(a, k + 2, Len(a))) = Len(a) - k - 1
  <2> PICK i \in Nat : i = k + 1
    OBVIOUS
  <2>1. /\ SubSeq(a, i + 1, Len(a)) \in Seq(Nat)
        /\ i <= Len(a) => Len(SubSeq(a, i + 1, Len(a))) = Len(a) - i
    BY <1>1, PartIs
  <2>2. i + 1 = k + 2 /\ Len(a) - i = Len(a) - k - 1
    BY <1>1
  <2> QED
    BY <2>1, <2>2
<1>4. /\ t \in Seq(Nat) /\ Len(t) \in Nat
      /\ ~grow /\ k + 1 <= Len(a) => Len(t) = Len(a) - k - 1
      /\ grow => Len(t) = 0
  BY <1>3
<1>5. b = s \o <<q>> \o t
  BY DEF Appended
<1> HIDE DEF s, t, b
<1>6. /\ b \in Seq(Nat) /\ Len(b) = k + 1 + Len(t)
      /\ SubSeq(b, 1, k + 1) = Append(s, q)
      /\ \A n \in 1..k : b[n] = s[n]
  <2> DEFINE w == s \o <<q>> \o t
  <2>1. /\ w \in Seq(Nat) /\ Len(w) = Len(s) + 1 + Len(t)
        /\ SubSeq(w, 1, Len(s) + 1) = Append(s, q)
        /\ \A n \in 1..Len(s) : w[n] = s[n]
    BY <1>2, <1>4, PutBetween
  <2>2. b = w
    BY <1>5
  <2> HIDE DEF w
  <2> QED
    BY <1>2, <2>1, <2>2
<1>7. \A n \in 1..k : b[n] = a[n]
  BY <1>2, <1>6
<1>8. /\ k + 1 <= Len(b)
      /\ ~grow => Len(a) <= Len(b)
      /\ grow => Len(b) = k + 1
  BY <1>1, <1>4, <1>6
<1> QED
  BY <1>6, <1>7, <1>8 DEF Extends, b, s

(* A local shell's output in order, s of it seen and a in the array, a     *)
(* part of which is read.                                                  *)
InOrder(s, a, p) ==
  /\ s \in Seq(Nat) /\ a \in Seq(Nat)
  /\ Latest(a, p) /\ Numbered(s) /\ Len(s) + Len(a) = p

LEMMA CountedRead ==
  ASSUME NEW a, NEW s, NEW p \in Nat, NEW k \in 1..Len(a), InOrder(s, a, p)
  PROVE  InOrder(s \o SubSeq(a, 1, k), SubSeq(a, k + 1, Len(a)), p)
<1> DEFINE j == Len(s)
           l == Len(a)
           c == SubSeq(a, 1, k)
           d == SubSeq(a, k + 1, l)
           u == s \o c
<1>0. /\ s \in Seq(Nat) /\ a \in Seq(Nat)
      /\ Latest(a, p) /\ Numbered(s) /\ Len(s) + Len(a) = p
  BY DEF InOrder
<1>1. /\ j \in Nat /\ l \in Nat /\ k \in Nat /\ k <= l /\ j + l = p /\ DOMAIN s = 1..j
  BY <1>0
<1>2. c \in Seq(Nat) /\ Len(c) = k /\ \A n \in 1..k : c[n] = a[n]
  BY <1>0
<1>3. d \in Seq(Nat) /\ Len(d) = l - k /\ \A n \in 1..(l - k) : d[n] = a[k + n]
  BY <1>0, <1>1, PartIs
<1>4. \A n \in 1..l : a[n] = p - l + n
  BY <1>0 DEF Latest
<1>5. \A n \in 1..j : s[n] = n
  BY <1>0 DEF Numbered
<1>6. /\ u \in Seq(Nat) /\ Len(u) = j + k /\ DOMAIN u = 1..(j + k)
      /\ \A n \in 1..j : u[n] = s[n]
      /\ \A n \in 1..k : u[j + n] = c[n]
  BY <1>0, <1>2, ConcatIs
<1> HIDE DEF j, l, c, d, u
<1>7. ASSUME NEW n \in 1..(j + k) PROVE u[n] = n
  <2>1. CASE n \in 1..j
    BY <1>5, <1>6, <2>1
  <2>2. CASE n > j
    <3>1. n - j \in 1..k /\ j + (n - j) = n /\ n - j \in 1..l
      BY <1>1, <2>2
    <3>2. u[n] = a[n - j] /\ a[n - j] = p - l + (n - j)
      BY <1>2, <1>4, <1>6, <3>1
    <3> QED
      BY <1>1, <3>2
  <2> QED
    BY <1>1, <2>1, <2>2
<1>8. ASSUME NEW n \in 1..(l - k) PROVE d[n] = p - (l - k) + n
  <2>1. k + n \in 1..l
    BY <1>1
  <2>2. d[n] = a[k + n]
    BY <1>3, Zenon
  <2>3. a[k + n] = p - l + (k + n)
    BY <1>4, <2>1, Zenon
  <2> QED
    BY <1>1, <2>2, <2>3
<1>9. Latest(d, p)
  BY <1>1, <1>3, <1>8 DEF Latest
<1>10. Numbered(u)
  BY <1>6, <1>7 DEF Numbered
<1>11. Len(u) + Len(d) = p
  BY <1>1, <1>3, <1>6
<1> QED
  BY <1>3, <1>6, <1>9, <1>10, <1>11 DEF InOrder, u, c, d, l

(* The n portions that can be read in the array a, of the p written, and   *)
(* what the consumer sees; k is the kind of shell, and lost whether a      *)
(* message was overwritten.                                                *)
Shows(k, lost, p, a, n, g, m) ==
  /\ Latest(SubSeq(a, 1, n), p)
  /\ k = "pty" =>
       /\ n = Len(a) /\ m.n = 0
       /\ Numbered(Seen(g, m, a)) /\ Len(Seen(g, m, a)) + n = p
  /\ k # "pty" /\ ~lost => Fresh(SubSeq(a, 1, n), Seen(g, m, a), p)

(* What there is after the portion p + 1 has been appended to a.           *)
ShowsMore(k, lost, p, b, a, n, g, m, c, grow) ==
  /\ b \in Seq(Nat) /\ n + 1 <= Len(b) /\ c \in Messages
  /\ grow => Shows(k, lost, p + 1, b, n + 1, g, c)
  /\ ~grow => m.n <= Len(b) /\ Shows(k, lost \/ n < m.n, p + 1, b, n + 1, g, m)

(* Shows, of values of the right types.                                    *)
ShowsTyped(k, lost, p, a, n, g, m) ==
  /\ lost \in BOOLEAN /\ p \in Nat /\ a \in Seq(Nat) /\ n \in Nat /\ n <= Len(a)
  /\ g \in Seq(Nat) /\ m \in Messages /\ m.n <= Len(a)
  /\ Shows(k, lost, p, a, n, g, m)

LEMMA ShowsAppended ==
  ASSUME NEW k, NEW lost, NEW p, NEW a, NEW n, NEW g, NEW m, ShowsTyped(k, lost, p, a, n, g, m),
         NEW grow \in BOOLEAN, k = "pty" => grow
  PROVE  ShowsMore(k, lost, p, Appended(a, n, p + 1, grow), a, n, g, m,
                   [copy |-> m.copy \o SubSeq(a, 1, m.n), n |-> 0], grow)
<1> DEFINE b == Appended(a, n, p + 1, grow)
           copied == [copy |-> m.copy \o SubSeq(a, 1, m.n), n |-> 0]
           s == SubSeq(a, 1, n)
           seen == Seen(g, m, a)
           t == SubSeq(b, 1, n + 1)
<1>0. /\ lost \in BOOLEAN /\ p \in Nat /\ a \in Seq(Nat) /\ n \in Nat /\ n <= Len(a)
      /\ g \in Seq(Nat) /\ m \in Messages /\ m.n <= Len(a)
      /\ Shows(k, lost, p, a, n, g, m)
  BY DEF ShowsTyped
<1>1. s \in Seq(Nat) /\ p + 1 \in Nat
  BY <1>0, PartIs
<1>2. /\ b \in Seq(Nat) /\ n + 1 <= Len(b) /\ t = Append(s, p + 1)
      /\ \A i \in 1..n : b[i] = a[i]
      /\ ~grow => Len(a) <= Len(b)
      /\ grow => Len(b) = n + 1
  <2>1. Extends(b, a, n, p + 1, grow)
    BY <1>0, <1>1, ArrayAppend
  <2> HIDE DEF b
  <2> QED
    BY <1>0, <2>1 DEF Extends
<1>3. /\ Latest(s, p)
      /\ k = "pty" => n = Len(a) /\ m.n = 0 /\ Numbered(seen) /\ Len(seen) + n = p
      /\ k # "pty" /\ ~lost => Fresh(s, seen, p)
  BY <1>0 DEF Shows
<1>4. seen \in Seq(Nat) /\ copied \in Messages /\ copied.n = 0
  <2>1. m.copy \o SubSeq(a, 1, m.n) \in Seq(Nat)
    BY <1>0, SentIs
  <2> DEFINE c == m.copy \o SubSeq(a, 1, m.n)
  <2> HIDE DEF c
  <2>2. [copy |-> c, n |-> 0] \in Messages /\ [copy |-> c, n |-> 0].n = 0
    BY <1>0, <2>1 DEF Messages, c
  <2>3. g \o c \in Seq(Nat)
    BY <1>0, <2>1 DEF c
  <2> QED
    BY <1>0, <2>2, <2>3 DEF c, Seen
<1>5. Seen(g, copied, b) = seen
  BY <1>0, <1>2, SeenCopied
<1>6. ~grow /\ ~(n < m.n) => Seen(g, m, b) = seen
  <2> SUFFICES ASSUME ~grow, ~(n < m.n) PROVE Seen(g, m, b) = seen
    OBVIOUS
  <2>1. m.n \in Nat /\ m.n <= n /\ m.n <= Len(b)
    <3> DEFINE l == Len(b)
    <3>1. m.n \in Nat /\ n \in Nat /\ n + 1 <= l /\ l \in Nat
      BY <1>0, <1>2 DEF Messages
    <3> HIDE DEF l
    <3>2. m.n <= n /\ m.n <= l
      BY <3>1
    <3> QED
      BY <3>1, <3>2 DEF l
  <2>2. \A i \in 1..m.n : a[i] = b[i]
    <3> DEFINE j == m.n
    <3>1. j \in Nat /\ n \in Nat /\ j <= n
      BY <1>0, <2>1
    <3> HIDE DEF j
    <3>2. \A i \in 1..j : i \in 1..n
      BY <3>1
    <3> QED
      BY <1>2, <3>2, Zenon DEF j
  <2> QED
    BY <1>0, <1>2, <2>1, <2>2, SeenSame
<1> HIDE DEF b, copied, s, seen, t
<1>7. Latest(t, p + 1)
  BY <1>0, <1>1, <1>2, <1>3, LatestAppend
<1>8. k # "pty" /\ ~lost => Fresh(t, seen, p + 1)
  BY <1>0, <1>1, <1>2, <1>3, <1>4, FreshAppend
<1>9. Len(seen) \in Nat
  BY <1>0, <1>4
<1>10. grow => Shows(k, lost, p + 1, b, n + 1, g, copied)
  <2>1. grow /\ k = "pty" =>
          /\ n + 1 = Len(b) /\ copied.n = 0
          /\ Numbered(Seen(g, copied, b)) /\ Len(Seen(g, copied, b)) + (n + 1) = p + 1
    BY <1>0, <1>2, <1>3, <1>4, <1>5, <1>9
  <2> QED
    BY <1>0, <1>5, <1>7, <1>8, <2>1 DEF Shows, t
<1>11. ~grow => m.n <= Len(b) /\ Shows(k, lost \/ n < m.n, p + 1, b, n + 1, g, m)
  <2> SUFFICES ASSUME ~grow PROVE m.n <= Len(b) /\ Shows(k, lost \/ n < m.n, p + 1, b, n + 1, g, m)
    OBVIOUS
  <2>1. k # "pty"
    OBVIOUS
  <2>2. m.n <= Len(b)
    <3>1. Len(a) <= Len(b) /\ m.n <= Len(a) /\ Len(a) \in Nat /\ Len(b) \in Nat /\ m.n \in Nat
      BY <1>0, <1>2 DEF Messages
    <3> QED
      BY <1>0, <3>1
  <2>3. ~(lost \/ n < m.n) => Fresh(t, Seen(g, m, b), p + 1)
    BY <1>0, <1>6, <1>8, <2>1
  <2> QED
    BY <1>0, <1>7, <2>1, <2>2, <2>3 DEF Shows, t
<1> QED
  BY <1>2, <1>4, <1>10, <1>11 DEF ShowsMore, b, copied

LEMMA ShowsRead ==
  ASSUME NEW lost, NEW p \in Nat, NEW a \in Seq(Nat), NEW n \in Nat, NEW g \in Seq(Nat),
         Shows("pty", lost, p, a, n, g, [copy |-> <<>>, n |-> 0]), NEW i \in 1..n
  PROVE  Shows("pty", lost, p, SubSeq(a, i + 1, n), n - i, g, [copy |-> SubSeq(a, 1, i), n |-> 0])
<1> DEFINE c == SubSeq(a, 1, i)
           d == SubSeq(a, i + 1, n)
<1>1. /\ Latest(SubSeq(a, 1, n), p) /\ n = Len(a)
      /\ Numbered(g) /\ Len(g) + n = p
  BY SeenNone DEF Shows
<1>2. SubSeq(a, 1, n) = a
  BY <1>1
<1>3. c \in Seq(Nat) /\ d \in Seq(Nat) /\ Len(d) = n - i /\ n - i \in Nat
  BY <1>1, <1>2, PartIs
<1>4. InOrder(g \o c, d, p)
  <2>1. InOrder(g, a, p) /\ i \in 1..Len(a)
    BY <1>1, <1>2 DEF InOrder
  <2> DEFINE e == SubSeq(a, i + 1, Len(a))
  <2>2. InOrder(g \o c, e, p)
    BY <2>1, CountedRead
  <2>3. d = e
    BY <1>1
  <2> HIDE DEF c, d, e
  <2> QED
    BY <2>2, <2>3
<1> HIDE DEF c, d
<1>5. SubSeq(d, 1, n - i) = d
  BY <1>3
<1>6. Seen(g, [copy |-> c, n |-> 0], d) = g \o c
  BY <1>3, SeenNone
<1>7. Shows("pty", lost, p, d, n - i, g, [copy |-> c, n |-> 0])
  BY <1>3, <1>4, <1>5, <1>6 DEF Shows, InOrder
<1> QED
  BY <1>3, <1>7 DEF c, d

LEMMA ShowsTaken ==
  ASSUME NEW k, k # "pty", NEW lost, NEW p \in Nat, NEW a \in Seq(Nat), NEW n \in Nat,
         n <= Len(a), NEW g \in Seq(Nat), Shows(k, lost, p, a, n, g, [copy |-> <<>>, n |-> 0])
  PROVE  Shows(k, lost, p, a, n, g, [copy |-> <<>>, n |-> n])
<1> DEFINE s == SubSeq(a, 1, n)
<1>1. s \in Seq(Nat)
  BY PartIs
<1>2. Latest(s, p) /\ (~lost => Fresh(s, g, p))
  BY SeenNone DEF Shows
<1>3. Seen(g, [copy |-> <<>>, n |-> n], a) = g \o s
  BY SeenTaken
<1> HIDE DEF s
<1>4. ~lost => Fresh(s, g \o s, p)
  BY <1>1, <1>2, FreshTaken
<1> QED
  BY <1>2, <1>3, <1>4 DEF Shows, s

LEMMA ShowsUsed ==
  ASSUME NEW k, NEW lost, NEW p, NEW a \in Seq(Nat), NEW n, NEW g \in Seq(Nat),
         NEW m \in Messages, m.n <= Len(a), Shows(k, lost, p, a, n, g, m)
  PROVE  /\ g \o (m.copy \o SubSeq(a, 1, m.n)) \in Seq(Nat)
         /\ Shows(k, lost, p, a, n, g \o (m.copy \o SubSeq(a, 1, m.n)), [copy |-> <<>>, n |-> 0])
<1> DEFINE c == m.copy \o SubSeq(a, 1, m.n)
<1>1. c \in Seq(Nat)
  BY SentIs
<1>2. Seen(g \o c, [copy |-> <<>>, n |-> 0], a) = Seen(g, m, a)
  BY SeenCopied
<1> HIDE DEF c
<1>3. g \o c \in Seq(Nat)
  BY <1>1
<1>4. Shows(k, lost, p, a, n, g \o c, [copy |-> <<>>, n |-> 0])
  BY <1>2 DEF Shows
<1> QED
  BY <1>3, <1>4 DEF c

LEMMA ShowsReset ==
  ASSUME NEW k, k # "pty", NEW lost, NEW p \in Nat, NEW a \in Seq(Nat), NEW n, NEW g, NEW m,
         Shows(k, lost, p, a, n, g, m)
  PROVE  Shows(k, lost, p, a, 0, g, m)
<1>1. SubSeq(a, 1, 0) = <<>>
  BY NoPart
<1>2. Latest(<<>>, p)
  BY DEF Latest
<1>3. ~lost => Fresh(<<>>, Seen(g, m, a), p)
  BY DEF Shows, Fresh
<1> QED
  BY <1>1, <1>2, <1>3 DEF Shows

ShellInv ==
  /\ kind \in {"pty", "ssh"} /\ shell \in {"new", "running", "clean", "failed"}
  /\ in \in {"none", "check", "receive", "done"}
  /\ out \in {"none", "check", "read", "send", "reset", "used", "done"}
  /\ waiter \in {"none", "wait", "tell", "done"}
  /\ isClose \in BOOLEAN /\ failure \in BOOLEAN /\ late \in BOOLEAN
  /\ produced \in Nat /\ array \in Seq(Nat) /\ len \in Nat /\ len <= Len(array)
  /\ got \in Seq(Nat) /\ message \in Messages /\ message.n <= Len(array)
  /\ shell = "new" => out = "none"
  /\ out \in {"none", "check", "read", "done"} => message = Shell!None
  /\ out = "reset" => kind # "pty"
  /\ Shows(kind, late, produced, array, len, got, message)

(* The invariant of ChannelShell holds at the beginning.                    *)
LEMMA ShellBegins == Shell!Init => ShellInv
<1> SUFFICES ASSUME Shell!Init PROVE ShellInv
  OBVIOUS
<1>1. /\ produced = 0 /\ array = <<>> /\ len = 0 /\ got = <<>> /\ late = FALSE
      /\ message = [copy |-> <<>>, n |-> 0] /\ out = "none"
  BY DEF Shell!Init, Shell!None
<1>2. /\ <<>> \in Seq(Nat) /\ Len(<<>>) = 0
      /\ [copy |-> <<>>, n |-> 0] \in Messages /\ [copy |-> <<>>, n |-> 0].n = 0
  BY DEF Messages
<1>3. SubSeq(<<>>, 1, 0) = <<>> /\ Seen(<<>>, [copy |-> <<>>, n |-> 0], <<>>) = <<>>
  BY <1>2, NoPart, SeenNone
<1>4. Latest(<<>>, 0) /\ Numbered(<<>>) /\ Fresh(<<>>, <<>>, 0)
  BY DEF Latest, Numbered, Fresh
<1>5. Shows(kind, late, 0, <<>>, 0, <<>>, [copy |-> <<>>, n |-> 0])
  <2> DEFINE none == [copy |-> <<>>, n |-> 0]
  <2>1. /\ SubSeq(<<>>, 1, 0) = <<>> /\ Seen(<<>>, none, <<>>) = <<>> /\ Len(<<>>) = 0
        /\ none.n = 0 /\ Len(<<>>) + 0 = 0
    BY <1>2, <1>3
  <2> HIDE DEF none
  <2>2. Shows(kind, late, 0, <<>>, 0, <<>>, none)
    BY <1>4, <2>1 DEF Shows
  <2> QED
    BY <2>2 DEF none
<1>6. Shows(kind, late, produced, array, len, got, message)
  BY <1>1, <1>5
<1>7. /\ kind \in {"pty", "ssh"} /\ shell = "new" /\ in = "none" /\ waiter = "none"
      /\ isClose = FALSE /\ failure = FALSE /\ message = Shell!None
  BY DEF Shell!Init
<1>8. /\ len <= Len(array) /\ message.n <= Len(array) /\ message \in Messages
      /\ produced \in Nat /\ len \in Nat /\ array \in Seq(Nat) /\ got \in Seq(Nat)
  BY <1>1, <1>2
<1> QED
  BY <1>1, <1>6, <1>7, <1>8 DEF ShellInv

(* Output is appended, in a step of the shell or in one of the reset.      *)
LEMMA ShellAppends ==
  ASSUME ShellInv, NEW grow \in BOOLEAN, kind = "pty" => grow, Shell!Append1(grow),
         len' = len + 1, UNCHANGED <<kind, got>>
  PROVE  /\ produced' \in Nat /\ array' \in Seq(Nat) /\ len' \in Nat /\ len' <= Len(array')
         /\ late' \in BOOLEAN /\ message' \in Messages /\ message'.n <= Len(array')
         /\ message = Shell!None => message' = Shell!None
         /\ Shows(kind', late', produced', array', len', got', message')
<1> DEFINE b == Appended(array, len, produced + 1, grow)
           c == Shell!Sent(message)
           copied == [copy |-> c, n |-> 0]
<1>1. /\ produced' = produced + 1 /\ array' = b
      /\ grow => message' = copied /\ late' = late
      /\ ~grow => message' = message /\ late' = (late \/ len < message.n)
  <2>1. /\ produced' = produced + 1 /\ array' = b
        /\ message' = IF grow THEN copied ELSE message
    BY DEF Shell!Append1, Appended
  <2>2. grow => late' = late
    <3>1. late' = (late \/ (~grow /\ len < message.n)) /\ late \in BOOLEAN /\ late' \in BOOLEAN
      BY Zenon DEF Shell!Append1, ShellInv
    <3> QED
      BY <3>1, Zenon
  <2>3. ~grow => late' = (late \/ len < message.n)
    BY Zenon DEF Shell!Append1
  <2> QED
    BY <2>1, <2>2, <2>3, Zenon
<1>2. /\ b \in Seq(Nat) /\ len + 1 <= Len(b) /\ copied \in Messages
      /\ grow => Shows(kind, late, produced + 1, b, len + 1, got, copied)
      /\ ~grow => /\ message.n <= Len(b)
                  /\ Shows(kind, late \/ len < message.n, produced + 1, b, len + 1, got, message)
  <2>1. /\ produced \in Nat /\ array \in Seq(Nat) /\ len \in Nat /\ len <= Len(array)
        /\ late \in BOOLEAN /\ got \in Seq(Nat) /\ message \in Messages
        /\ message.n <= Len(array)
        /\ Shows(kind, late, produced, array, len, got, message)
    BY DEF ShellInv
  <2> DEFINE s == message.copy \o SubSeq(array, 1, message.n)
  <2>2. c = s
    BY DEF Shell!Sent
  <2>3. ShowsTyped(kind, late, produced, array, len, got, message)
    BY <2>1 DEF ShowsTyped
  <2>4. ShowsMore(kind, late, produced, b, array, len, got, message, [copy |-> s, n |-> 0], grow)
    BY <2>3, ShowsAppended, Zenon
  <2> HIDE DEF b, c, s
  <2> QED
    BY <2>2, <2>4, Zenon DEF ShowsMore
<1>3. message = Shell!None => copied = Shell!None
  BY NoPart, NoConcat DEF ShellInv, Shell!Sent, Shell!None
<1>4. copied.n = 0 /\ Len(b) \in Nat
  BY <1>2
<1> HIDE DEF b, copied
<1>5. produced' \in Nat /\ len' \in Nat
  BY <1>1 DEF ShellInv
<1>6. CASE grow
  BY <1>1, <1>2, <1>3, <1>4, <1>5, <1>6 DEF ShellInv
<1>7. CASE ~grow
  <2>1. late' \in BOOLEAN
    BY <1>1, <1>7, Zenon
  <2>2. /\ message' = message /\ message \in Messages
        /\ Shows(kind, late', produced', b, len', got, message)
    BY <1>1, <1>2, <1>7 DEF ShellInv
  <2> QED
    BY <1>1, <1>2, <1>5, <1>7, <2>1, <2>2
<1> QED
  BY <1>6, <1>7

(* Every step keeps it.                                                     *)
LEMMA ShellStep == ShellInv /\ [Shell!Next]_Shell!vars => ShellInv'
<1> SUFFICES ASSUME ShellInv, [Shell!Next]_Shell!vars PROVE ShellInv'
  OBVIOUS
<1>1. /\ kind \in {"pty", "ssh"} /\ shell \in {"new", "running", "clean", "failed"}
      /\ in \in {"none", "check", "receive", "done"}
      /\ out \in {"none", "check", "read", "send", "reset", "used", "done"}
      /\ waiter \in {"none", "wait", "tell", "done"}
      /\ isClose \in BOOLEAN /\ failure \in BOOLEAN /\ late \in BOOLEAN
      /\ produced \in Nat /\ array \in Seq(Nat) /\ len \in Nat /\ len <= Len(array)
      /\ got \in Seq(Nat) /\ message \in Messages /\ message.n <= Len(array)
      /\ shell = "new" => out = "none"
      /\ out \in {"none", "check", "read", "done"} => message = Shell!None
      /\ out = "reset" => kind # "pty"
      /\ Shows(kind, late, produced, array, len, got, message)
  BY DEF ShellInv
<1>2. Shell!None = [copy |-> <<>>, n |-> 0] /\ Shell!None \in Messages /\ Shell!None.n = 0
  BY DEF Shell!None, Messages
(* Steps that do not touch the output.                                     *)
<1>3. ASSUME UNCHANGED <<kind, produced, array, len, late, message, got>>,
             shell' \in {"new", "running", "clean", "failed"},
             in' \in {"none", "check", "receive", "done"},
             waiter' \in {"none", "wait", "tell", "done"},
             isClose' \in BOOLEAN, failure' \in BOOLEAN,
             shell' = "new" => shell = "new" /\ out' = out,
             \/ out' = out
             \/ out' \in {"check", "read", "done"} /\ message = Shell!None
             \/ out = "send" /\ out' = IF kind = "pty" THEN "used" ELSE "reset"
      PROVE  ShellInv'
  <2>1. out' \in {"none", "check", "read", "send", "reset", "used", "done"}
    BY <1>1, <1>3
  <2>2. out' \in {"none", "check", "read", "done"} => message = Shell!None
    BY <1>1, <1>3
  <2>3. out' = "reset" => kind # "pty"
    BY <1>1, <1>3
  <2> QED
    BY <1>1, <1>3, <2>1, <2>2, <2>3 DEF ShellInv
<1>4. CASE UNCHANGED Shell!vars
  BY <1>1, <1>3, <1>4 DEF Shell!vars, Shell!buffer, Shell!chans
<1>5. CASE Shell!New
  <2>1. /\ out' = out \/ (out' = "check" /\ message = Shell!None)
        /\ shell' # "new" /\ in' \in {in, "check"} /\ waiter' \in {waiter, "wait"} /\ shell' \in {"running", "clean"}
        /\ UNCHANGED <<kind, produced, array, len, late, message, got, isClose, failure>>
    <3>1. shell = "new" /\ message = Shell!None
      BY <1>1, <1>5 DEF Shell!New
    <3> QED
      BY <3>1, <1>5 DEF Shell!New, Shell!buffer, Shell!chans
  <2> QED
    BY <1>1, <1>3, <2>1
<1>6. CASE Shell!ShellEnds \/ Shell!Close \/ Shell!WaitReturns \/ Shell!Tell
  <2>1. /\ UNCHANGED <<kind, produced, array, len, late, message, got, in, out>>
        /\ shell' \in {"new", "running", "clean", "failed"} /\ (shell' = "new" => shell = "new")
        /\ waiter' \in {"none", "wait", "tell", "done"}
        /\ isClose' \in BOOLEAN /\ failure' \in BOOLEAN
    BY <1>1, <1>6 DEF Shell!ShellEnds, Shell!Close, Shell!WaitReturns, Shell!Tell, Shell!Closes,
                      Shell!buffer, Shell!chans
  <2> QED
    BY <1>1, <1>3, <2>1
<1>7. CASE Shell!InChecks \/ Shell!Input
  <2>1. /\ UNCHANGED <<kind, shell, produced, array, len, late, message, got, out, waiter,
                       isClose, failure>>
        /\ in' \in {"none", "check", "receive", "done"}
    BY <1>7 DEF Shell!InChecks, Shell!Input, Shell!buffer, Shell!chans
  <2> QED
    BY <1>1, <1>3, <2>1
<1>8. CASE Shell!OutChecks \/ Shell!ReadNothing
  <2>1. /\ UNCHANGED <<kind, shell, produced, array, len, late, message, got, in, waiter,
                       isClose, failure>>
        /\ out' \in {"check", "read", "done"} /\ out \in {"check", "read"}
        /\ shell # "new"
    BY <1>1, <1>8 DEF Shell!OutChecks, Shell!ReadNothing, Shell!buffer, Shell!chans
  <2> QED
    BY <1>1, <1>3, <2>1
<1>9. CASE Shell!Send
  <2>1. /\ UNCHANGED <<kind, shell, produced, array, len, late, message, got, in, waiter,
                       isClose, failure>>
        /\ out = "send" /\ out' = IF kind = "pty" THEN "used" ELSE "reset"
        /\ shell # "new"
    BY <1>1, <1>9 DEF Shell!Send, Shell!buffer, Shell!chans
  <2> QED
    BY <1>1, <1>3, <2>1
(* Steps that do.                                                          *)
<1>10. CASE Shell!Produce
  <2>1. /\ UNCHANGED <<kind, shell, isClose, in, out, waiter, got, failure>> /\ len' = len + 1
        /\ \E grow \in BOOLEAN : Shell!Append1(grow) /\ (kind = "pty" => grow)
    BY <1>10 DEF Shell!Produce
  <2> PICK grow \in BOOLEAN : Shell!Append1(grow) /\ (kind = "pty" => grow)
    BY <2>1
  <2>2. /\ produced' \in Nat /\ array' \in Seq(Nat) /\ len' \in Nat /\ len' <= Len(array')
        /\ late' \in BOOLEAN /\ message' \in Messages /\ message'.n <= Len(array')
        /\ message = Shell!None => message' = Shell!None
        /\ Shows(kind', late', produced', array', len', got', message')
    BY <2>1, ShellAppends
  <2> QED
    BY <1>1, <2>1, <2>2 DEF ShellInv
<1>11. CASE Shell!ReadPty
  <2>1. PICK i \in 1..len :
          /\ message' = [copy |-> SubSeq(array, 1, i), n |-> 0]
          /\ array' = SubSeq(array, i + 1, len) /\ len' = len - i
    BY <1>11 DEF Shell!ReadPty
  <2>2. /\ out = "read" /\ kind = "pty" /\ out' = "send"
        /\ UNCHANGED <<kind, shell, produced, late, isClose, in, waiter, got, failure>>
    BY <1>11 DEF Shell!ReadPty
  <2>3. /\ SubSeq(array, 1, i) \in Seq(Nat) /\ array' \in Seq(Nat) /\ len' = Len(array')
        /\ Shows(kind', late', produced', array', len', got', message')
    <3>1. Shows("pty", late, produced, array, len, got, [copy |-> <<>>, n |-> 0])
      BY <1>1, <1>2, <2>2
    <3> DEFINE c == SubSeq(array, 1, i)
               d == SubSeq(array, i + 1, len)
    <3>2. c \in Seq(Nat) /\ d \in Seq(Nat) /\ len - i = Len(d)
      BY <1>1, PartIs
    <3>3. Shows("pty", late, produced, d, len - i, got, [copy |-> c, n |-> 0])
      <4>1. /\ produced \in Nat /\ array \in Seq(Nat) /\ len \in Nat /\ got \in Seq(Nat)
        BY <1>1
      <4> QED
        BY <3>1, <4>1, ShowsRead, Zenon
    <3>4. /\ kind' = "pty" /\ late' = late /\ produced' = produced /\ array' = d
          /\ len' = len - i /\ got' = got /\ message' = [copy |-> c, n |-> 0]
      BY <2>1, <2>2
    <3> HIDE DEF c, d
    <3>5. Shows(kind', late', produced', array', len', got', message')
      BY <3>3, <3>4
    <3> QED
      BY <3>2, <3>4, <3>5 DEF c
  <2>4. message' \in Messages /\ message'.n = 0
    BY <2>1, <2>3 DEF Messages
  <2>5. len' \in Nat /\ len' <= Len(array') /\ message'.n <= Len(array')
    BY <2>3, <2>4
  <2> QED
    BY <1>1, <2>2, <2>3, <2>4, <2>5 DEF ShellInv
<1>12. CASE Shell!TakeBytes
  <2>1. /\ out = "read" /\ kind = "ssh" /\ out' = "send" /\ message' = [copy |-> <<>>, n |-> len]
        /\ UNCHANGED <<kind, shell, produced, array, len, late, isClose, in, waiter, got, failure>>
    BY <1>12 DEF Shell!TakeBytes, Shell!buffer
  <2>2. Shows(kind', late', produced', array', len', got', message')
    BY <1>1, <1>2, <2>1, ShowsTaken
  <2>3. message' \in Messages /\ message'.n = len
    BY <1>1, <2>1 DEF Messages
  <2> QED
    BY <1>1, <2>1, <2>2, <2>3 DEF ShellInv
<1>13. CASE Shell!Use
  <2>1. /\ got' = got \o (message.copy \o SubSeq(array, 1, message.n)) /\ message' = Shell!None
        /\ UNCHANGED <<kind, shell, produced, array, len, late, isClose, in, waiter, failure>>
        /\ out # "send" /\ out' = IF out = "used" THEN "check" ELSE out
    BY <1>13 DEF Shell!Use, Shell!buffer, Shell!Sent
  <2>2. got' \in Seq(Nat) /\ Shows(kind', late', produced', array', len', got', message')
    BY <1>1, <1>2, <2>1, ShowsUsed
  <2>3. message'.n <= Len(array')
    BY <1>1, <1>2, <2>1
  <2>4. /\ out' \in {"none", "check", "read", "send", "reset", "used", "done"}
        /\ out' = "reset" => kind' # "pty"
    BY <1>1, <2>1
  <2> QED
    BY <1>1, <1>2, <2>1, <2>2, <2>3, <2>4 DEF ShellInv
<1>14. CASE Shell!Reset
  <2>1. /\ out = "reset" /\ out' = IF message' = Shell!None THEN "check" ELSE "used"
        /\ UNCHANGED <<kind, shell, isClose, in, waiter, got, failure>>
        /\ kind # "pty"
    BY <1>1, <1>14 DEF Shell!Reset
  <2>2. CASE len' = 0 /\ UNCHANGED <<produced, array, late, message>>
    <3>1. Shows(kind', late', produced', array', len', got', message')
      BY <1>1, <2>1, <2>2, ShowsReset
    <3>2. len' <= Len(array')
      BY <1>1, <2>2
    <3> QED
      BY <1>1, <2>1, <2>2, <3>1, <3>2 DEF ShellInv
  <2>3. ASSUME NEW grow \in BOOLEAN, Shell!Append1(grow), len' = len + 1 PROVE ShellInv'
    <3>1. /\ produced' \in Nat /\ array' \in Seq(Nat) /\ len' \in Nat /\ len' <= Len(array')
          /\ late' \in BOOLEAN /\ message' \in Messages /\ message'.n <= Len(array')
          /\ Shows(kind', late', produced', array', len', got', message')
      BY <2>1, <2>3, ShellAppends
    <3> QED
      BY <1>1, <2>1, <3>1 DEF ShellInv
  <2> QED
    BY <1>14, <2>2, <2>3 DEF Shell!Reset
<1> QED
  BY <1>4, <1>5, <1>6, <1>7, <1>8, <1>9, <1>10, <1>11, <1>12, <1>13, <1>14
     DEF Shell!Next, Shell!Goroutines

(* It says that the output is in order.                                     *)
LEMMA ShellShows == ShellInv => Shell!OutputInOrder
<1> SUFFICES ASSUME ShellInv PROVE Shell!TypeOK /\ Shell!InOrder
  BY DEF Shell!OutputInOrder
<1>1. Shell!TypeOK
  BY DEF ShellInv, Shell!TypeOK
<1> DEFINE seen == Seen(got, message, array)
           all == [n \in 1..produced |-> n]
<1>2. /\ produced \in Nat /\ array \in Seq(Nat) /\ Len(array) \in Nat /\ got \in Seq(Nat)
      /\ message \in Messages /\ message.n <= Len(array)
      /\ kind \in {"pty", "ssh"}
      /\ Shows(kind, late, produced, array, len, got, message)
  BY DEF ShellInv
<1>3. got \o Shell!Sent(message) = seen
  BY DEF Seen, Shell!Sent
<1>4. seen \in Seq(Nat) /\ Len(seen) \in Nat
  <2>1. message.copy \o SubSeq(array, 1, message.n) \in Seq(Nat)
    BY <1>2, SentIs
  <2> QED
    BY <1>2, <2>1, SMTT(30) DEF Seen
<1>5. all \in Seq(Nat) /\ Len(all) = produced /\ \A n \in 1..produced : all[n] = n
  BY <1>2
<1> HIDE DEF seen, all
<1>6. CASE kind = "pty"
  <2>1. /\ Latest(SubSeq(array, 1, Len(array)), produced)
        /\ Numbered(seen) /\ Len(seen) + Len(array) = produced
    BY <1>2, <1>6 DEF Shows, seen
  <2>2. SubSeq(array, 1, Len(array)) = array
    BY <1>2
  <2>3. /\ \A n \in 1..Len(array) : array[n] = produced - Len(array) + n
        /\ \A n \in 1..Len(seen) : seen[n] = n
    BY <1>4, <2>1, <2>2 DEF Latest, Numbered
  <2>4. Len(seen) <= Len(all) /\ SubSeq(seen, 1, Len(seen)) = SubSeq(all, 1, Len(seen))
    <3> DEFINE j == Len(seen)
    <3>1. j \in Nat /\ j <= Len(all) /\ j <= produced
      BY <1>2, <1>4, <1>5, <2>1
    <3> HIDE DEF j
    <3>2. SubSeq(seen, 1, j) = seen
      BY <1>4 DEF j
    <3>3. SubSeq(all, 1, j) \in Seq(Nat) /\ Len(SubSeq(all, 1, j)) = j
          /\ \A n \in 1..j : SubSeq(all, 1, j)[n] = all[n]
      BY <1>5, <3>1
    <3> DEFINE begin == SubSeq(all, 1, j)
    <3> HIDE DEF begin
    <3>4. begin = seen
      BY <1>4, <1>5, <2>3, <3>1, <3>3, SameSequences DEF begin, j
    <3> QED
      BY <3>1, <3>2, <3>4 DEF begin, j
  <2>5. seen \o array = all
    <3> DEFINE u == seen \o array
               j == Len(seen)
               k == Len(array)
    <3>1. /\ u \in Seq(Nat) /\ Len(u) = j + k /\ j \in Nat /\ k \in Nat
          /\ \A n \in 1..j : u[n] = seen[n]
          /\ \A n \in 1..k : u[j + n] = array[n]
      BY <1>2, <1>4, ConcatIs
    <3>2. /\ j + k = produced /\ \A n \in 1..j : seen[n] = n
          /\ \A n \in 1..k : array[n] = produced - k + n
      BY <2>1, <2>3
    <3> HIDE DEF u, j, k
    <3>3. ASSUME NEW n \in 1..produced PROVE u[n] = n
      <4>1. CASE n \in 1..j
        BY <3>1, <3>2, <4>1
      <4>2. CASE n > j
        <5>1. n - j \in 1..k /\ j + (n - j) = n
          BY <3>1, <3>2, <4>2
        <5>2. u[n] = array[n - j] /\ array[n - j] = produced - k + (n - j)
          BY <3>1, <3>2, <5>1
        <5> QED
          BY <3>1, <3>2, <5>2
      <4> QED
        BY <3>1, <4>1, <4>2
    <3>4. Len(u) = produced
      BY <3>1, <3>2
    <3>5. u = all
      BY <1>5, <3>1, <3>3, <3>4, SameSequences
    <3> QED
      BY <3>5 DEF u
  <2>6. Shell!InOrder <=>
          /\ Shell!IsPrefix(seen, all)
          /\ ~isClose => seen \o array = all
    BY <1>3, <1>6 DEF Shell!InOrder, all
  <2> QED
    BY <1>1, <2>4, <2>5, <2>6 DEF Shell!IsPrefix
<1>7. CASE kind # "pty"
  <2>1. Shell!InOrder <=>
          (~late => \A m, n \in DOMAIN got :
                      m < n => got[m] <= got[n] \/ \E k \in 1..(m - 1) : got[k] = got[n])
    BY <1>7 DEF Shell!InOrder
  <2>2. ASSUME ~late, NEW m \in DOMAIN got, NEW n \in DOMAIN got, m < n
        PROVE  got[m] <= got[n] \/ \E k \in 1..(m - 1) : got[k] = got[n]
    <3> DEFINE c == Shell!Sent(message)
    <3>1. c \in Seq(Nat) /\ seen = got \o c
      BY <1>2, <1>3, SentIs DEF Shell!Sent
    <3> HIDE DEF c
    <3>2. /\ DOMAIN got = 1..Len(got) /\ DOMAIN seen = 1..(Len(got) + Len(c))
          /\ Len(got) \in Nat /\ Len(c) \in Nat
          /\ \A k \in 1..Len(got) : seen[k] = got[k]
      BY <1>2, <3>1, ConcatIs
    <3>3. seen[m] <= seen[n] \/ \E k \in 1..(m - 1) : seen[k] = seen[n]
      <4>1. m \in DOMAIN seen /\ n \in DOMAIN seen
        BY <2>2, <3>2
      <4> QED
        BY <1>2, <1>7, <2>2, <4>1 DEF Shows, Fresh, seen
    <3>4. \A k \in 1..(m - 1) : k \in 1..Len(got)
      BY <2>2, <3>2
    <3> QED
      BY <2>2, <3>2, <3>3, <3>4
  <2> QED
    BY <1>1, <2>1, <2>2
<1> QED
  BY <1>6, <1>7

(* A local shell's output reaches the consumer whole and in order; that of *)
(* a remote one in order, as long as each message is used in time:         *)
(* Shell.write and WsSSH.sshSend.                                          *)
THEOREM ShellOutputInOrder == Shell!Spec => []Shell!OutputInOrder
BY ShellBegins, ShellStep, ShellShows, PTL DEF Shell!Spec

-----------------------------------------------------------------------------
(* Numbers, finite sets and loops.                                         *)

(* A set of numbers that has 0, and with each number the next, has all:    *)
(* else its first numbers would be as many as all but one of them.         *)
LEMMA Induction ==
  ASSUME NEW P, 0 \in P, \A n \in Nat : n \in P => n + 1 \in P
  PROVE  Nat \subseteq P
<1> SUFFICES ASSUME NEW n \in Nat, n \notin P PROVE FALSE
  OBVIOUS
<1> DEFINE below == P \cap 0..n
           next == [i \in below |-> i + 1]
<1>1. IsFiniteSet(below) /\ 0 \in below
  <2>1. below \in SUBSET (0..n)
    OBVIOUS
  <2>2. IsFiniteSet(0..n)
    BY FS_Interval
  <2> QED
    BY <2>1, <2>2, FS_Subset
<1>2. next \in [below -> below \ {0}]
  OBVIOUS
<1>3. IsFiniteSet(below \ {0}) /\ Cardinality(below \ {0}) < Cardinality(below)
  <2>1. Cardinality(below) \in Nat
    BY <1>1, FS_CardinalityType
  <2> HIDE DEF below
  <2>2. IsFiniteSet(below \ {0})
    BY <1>1, FS_RemoveElement
  <2>3. Cardinality(below \ {0}) = Cardinality(below) - 1
    BY <1>1, FS_RemoveElement
  <2> QED
    BY <2>1, <2>2, <2>3
<1>4. \E i, j \in below : i # j /\ next[i] = next[j]
  <2> HIDE DEF next, below
  <2> QED
    BY <1>1, <1>2, <1>3, FS_PigeonHole
<1> QED
  BY <1>4

(* A set of numbers that is not empty has a least one.                     *)
LEMMA Least ==
  ASSUME NEW S \in SUBSET Nat, S # {}
  PROVE  \E m \in S : \A n \in S : m <= n
<1> SUFFICES ASSUME \A m \in S : \E n \in S : n < m PROVE FALSE
  OBVIOUS
<1> DEFINE P == {n \in Nat : \A m \in 0..n : m \notin S}
<1>1. 0 \in P
  OBVIOUS
<1>2. ASSUME NEW n \in Nat, n \in P PROVE n + 1 \in P
  <2>1. n + 1 \notin S
    BY <1>2
  <2> QED
    BY <1>2, <2>1
<1>3. Nat \subseteq P
  <2> HIDE DEF P
  <2> QED
    BY <1>1, <1>2, Induction
<1>4. PICK m \in S : TRUE
  OBVIOUS
<1>5. m \in P /\ m \in 0..m
  BY <1>3
<1> QED
  BY <1>4, <1>5

(* The stages of a loop of k turns, each of which takes a step.            *)
AreStages(f, base, step, k) == f = [n \in 0..k |-> IF n = 0 THEN base ELSE step[f[n - 1]]]

(* There are such stages: those of n turns give those of n + 1.             *)
LEMMA StagesExist ==
  ASSUME NEW base, NEW step, NEW k \in Nat
  PROVE  \E f : AreStages(f, base, step, k)
<1> USE DEF AreStages
<1> DEFINE Rule(f, n) == IF n = 0 THEN base ELSE step[f[n - 1]]
           P == {m \in Nat : \E f : f = [n \in 0..m |-> Rule(f, n)]}
<1>1. 0 \in P
  <2> DEFINE f == [n \in 0..0 |-> base]
  <2>1. f = [n \in 0..0 |-> Rule(f, n)]
    OBVIOUS
  <2> QED
    BY <2>1
<1>2. ASSUME NEW m \in Nat, m \in P PROVE m + 1 \in P
  <2>1. PICK f : f = [n \in 0..m |-> Rule(f, n)]
    BY <1>2
  <2> DEFINE g == [n \in 0..(m + 1) |-> IF n <= m THEN f[n] ELSE step[f[n - 1]]]
  <2>2. ASSUME NEW n \in 0..(m + 1) PROVE g[n] = Rule(g, n)
    <3>1. n <= m => f[n] = Rule(f, n)
      <4> SUFFICES ASSUME n <= m PROVE f[n] = Rule(f, n)
        OBVIOUS
      <4>1. n \in 0..m
        OBVIOUS
      <4> QED
        BY <2>1, <4>1, Zenon
    <3>2. n # 0 => g[n - 1] = f[n - 1]
      OBVIOUS
    <3> QED
      BY <3>1, <3>2
  <2>3. g = [n \in 0..(m + 1) |-> Rule(g, n)]
    <3>1. g = [n \in 0..(m + 1) |-> g[n]]
      OBVIOUS
    <3> HIDE DEF g
    <3> QED
      BY <2>2, <3>1, Zenon
  <2>4. m + 1 \in Nat
    OBVIOUS
  <2> HIDE DEF g
  <2> QED
    BY <2>3, <2>4, Zenon
<1>3. Nat \subseteq P
  <2> HIDE DEF P
  <2> QED
    BY <1>1, <1>2, Induction
<1> QED
  BY <1>3

(* Cardinality under the names that it has in the instances.               *)
LEMMA SameCardinality ==
  ASSUME NEW S
  PROVE  Pure!L!Cardinality(S) = Cardinality(S) /\ Pure!C!Cardinality(S) = Cardinality(S)
BY DEF Pure!L!Cardinality, Pure!C!Cardinality, Cardinality

(* Of the numbers of a finite set each has its turn, and the turns go up.  *)
Below(S, t) == {u \in S : u < t}

(* Its place is the number of those below it.                               *)
LEMMA Ranks ==
  ASSUME NEW S \in SUBSET Nat, IsFiniteSet(S)
  PROVE  /\ Cardinality(S) \in Nat
         /\ DOMAIN Pure!L!Ascending(S) = 1..Cardinality(S)
         /\ \A k \in 1..Cardinality(S) : Pure!L!Ascending(S)[k] \in S
         /\ \A t \in S : \E k \in 1..Cardinality(S) : Pure!L!Ascending(S)[k] = t
         /\ \A k, m \in 1..Cardinality(S) : k < m => Pure!L!Ascending(S)[k] < Pure!L!Ascending(S)[m]
<1> DEFINE C == Cardinality(S)
           a == Pure!L!Ascending(S)
           rank == [t \in S |-> Cardinality(Below(S, t))]
<1>1. C \in Nat
  BY FS_CardinalityType
<1>2. ASSUME NEW t \in S PROVE IsFiniteSet(Below(S, t)) /\ rank[t] \in 0..(C - 1)
  <2>1. Below(S, t) \in SUBSET (S \ {t})
    BY DEF Below
  <2>2. IsFiniteSet(S \ {t}) /\ Cardinality(S \ {t}) = C - 1
    BY FS_RemoveElement
  <2>3. IsFiniteSet(Below(S, t)) /\ Cardinality(Below(S, t)) <= C - 1
    BY <2>1, <2>2, FS_Subset
  <2>4. Cardinality(Below(S, t)) \in Nat
    BY <2>3, FS_CardinalityType
  <2> QED
    BY <1>1, <2>3, <2>4
<1>3. ASSUME NEW t \in S, NEW u \in S, t < u PROVE rank[t] < rank[u]
  <2>1. Below(S, t) \cup {t} \in SUBSET Below(S, u) /\ t \notin Below(S, t)
    <3>1. \A v \in S : v \in Nat
      OBVIOUS
    <3>2. \A v \in S : v < t => v < u
      BY <1>3, <3>1
    <3>3. ~(t < t)
      BY <3>1
    <3> QED
      BY <1>3, <3>2, <3>3, Zenon DEF Below
  <2>2. Cardinality(Below(S, t) \cup {t}) = Cardinality(Below(S, t)) + 1
    BY <1>2, <2>1, FS_AddElement
  <2>3. Cardinality(Below(S, t) \cup {t}) <= Cardinality(Below(S, u))
    BY <1>2, <2>1, FS_Subset
  <2>4. rank[t] = Cardinality(Below(S, t)) /\ rank[u] = Cardinality(Below(S, u))
    OBVIOUS
  <2> HIDE DEF rank, C
  <2> QED
    BY <1>1, <1>2, <2>2, <2>3, <2>4
<1>4. \A t, u \in S : rank[t] = rank[u] => t = u
  <2> SUFFICES ASSUME NEW t \in S, NEW u \in S, rank[t] = rank[u], t # u PROVE FALSE
    OBVIOUS
  <2> HIDE DEF rank
  <2>1. t < u \/ u < t
    OBVIOUS
  <2> QED
    BY <1>1, <1>2, <1>3, <2>1
<1>5. \A n \in 0..(C - 1) : \E t \in S : rank[t] = n
  <2>1. rank \in [S -> 0..(C - 1)]
    BY <1>2
  <2>2. IsFiniteSet(0..(C - 1)) /\ Cardinality(0..(C - 1)) = C
    <3>1. C - 1 \in Int
      BY <1>1
    <3>2. IsFiniteSet(0..(C - 1)) /\ Cardinality(0..(C - 1)) = IF 0 > C - 1 THEN 0 ELSE C - 1 - 0 + 1
      BY <3>1, FS_Interval
    <3> QED
      BY <1>1, <3>2
  <2> HIDE DEF rank, C
  <2>3. rank \in Injection(S, 0..(C - 1))
    BY <1>4, <2>1 DEF Injection, IsInjective
  <2>4. rank \in Surjection(S, 0..(C - 1))
    BY <2>2, <2>3, FS_Injection DEF C
  <2> QED
    BY <2>4 DEF Surjection
<1>6. a = [k \in 1..C |-> CHOOSE t \in S : Cardinality(Below(S, t)) = k - 1]
  <2>1. a = [k \in 1..Pure!L!Cardinality(S) |->
              CHOOSE t \in S : Pure!L!Cardinality(Below(S, t)) = k - 1]
    BY Zenon DEF Pure!L!Ascending, Below
  <2> QED
    BY <2>1, SameCardinality, Zenon
<1>7. ASSUME NEW k \in 1..C PROVE a[k] \in S /\ rank[a[k]] = k - 1
  <2>1. a[k] = CHOOSE t \in S : Cardinality(Below(S, t)) = k - 1
    BY <1>6, Zenon
  <2>2. k - 1 \in 0..(C - 1)
    BY <1>1
  <2>3. PICK t \in S : rank[t] = k - 1
    BY <1>5, <2>2
  <2> HIDE DEF a
  <2> QED
    BY <2>1, <2>3
<1>8. ASSUME NEW t \in S PROVE \E k \in 1..C : a[k] = t
  <2>1. rank[t] + 1 \in 1..C /\ (rank[t] + 1) - 1 = rank[t]
    BY <1>1, <1>2
  <2> HIDE DEF rank, a, C
  <2>2. a[rank[t] + 1] \in S /\ rank[a[rank[t] + 1]] = rank[t]
    BY <1>7, <2>1
  <2> QED
    BY <1>4, <2>1, <2>2
<1>9. ASSUME NEW k \in 1..C, NEW m \in 1..C, k < m PROVE a[k] < a[m]
  <2> HIDE DEF rank, a
  <2>1. a[k] \in S /\ a[m] \in S /\ rank[a[k]] = k - 1 /\ rank[a[m]] = m - 1
    BY <1>7
  <2>2. a[k] = a[m] \/ a[m] < a[k] \/ a[k] < a[m]
    <3>1. a[k] \in Nat /\ a[m] \in Nat
      BY <2>1
    <3> QED
      BY <3>1
  <2>3. a[m] < a[k] => m - 1 < k - 1
    BY <1>3, <2>1
  <2> QED
    BY <1>1, <1>9, <2>1, <2>2, <2>3
<1>10. DOMAIN a = 1..C
  BY <1>6
<1> QED
  BY <1>1, <1>7, <1>8, <1>9, <1>10

(* What a product and a remainder below the factor add up to is divided    *)
(* into them again.                                                        *)
LEMMA QuotientRemainder ==
  ASSUME NEW q \in Nat, NEW b \in Nat \ {0}, NEW r \in 0..(b - 1)
  PROVE  (b * q + r) \div b = q /\ (b * q + r) % b = r
<1> DEFINE m == b * q + r
           d == m \div b
           e == m % b
<1>1. m \in Nat
  OBVIOUS
<1>2. d \in Nat /\ e \in 0..(b - 1) /\ m = b * d + e
  <2> HIDE DEF m
  <2> QED
    BY <1>1
<1>3. d <= q
  <2> SUFFICES ASSUME d >= q + 1 PROVE FALSE
    BY <1>2
  <2> HIDE DEF d, e
  <2>1. b * d >= b * (q + 1) /\ b * (q + 1) = b * q + b
    BY <1>2
  <2> QED
    BY <1>2, <2>1
<1>4. d >= q
  <2> SUFFICES ASSUME q >= d + 1 PROVE FALSE
    BY <1>2
  <2> HIDE DEF d, e
  <2>1. b * q >= b * (d + 1) /\ b * (d + 1) = b * d + b
    BY <1>2
  <2> QED
    BY <1>2, <2>1
<1>5. d = q
  BY <1>2, <1>3, <1>4
<1>6. e = r
  <2> HIDE DEF d, e
  <2> QED
    BY <1>2, <1>5
<1> QED
  BY <1>5, <1>6

(* A function on 1..n is a sequence.                                       *)
LEMMA FunctionIsSeq ==
  ASSUME NEW S, NEW n \in Nat, NEW f, f \in [1..n -> S]
  PROVE  f \in Seq(S) /\ Len(f) = n
OBVIOUS

(* The place of a byte in its block.                                       *)
LEMMA Places ==
  ASSUME NEW b \in Nat \ {0}, NEW q \in Nat, NEW i \in 1..(b * q)
  PROVE  /\ (i - 1) \div b \in 0..(q - 1) /\ ((i - 1) % b) + 1 \in 1..b
         /\ b * ((i - 1) \div b) + (((i - 1) % b) + 1) = i
<1> DEFINE m == i - 1
           d == m \div b
           e == m % b
<1>1. b * q \in Nat
  OBVIOUS
<1>2. m \in Nat /\ m < b * q
  BY <1>1
<1> HIDE DEF m
<1>3. d \in Nat /\ e \in 0..(b - 1) /\ b * d + e = m
  BY <1>2
<1>4. d < q
  <2> SUFFICES ASSUME d >= q PROVE FALSE
    BY <1>3
  <2> HIDE DEF d, e
  <2>1. b * d >= b * q /\ b * d \in Nat
    BY <1>3
  <2> QED
    BY <1>1, <1>2, <1>3, <2>1
<1>5. d \in 0..(q - 1) /\ e + 1 \in 1..b
  BY <1>3, <1>4
<1>6. b * d + (e + 1) = i
  <2>1. m + 1 = i
    BY DEF m
  <2>2. b * d \in Nat
    BY <1>3
  <2> HIDE DEF d, e
  <2> QED
    BY <1>2, <1>3, <2>1, <2>2
<1> QED
  BY <1>5, <1>6 DEF m

(* The bounded texts of the calls are texts.                               *)
LEMMA BoundedTexts ==
  ASSUME NEW S, NEW n \in Nat, NEW p \in Pure!UpTo(S, n)
  PROVE  p \in Seq(S)
<1>1. PICK k \in 0..n : p \in [1..k -> S]
  BY Zenon DEF Pure!UpTo
<1>2. k \in Nat
  OBVIOUS
<1> QED
  BY <1>1, <1>2, FunctionIsSeq

-----------------------------------------------------------------------------
(* DbAccounts.  What CodingIsSound says of digits and cipher is all that is *)
(* used of them; texts have any length.                                    *)

(* A byte and its halves.                                                  *)
LEMMA Halves ==
  ASSUME NEW byte \in Pure!Byte, Pure!CodingIsSound
  PROVE  /\ Pure!Base \in Nat \ {0}
         /\ byte \div Pure!Base \in 0..(Pure!Base - 1)
         /\ byte % Pure!Base \in 0..(Pure!Base - 1)
         /\ Pure!Base * (byte \div Pure!Base) + (byte % Pure!Base) = byte
<1> DEFINE B == Pure!Base
           h == byte \div B
           l == byte % B
<1>1. B \in Nat \ {0}
  BY LenProperties DEF Pure!CodingIsSound, Pure!Base
<1>2. byte \in Nat /\ byte <= B * B - 1
  BY <1>1 DEF Pure!Byte
<1> HIDE DEF B
<1>3. h \in Nat /\ l \in 0..(B - 1) /\ B * h + l = byte
  BY <1>1, <1>2
<1>4. h <= B - 1
  <2> SUFFICES ASSUME h >= B PROVE FALSE
    BY <1>1, <1>3
  <2> HIDE DEF h, l
  <2>1. B * h >= B * B
    BY <1>1, <1>3
  <2>2. B * B \in Nat /\ B * h \in Nat
    BY <1>1, <1>3
  <2> QED
    BY <1>1, <1>2, <1>3, <2>1, <2>2
<1> QED
  BY <1>1, <1>3, <1>4 DEF B


(* Every digit stands for its half.                                        *)
LEMMA Digits ==
  ASSUME Pure!CodingIsSound, NEW v \in 0..(Pure!Base - 1)
  PROVE  /\ HexDigit[1 + v] \in Pure!Byte /\ HexDigit[1 + v] \in DOMAIN HexValue
         /\ HexValue[HexDigit[1 + v]] = v
<1>1. HexDigit \in Seq(Pure!Byte) /\ Pure!Base \in Nat /\ DOMAIN HexDigit = 1..Pure!Base
  BY LenProperties DEF Pure!CodingIsSound, Pure!Base
<1>2. 1 + v \in DOMAIN HexDigit /\ (1 + v) - 1 = v
  BY <1>1
<1>3. HexDigit[1 + v] \in Pure!Byte
  BY <1>1, <1>2, ElementOfSeq
<1> QED
  BY <1>2, <1>3 DEF Pure!CodingIsSound

(* Digits of both halves of each byte, one after the other.                *)
LEMMA HexForm ==
  ASSUME Pure!CodingIsSound, NEW t \in Seq(Pure!Byte)
  PROVE  /\ Pure!ToHex(t) \in Seq(Pure!Byte) /\ Len(Pure!ToHex(t)) = 2 * Len(t)
         /\ \A i \in DOMAIN Pure!ToHex(t) : Pure!ToHex(t)[i] \in DOMAIN HexValue
         /\ \A n \in 1..Len(t) :
              /\ HexValue[Pure!ToHex(t)[2 * n - 1]] = t[n] \div Pure!Base
              /\ HexValue[Pure!ToHex(t)[2 * n]] = t[n] % Pure!Base
<1> DEFINE h == Pure!ToHex(t)
           Half(i) == IF i % 2 = 1 THEN t[(i + 1) \div 2] \div Pure!Base
                      ELSE t[(i + 1) \div 2] % Pure!Base
<1>1. Len(t) \in Nat /\ \A n \in 1..Len(t) : t[n] \in Pure!Byte
  BY LenProperties, ElementOfSeq
<1>2. h = [i \in 1..(2 * Len(t)) |-> HexDigit[1 + Half(i)]]
  BY Zenon DEF Pure!ToHex
<1>3. ASSUME NEW i \in 1..(2 * Len(t)) PROVE Half(i) \in 0..(Pure!Base - 1)
  <2>1. (i + 1) \div 2 \in 1..Len(t)
    BY <1>1
  <2>2. t[(i + 1) \div 2] \in Pure!Byte
    BY <1>1, <2>1
  <2> QED
    BY <2>2, Halves
<1> HIDE DEF h
<1>4. ASSUME NEW i \in 1..(2 * Len(t))
      PROVE  h[i] \in Pure!Byte /\ h[i] \in DOMAIN HexValue /\ HexValue[h[i]] = Half(i)
  <2>1. h[i] = HexDigit[1 + Half(i)]
    BY <1>2, Zenon
  <2>2. Half(i) \in 0..(Pure!Base - 1)
    BY <1>3
  <2> HIDE DEF Half
  <2> QED
    BY <2>1, <2>2, Digits
<1>5. h \in Seq(Pure!Byte) /\ Len(h) = 2 * Len(t)
  <2>1. h \in [1..(2 * Len(t)) -> Pure!Byte]
    <3>1. h = [i \in 1..(2 * Len(t)) |-> h[i]]
      BY <1>2
    <3> QED
      BY <1>4, <3>1
  <2>2. 2 * Len(t) \in Nat
    BY <1>1
  <2> QED
    BY <2>1, <2>2, FunctionIsSeq
<1>6. DOMAIN h = 1..(2 * Len(t))
  BY <1>5, LenProperties
<1>7. ASSUME NEW n \in 1..Len(t)
      PROVE  /\ HexValue[h[2 * n - 1]] = t[n] \div Pure!Base
             /\ HexValue[h[2 * n]] = t[n] % Pure!Base
  <2>1. /\ 2 * n - 1 \in 1..(2 * Len(t)) /\ (2 * n - 1) % 2 = 1 /\ ((2 * n - 1) + 1) \div 2 = n
        /\ 2 * n \in 1..(2 * Len(t)) /\ (2 * n) % 2 = 0 /\ (2 * n + 1) \div 2 = n
    BY <1>1
  <2>2. ASSUME NEW i \in Nat, NEW k, (i + 1) \div 2 = k
        PROVE  /\ i % 2 = 1 => Half(i) = t[k] \div Pure!Base
               /\ i % 2 = 0 => Half(i) = t[k] % Pure!Base
    BY <2>2
  <2>3. Half(2 * n - 1) = t[n] \div Pure!Base /\ Half(2 * n) = t[n] % Pure!Base
    <3>1. 2 * n - 1 \in Nat /\ 2 * n \in Nat
      BY <1>1
    <3> HIDE DEF Half
    <3> QED
      BY <2>1, <2>2, <3>1
  <2> HIDE DEF Half
  <2> QED
    BY <1>4, <2>1, <2>3
<1> QED
  BY <1>4, <1>5, <1>6, <1>7 DEF h

(* Bytes come back from their digits.                                      *)
LEMMA FromHexToHex ==
  ASSUME Pure!CodingIsSound, NEW t \in Seq(Pure!Byte)
  PROVE  Pure!FromHex(Pure!ToHex(t)) = t
<1> DEFINE h == Pure!ToHex(t)
           u == Pure!FromHex(h)
<1>1. /\ Len(h) = 2 * Len(t)
      /\ \A n \in 1..Len(t) : /\ HexValue[h[2 * n - 1]] = t[n] \div Pure!Base
                              /\ HexValue[h[2 * n]] = t[n] % Pure!Base
  BY HexForm
<1>2. Len(t) \in Nat /\ \A n \in 1..Len(t) : t[n] \in Pure!Byte
  BY LenProperties, ElementOfSeq
<1>3. Len(h) \div 2 = Len(t)
  BY <1>1, <1>2
<1> HIDE DEF h
<1>4. u = [n \in 1..Len(t) |-> Pure!Base * HexValue[h[2 * n - 1]] + HexValue[h[2 * n]]]
  BY <1>3 DEF Pure!FromHex
<1> HIDE DEF u
<1>5. ASSUME NEW n \in 1..Len(t) PROVE u[n] = t[n]
  <2>1. u[n] = Pure!Base * HexValue[h[2 * n - 1]] + HexValue[h[2 * n]]
    BY <1>4, Zenon
  <2>2. Pure!Base * (t[n] \div Pure!Base) + (t[n] % Pure!Base) = t[n]
    BY <1>2, Halves
  <2> QED
    BY <1>1, <2>1, <2>2
<1>6. u \in Seq(Pure!Byte) /\ Len(u) = Len(t)
  <2>1. u \in [1..Len(t) -> Pure!Byte]
    <3>1. u = [n \in 1..Len(t) |-> u[n]]
      BY <1>4
    <3> QED
      BY <1>2, <1>5, <3>1
  <2> QED
    BY <1>2, <2>1, FunctionIsSeq
<1> QED
  BY <1>5, <1>6, SeqEqual DEF u, h


-----------------------------------------------------------------------------
(* Blocks.                                                                 *)

WholeBlocks == {t \in Seq(Pure!Byte) : Len(t) % BlockSize = 0}

(* A text of whole blocks has all places of its blocks.                    *)
LEMMA BlocksInText ==
  ASSUME Pure!CodingIsSound, NEW t \in WholeBlocks
  PROVE  \E q \in Nat :
           /\ Len(t) = BlockSize * q
           /\ \A n \in 0..(q - 1) : /\ Pure!BlockAt(t, n) \in Pure!Block
                                    /\ \A j \in 1..BlockSize : BlockSize * n + j \in 1..Len(t)
<1> DEFINE q == Len(t) \div BlockSize
<1>1. BlockSize \in Nat \ {0} /\ Len(t) \in Nat /\ Len(t) % BlockSize = 0 /\ t \in Seq(Pure!Byte)
  BY LenProperties DEF Pure!CodingIsSound, WholeBlocks
<1>2. q \in Nat /\ Len(t) = BlockSize * q
  BY <1>1
<1> HIDE DEF q
<1>3. ASSUME NEW n \in 0..(q - 1), NEW j \in 1..BlockSize PROVE BlockSize * n + j \in 1..Len(t)
  <2>1. n + 1 <= q /\ n \in Nat
    BY <1>2
  <2>2. BlockSize * (n + 1) <= BlockSize * q /\ BlockSize * (n + 1) = BlockSize * n + BlockSize
    BY <1>1, <1>2, <2>1
  <2>3. BlockSize * n \in Nat /\ BlockSize * q \in Nat
    BY <1>1, <1>2, <2>1
  <2> QED
    BY <1>1, <1>2, <2>2, <2>3
<1>4. ASSUME NEW n \in 0..(q - 1) PROVE Pure!BlockAt(t, n) \in Pure!Block
  <2>1. \A j \in 1..BlockSize : t[BlockSize * n + j] \in Pure!Byte
    BY <1>1, <1>3, ElementOfSeq
  <2> QED
    BY <2>1 DEF Pure!BlockAt, Pure!Block
<1> QED
  BY <1>2, <1>3, <1>4

(* A cipher goes over a text block by block.                               *)
LEMMA OnBlocksForm ==
  ASSUME Pure!CodingIsSound, NEW t \in WholeBlocks, NEW cipher \in [Pure!Block -> Pure!Block]
  PROVE  /\ Pure!OnBlocks(cipher, t) \in WholeBlocks
         /\ Len(Pure!OnBlocks(cipher, t)) = Len(t)
         /\ \A q \in Nat : Len(t) = BlockSize * q =>
              \A n \in 0..(q - 1) :
                Pure!BlockAt(Pure!OnBlocks(cipher, t), n) = cipher[Pure!BlockAt(t, n)]
<1> DEFINE u == Pure!OnBlocks(cipher, t)
           Of(i) == cipher[Pure!BlockAt(t, (i - 1) \div BlockSize)][((i - 1) % BlockSize) + 1]
<1>1. BlockSize \in Nat \ {0} /\ Len(t) \in Nat /\ Len(t) % BlockSize = 0
  BY LenProperties DEF Pure!CodingIsSound, WholeBlocks
<1>2. u = [i \in 1..Len(t) |-> Of(i)]
  BY Zenon DEF Pure!OnBlocks
<1>3. PICK p \in Nat :
        /\ Len(t) = BlockSize * p
        /\ \A n \in 0..(p - 1) : /\ Pure!BlockAt(t, n) \in Pure!Block
                                 /\ \A j \in 1..BlockSize : BlockSize * n + j \in 1..Len(t)
  BY BlocksInText
<1>4. ASSUME NEW i \in 1..Len(t) PROVE Of(i) \in Pure!Byte
  <2>1. (i - 1) \div BlockSize \in 0..(p - 1) /\ ((i - 1) % BlockSize) + 1 \in 1..BlockSize
    <3>1. i \in 1..(BlockSize * p)
      BY <1>3
    <3> QED
      BY <1>1, <3>1, Places
  <2>2. cipher[Pure!BlockAt(t, (i - 1) \div BlockSize)] \in Pure!Block
    BY <1>3, <2>1
  <2> QED
    BY <2>1, <2>2 DEF Pure!Block
<1> HIDE DEF u
<1>5. ASSUME NEW i \in 1..Len(t) PROVE u[i] = Of(i)
  BY <1>2, Zenon
<1>6. u \in Seq(Pure!Byte) /\ Len(u) = Len(t)
  <2>1. u \in [1..Len(t) -> Pure!Byte]
    BY <1>2, <1>4
  <2> QED
    BY <1>1, <2>1, FunctionIsSeq
<1>7. u \in WholeBlocks
  BY <1>1, <1>6 DEF WholeBlocks
<1>8. ASSUME NEW q \in Nat, Len(t) = BlockSize * q, NEW n \in 0..(q - 1)
      PROVE  Pure!BlockAt(u, n) = cipher[Pure!BlockAt(t, n)]
  <2> DEFINE b == cipher[Pure!BlockAt(t, n)]
  <2>1. q = p
    BY <1>1, <1>3, <1>8
  <2>2. b \in [1..BlockSize -> Pure!Byte]
    BY <1>3, <2>1 DEF Pure!Block
  <2>3. ASSUME NEW j \in 1..BlockSize PROVE u[BlockSize * n + j] = b[j]
    <3>1. BlockSize * n + j \in 1..Len(t)
      BY <1>3, <2>1
    <3>2. j - 1 \in 0..(BlockSize - 1) /\ n \in Nat
      BY <1>1
    <3>3. /\ (BlockSize * n + (j - 1)) \div BlockSize = n
          /\ (BlockSize * n + (j - 1)) % BlockSize = j - 1
      <4> DEFINE r == j - 1
      <4>1. r \in 0..(BlockSize - 1)
        BY <3>2
      <4> HIDE DEF r
      <4>2. (BlockSize * n + r) \div BlockSize = n /\ (BlockSize * n + r) % BlockSize = r
        BY <1>1, <3>2, <4>1, QuotientRemainder
      <4> QED
        BY <4>2 DEF r
    <3>4. (BlockSize * n + j) - 1 = BlockSize * n + (j - 1) /\ (j - 1) + 1 = j
      <4>1. BlockSize * n \in Nat
        BY <1>1, <3>2
      <4> QED
        BY <4>1
    <3>5. u[BlockSize * n + j] = Of(BlockSize * n + j)
      BY <1>5, <3>1
    <3> QED
      BY <3>3, <3>4, <3>5
  <2> HIDE DEF b
  <2>4. Pure!BlockAt(u, n) = [j \in 1..BlockSize |-> b[j]]
    BY <2>3 DEF Pure!BlockAt
  <2> QED
    BY <2>2, <2>4 DEF b
<1> QED
  BY <1>6, <1>7, <1>8 DEF u

(* Deciphering undoes the cipher.                                          *)
LEMMA DecryptEncrypt ==
  ASSUME Pure!CodingIsSound, NEW t \in WholeBlocks
  PROVE  Pure!OnBlocks(DecryptBlock, Pure!OnBlocks(EncryptBlock, t)) = t
<1> DEFINE u == Pure!OnBlocks(EncryptBlock, t)
           v == Pure!OnBlocks(DecryptBlock, u)
<1>1. /\ BlockSize \in Nat \ {0}
      /\ EncryptBlock \in [Pure!Block -> Pure!Block] /\ DecryptBlock \in [Pure!Block -> Pure!Block]
      /\ \A b \in Pure!Block : DecryptBlock[EncryptBlock[b]] = b
  BY DEF Pure!CodingIsSound
<1>2. PICK q \in Nat :
        /\ Len(t) = BlockSize * q
        /\ \A n \in 0..(q - 1) : /\ Pure!BlockAt(t, n) \in Pure!Block
                                 /\ \A j \in 1..BlockSize : BlockSize * n + j \in 1..Len(t)
  BY BlocksInText
<1>3. /\ u \in WholeBlocks /\ Len(u) = Len(t)
      /\ \A n \in 0..(q - 1) : Pure!BlockAt(u, n) = EncryptBlock[Pure!BlockAt(t, n)]
  BY <1>1, <1>2, OnBlocksForm
<1> HIDE DEF u
<1>4. /\ v \in WholeBlocks /\ Len(v) = Len(u)
      /\ \A n \in 0..(q - 1) : Pure!BlockAt(v, n) = DecryptBlock[Pure!BlockAt(u, n)]
  <2>1. Len(u) = BlockSize * q
    BY <1>2, <1>3
  <2>2. /\ v \in WholeBlocks /\ Len(v) = Len(u)
        /\ \A m \in Nat : Len(u) = BlockSize * m =>
             \A n \in 0..(m - 1) : Pure!BlockAt(v, n) = DecryptBlock[Pure!BlockAt(u, n)]
    BY <1>1, <1>3, OnBlocksForm
  <2> HIDE DEF v
  <2> QED
    BY <2>1, <2>2
<1> HIDE DEF v
<1>5. ASSUME NEW i \in 1..Len(t) PROVE v[i] = t[i]
  <2> DEFINE n == (i - 1) \div BlockSize
             j == ((i - 1) % BlockSize) + 1
  <2>1. n \in 0..(q - 1) /\ j \in 1..BlockSize /\ BlockSize * n + j = i
    BY <1>1, <1>2, Places
  <2> HIDE DEF n, j
  <2>2. Pure!BlockAt(v, n) = Pure!BlockAt(t, n)
    BY <1>1, <1>2, <1>3, <1>4, <2>1
  <2>3. Pure!BlockAt(v, n)[j] = v[i] /\ Pure!BlockAt(t, n)[j] = t[i]
    BY <2>1 DEF Pure!BlockAt
  <2> QED
    BY <2>2, <2>3
<1>6. t \in Seq(Pure!Byte) /\ v \in Seq(Pure!Byte) /\ Len(v) = Len(t)
  BY <1>3, <1>4 DEF WholeBlocks
<1> QED
  BY <1>5, <1>6, SeqEqual DEF u, v


-----------------------------------------------------------------------------
(* Passwords.                                                              *)

(* u is s followed by t.                                                   *)
Joins(s, t, u, S) ==
  /\ u \in Seq(S) /\ Len(u) = Len(s) + Len(t)
  /\ \A n \in 1..Len(s) : u[n] = s[n]
  /\ \A n \in 1..Len(t) : u[Len(s) + n] = t[n]

(* Concatenation, by its places.                                           *)
LEMMA Joined ==
  ASSUME NEW S, NEW s \in Seq(S), NEW t \in Seq(S)
  PROVE  Joins(s, t, s \o t, S)
BY DEF Joins

(* A padded text is the text, then at least one zero, in whole blocks.     *)
LEMMA PaddingForm ==
  ASSUME Pure!CodingIsSound, NEW p \in Seq(Pure!Byte)
  PROVE  LET t == Pure!ZeroPadding(p)
         IN  /\ t \in WholeBlocks /\ Len(t) \in Nat /\ Len(p) \in Nat /\ Len(t) > Len(p)
             /\ \A i \in 1..Len(p) : t[i] = p[i]
             /\ \A i \in (Len(p) + 1)..Len(t) : t[i] = 0
<1> DEFINE B == BlockSize
           m == B - (Len(p) % B)
           z == [i \in 1..m |-> 0]
           t == Pure!ZeroPadding(p)
<1>1. B \in Nat \ {0} /\ Len(p) \in Nat
  BY LenProperties DEF Pure!CodingIsSound
<1>2. m \in 1..B /\ (Len(p) + m) % B = 0
  <2> DEFINE q == Len(p) \div B
             r == Len(p) % B
  <2>1. q \in Nat /\ r \in 0..(B - 1) /\ Len(p) = B * q + r
    BY <1>1
  <2>2. Len(p) + m = B * (q + 1) + 0
    <3> HIDE DEF q, r
    <3>1. B * (q + 1) = B * q + B /\ B * q \in Nat
      BY <1>1, <2>1
    <3>2. m = B - r
      BY DEF r
    <3> HIDE DEF m
    <3> QED
      BY <1>1, <2>1, <3>1, <3>2
  <2>3. q + 1 \in Nat /\ 0 \in 0..(B - 1)
    BY <1>1, <2>1
  <2> HIDE DEF q
  <2>4. (B * (q + 1) + 0) % B = 0
    BY <1>1, <2>3, QuotientRemainder
  <2>5. m \in 1..B
    BY <1>1, <2>1
  <2> QED
    BY <2>2, <2>4, <2>5
<1>3. 0 \in Pure!Byte
  <2>1. Pure!Base \in Nat \ {0}
    BY LenProperties DEF Pure!CodingIsSound, Pure!Base
  <2> HIDE DEF Pure!Base
  <2>2. Pure!Base * Pure!Base \in Nat /\ Pure!Base * Pure!Base >= 1
    BY <2>1
  <2> QED
    BY <2>2 DEF Pure!Byte
<1>4. t = p \o z
  BY DEF Pure!ZeroPadding
<1> HIDE DEF m
<1>5. z \in Seq(Pure!Byte) /\ Len(z) = m
  <2>1. z \in [1..m -> Pure!Byte] /\ m \in Nat
    BY <1>1, <1>2, <1>3
  <2> HIDE DEF z
  <2> QED
    BY <2>1, FunctionIsSeq
<1>6. \A i \in 1..m : z[i] = 0
  OBVIOUS
<1> HIDE DEF z, t
<1>7. /\ t \in Seq(Pure!Byte) /\ Len(t) = Len(p) + m
      /\ \A i \in 1..Len(p) : t[i] = p[i]
      /\ \A i \in 1..m : t[Len(p) + i] = z[i]
  <2>1. Joins(p, z, t, Pure!Byte)
    BY <1>4, <1>5, Joined
  <2> QED
    BY <1>5, <2>1 DEF Joins
<1>8. ASSUME NEW i \in (Len(p) + 1)..Len(t) PROVE t[i] = 0
  <2>1. i - Len(p) \in 1..m /\ Len(p) + (i - Len(p)) = i
    BY <1>1, <1>2, <1>7
  <2> QED
    BY <1>6, <1>7, <2>1
<1>9. t \in WholeBlocks /\ Len(t) \in Nat /\ Len(t) > Len(p)
  BY <1>1, <1>2, <1>7 DEF WholeBlocks
<1> QED
  BY <1>1, <1>7, <1>8, <1>9 DEF t

(* What is padded loses the padding again, and nothing else if it neither  *)
(* begins nor ends with a zero.                                            *)
LEMMA UnPadding ==
  ASSUME Pure!CodingIsSound, NEW p \in Seq(Pure!Byte), Pure!Unpadded(p)
  PROVE  Pure!ZeroUnPadding(Pure!ZeroPadding(p)) = p
<1> DEFINE t == Pure!ZeroPadding(p)
           kept == {i \in DOMAIN t : t[i] # 0}
           first == CHOOSE i \in kept : \A j \in kept : i <= j
           last == CHOOSE i \in kept : \A j \in kept : i >= j
<1>1. /\ t \in Seq(Pure!Byte) /\ Len(t) \in Nat /\ Len(p) \in Nat /\ Len(t) > Len(p)
      /\ \A i \in 1..Len(p) : t[i] = p[i]
      /\ \A i \in (Len(p) + 1)..Len(t) : t[i] = 0
      /\ DOMAIN t = 1..Len(t)
  BY PaddingForm, LenProperties DEF WholeBlocks
<1>2. Pure!ZeroUnPadding(t) = IF kept = {} THEN <<>> ELSE SubSeq(t, first, last)
  BY Zenon DEF Pure!ZeroUnPadding
<1> HIDE DEF t
<1>3. CASE p = <<>>
  <2>1. Len(p) = 0
    BY <1>3, EmptySeq
  <2>2. kept = {}
    BY <1>1, <2>1
  <2> QED
    BY <1>2, <1>3, <2>2 DEF t
<1>4. CASE p # <<>>
  <2>1. Len(p) >= 1 /\ p[1] # 0 /\ p[Len(p)] # 0
    BY <1>1, <1>4, EmptySeq DEF Pure!Unpadded
  <2>2. 1 \in kept /\ Len(p) \in kept /\ \A i \in kept : i \in 1..Len(p)
    BY <1>1, <2>1
  <2>3. first = 1 /\ last = Len(p)
    <3> HIDE DEF kept
    <3>1. first \in kept /\ \A j \in kept : first <= j
      BY <1>1, <2>1, <2>2
    <3>2. last \in kept /\ \A j \in kept : last >= j
      BY <1>1, <2>1, <2>2
    <3> HIDE DEF first, last
    <3> QED
      BY <1>1, <2>1, <2>2, <3>1, <3>2
  <2>4. Pure!ZeroUnPadding(t) = SubSeq(t, 1, Len(p))
    BY <1>2, <2>2, <2>3
  <2> DEFINE s == SubSeq(t, 1, Len(p))
  <2>5. s \in Seq(Pure!Byte) /\ Len(s) = Len(p) /\ \A i \in 1..Len(p) : s[i] = t[i]
    <3>1. \A i \in 1..Len(p) : t[i] \in Pure!Byte
      BY <1>1, ElementOfSeq
    <3>2. /\ s \in Seq(Pure!Byte)
          /\ Len(s) = IF 1 <= Len(p) THEN Len(p) - 1 + 1 ELSE 0
          /\ \A i \in 1..(Len(p) - 1 + 1) : s[i] = t[1 + i - 1]
      BY <1>1, <3>1, SubSeqProperties
    <3>3. Len(p) - 1 + 1 = Len(p) /\ \A i \in 1..Len(p) : 1 + i - 1 = i
      BY <1>1
    <3> HIDE DEF s
    <3> QED
      BY <2>1, <3>2, <3>3
  <2> HIDE DEF s
  <2>6. s = p
    BY <1>1, <2>5, SeqEqual
  <2> QED
    BY <2>4, <2>6 DEF t, s
<1> QED
  BY <1>3, <1>4

(* Encode gives what Decode takes and, without zeros at its ends, returns. *)
LEMMA EncodedForm ==
  ASSUME Pure!CodingIsSound, NEW p \in Seq(Pure!Byte)
  PROVE  /\ Pure!Encode(p) \in Seq(Pure!Byte) /\ Pure!Decodable(Pure!Encode(p))
         /\ Pure!Unpadded(p) => Pure!Decode(Pure!Encode(p)) = p
<1> DEFINE t == Pure!ZeroPadding(p)
           u == Pure!OnBlocks(EncryptBlock, t)
           h == Pure!ToHex(u)
<1>1. BlockSize \in Nat \ {0} /\ EncryptBlock \in [Pure!Block -> Pure!Block]
  BY DEF Pure!CodingIsSound
<1>2. t \in WholeBlocks
  BY PaddingForm
<1>3. Pure!Unpadded(p) => Pure!ZeroUnPadding(t) = p
  BY UnPadding
<1> HIDE DEF t
<1>4. u \in WholeBlocks /\ Pure!OnBlocks(DecryptBlock, u) = t
  BY <1>1, <1>2, OnBlocksForm, DecryptEncrypt
<1> HIDE DEF u
<1>5. /\ h \in Seq(Pure!Byte) /\ Len(h) = 2 * Len(u) /\ \A i \in DOMAIN h : h[i] \in DOMAIN HexValue
      /\ Pure!FromHex(h) = u
  BY <1>4, HexForm, FromHexToHex DEF WholeBlocks
<1> HIDE DEF h
<1>6. Pure!Encode(p) = h
  BY Zenon DEF Pure!Encode, h, u, t
<1>7. Len(h) % (2 * BlockSize) = 0
  <2>1. PICK q \in Nat : Len(u) = BlockSize * q
    BY <1>4, BlocksInText
  <2>2. 2 * BlockSize \in Nat \ {0} /\ 0 \in 0..(2 * BlockSize - 1)
    BY <1>1
  <2>3. Len(h) = (2 * BlockSize) * q + 0
    BY <1>1, <1>5, <2>1
  <2>4. ((2 * BlockSize) * q + 0) % (2 * BlockSize) = 0
    <3> DEFINE b == 2 * BlockSize
    <3> HIDE DEF b
    <3>1. b \in Nat \ {0} /\ 0 \in 0..(b - 1)
      BY <2>2 DEF b
    <3>2. (b * q + 0) % b = 0
      BY <3>1, QuotientRemainder
    <3> QED
      BY <3>2 DEF b
  <2> QED
    BY <2>3, <2>4
<1>8. Pure!Decodable(h)
  BY <1>5, <1>7, Zenon DEF Pure!Decodable
<1>9. Pure!Decode(h) = Pure!ZeroUnPadding(t)
  BY <1>4, <1>5, Zenon DEF Pure!Decode
<1> QED
  BY <1>3, <1>5, <1>6, <1>8, <1>9


(* The calls about accounts and what they may be given.                    *)
IsAccountCall(q) ==
  \/ q.op \in {"password", "again"} /\ q.plain \in Seq(Pure!Byte)
  \/ /\ q.op = "account" /\ q.type \in Pure!Type
     /\ q.c \in [sid : BOOLEAN, instance : BOOLEAN, cluster : BOOLEAN, stored : Seq(Pure!Byte)]
  \/ q.op = "dberror"

(* Encoded once or a second time, a password is the same text.             *)
LEMMA CheckedForm ==
  ASSUME Pure!CodingIsSound, NEW p \in Seq(Pure!Byte)
  PROVE  /\ Pure!EncodeWithCheck(p) \in Seq(Pure!Byte) /\ Pure!Decodable(Pure!EncodeWithCheck(p))
         /\ Pure!EncodeWithCheck(Pure!EncodeWithCheck(p)) = Pure!EncodeWithCheck(p)
         /\ (Pure!Unpadded(p) /\ ~Pure!Decodable(p)) => Pure!Decode(Pure!EncodeWithCheck(p)) = p
<1>1. CASE Pure!Decodable(p)
  <2>1. Pure!EncodeWithCheck(p) = p
    BY <1>1, Zenon DEF Pure!EncodeWithCheck
  <2> QED
    BY <1>1, <2>1
<1>2. CASE ~Pure!Decodable(p)
  <2> DEFINE e == Pure!Encode(p)
  <2>1. Pure!EncodeWithCheck(p) = e
    BY <1>2, Zenon DEF Pure!EncodeWithCheck
  <2>2. e \in Seq(Pure!Byte) /\ Pure!Decodable(e) /\ (Pure!Unpadded(p) => Pure!Decode(e) = p)
    BY EncodedForm
  <2> HIDE DEF e
  <2>3. Pure!EncodeWithCheck(e) = e
    BY <2>2, Zenon DEF Pure!EncodeWithCheck
  <2> QED
    BY <2>1, <2>2, <2>3
<1> QED
  BY <1>1, <1>2

(* The empty text is one without blocks.                                   *)
LEMMA NothingDecodes == Pure!CodingIsSound => Pure!Decodable(<<>>)
<1> SUFFICES ASSUME Pure!CodingIsSound PROVE Pure!Decodable(<<>>)
  OBVIOUS
<1>1. DOMAIN <<>> = {} /\ Len(<<>>) = 0
  OBVIOUS
<1>2. 2 * BlockSize \in Nat \ {0}
  BY DEF Pure!CodingIsSound
<1>3. 0 % (2 * BlockSize) = 0
  BY <1>2
<1> QED
  BY <1>1, <1>3 DEF Pure!Decodable

(* The URLs of the two ways, of every type in every spelling.              *)
LEMMA UrlsAgree ==
  ASSUME NEW type \in Pure!Type, NEW c
  PROVE  /\ type.name \notin {"db2", "tidb"} => Pure!getQueryURL(type, c) = Pure!getJDBCUrl(type, c)
         /\ (type.name \in {"mysql", "tidb"}) <=> (Pure!getQueryURL(type, c).scheme = "mysql")
<1> DEFINE name == type.name
<1>1. name \in Pure!Name /\ Pure!ToLower(type) = name
  BY DEF Pure!Type, Pure!ToLower
<1> HIDE DEF name
<1>2. /\ name \notin {"db2", "tidb"} => Pure!getQueryURL(type, c) = Pure!getJDBCUrl(type, c)
      /\ (name \in {"mysql", "tidb"}) <=> (Pure!getQueryURL(type, c).scheme = "mysql")
  BY <1>1 DEF Pure!Name, Pure!getQueryURL, Pure!getJDBCUrl, Pure!Oracle, Pure!SqlServer,
              Pure!Slash, Pure!NoUrl, Pure!Url
<1> QED
  BY <1>2 DEF name

(* A type in small letters is its name's.                                   *)
LEMMA InSmallLetters ==
  ASSUME NEW type \in Pure!Type, type.lower, NEW name \in Pure!Name
  PROVE  type = Pure!Lower(name) <=> type.name = name
BY DEF Pure!Type, Pure!Lower


(* Every call about an account is answered right. *)
LEMMA AnswersAboutAccounts ==
  ASSUME Pure!CodingIsSound, NEW q, IsAccountCall(q), NEW r \in Pure!Results(q)
  PROVE  Pure!Right(q, r)
<1>1. CASE q.op = "password"
  <2>1. q.plain \in Seq(Pure!Byte)
    BY <1>1 DEF IsAccountCall
  <2>2. r = Pure!PasswordDecode(Pure!EncodeWithCheck(q.plain))
    BY <1>1 DEF Pure!Results
  <2> DEFINE e == Pure!EncodeWithCheck(q.plain)
  <2>3. /\ Pure!Decodable(e)
        /\ (Pure!Unpadded(q.plain) /\ ~Pure!Decodable(q.plain)) => Pure!Decode(e) = q.plain
    BY <2>1, CheckedForm
  <2> HIDE DEF e
  <2>4. r = Pure!Decode(e)
    BY <2>2, <2>3, Zenon DEF Pure!PasswordDecode, e
  <2> QED
    BY <1>1, <2>3, <2>4 DEF Pure!Right
<1>2. CASE q.op = "again"
  <2>1. q.plain \in Seq(Pure!Byte)
    BY <1>2 DEF IsAccountCall
  <2>2. r = Pure!EncodeWithCheck(Pure!EncodeWithCheck(q.plain))
    BY <1>2 DEF Pure!Results
  <2>3. r = Pure!EncodeWithCheck(q.plain)
    BY <2>1, <2>2, CheckedForm
  <2> QED
    BY <1>2, <2>3 DEF Pure!Right
<1>3. CASE q.op = "account"
  <2> DEFINE p == q.c.stored
             e == Pure!EncodeWithCheck(p)
             c == [q.c EXCEPT !.stored = e]
  <2>1. /\ q.type \in Pure!Type /\ p \in Seq(Pure!Byte)
        /\ q.c \in [sid : BOOLEAN, instance : BOOLEAN, cluster : BOOLEAN, stored : Seq(Pure!Byte)]
    BY <1>3 DEF IsAccountCall
  <2>2. r = Pure!GetQueryData(q.type, c)
    BY <1>3 DEF Pure!Results
  <2>3. /\ Pure!Decodable(e)
        /\ (Pure!Unpadded(p) /\ ~Pure!Decodable(p)) => Pure!Decode(e) = p
    BY <2>1, CheckedForm
  <2>4. c.stored = e /\ c.sid = q.c.sid /\ c.instance = q.c.instance
    BY <2>1
  <2> HIDE DEF e, c
  <2>5. ASSUME Pure!Unpadded(p), ~Pure!Decodable(p) PROVE r.password = p
    <3>1. Pure!Decode(e) = p /\ p # <<>>
      BY <2>3, <2>5, NothingDecodes
    <3>2. r.password = IF Pure!Decodable(c.stored) /\ Pure!Decode(c.stored) # <<>>
                       THEN Pure!Decode(c.stored) ELSE c.stored
      BY <2>2 DEF Pure!GetQueryData
    <3> QED
      BY <2>3, <2>4, <3>1, <3>2
  <2>6. /\ r.url = Pure!getQueryURL(q.type, c)
        /\ r.type = IF q.type = Pure!Lower("tidb") THEN Pure!Lower("mysql") ELSE q.type
    BY <2>2 DEF Pure!GetQueryData
  <2>7. Pure!getJDBCUrl(q.type, c) = Pure!getJDBCUrl(q.type, q.c)
    BY <2>4 DEF Pure!getJDBCUrl, Pure!SqlServer
  <2>8. q.type.name \notin {"db2", "tidb"} => r.url = Pure!getJDBCUrl(q.type, q.c)
    BY <2>1, <2>6, <2>7, UrlsAgree
  <2>9. ASSUME q.type.lower
        PROVE  (r.type = Pure!Lower("mysql")) <=> (r.url.scheme = "mysql")
    <3>1. /\ q.type = Pure!Lower("tidb") <=> q.type.name = "tidb"
          /\ q.type = Pure!Lower("mysql") <=> q.type.name = "mysql"
      <4>1. {"tidb", "mysql"} \subseteq Pure!Name
        BY DEF Pure!Name
      <4> QED
        BY <2>1, <2>9, <4>1, InSmallLetters
    <3>2. (q.type.name \in {"mysql", "tidb"}) <=> (r.url.scheme = "mysql")
      BY <2>1, <2>6, UrlsAgree
    <3>3. CASE q.type = Pure!Lower("tidb")
      BY <2>6, <3>1, <3>2, <3>3
    <3>4. CASE q.type # Pure!Lower("tidb")
      BY <2>6, <3>1, <3>2, <3>4
    <3> QED
      BY <3>3, <3>4
  <2> QED
    BY <1>3, <2>5, <2>8, <2>9 DEF Pure!Right
<1>4. CASE q.op = "dberror"
  <2>1. r = Pure!CatchErrorCode(q.type, q.message)
    BY <1>4 DEF Pure!Results
  <2>2. ASSUME NEW name \in DOMAIN Pure!AuthMessage, q.type = Pure!Lower(name),
               q.message = Pure!AuthMessage[name]
        PROVE  r = "ErrDBUserAuth"
    <3>1. \/ name = "oracle" /\ q.message = "ORA01017"
          \/ name = "mysql" /\ q.message = "Access denied"
          \/ name = "dm" /\ q.message = "Invalid username"
      <4>1. /\ DOMAIN Pure!AuthMessage = {"oracle", "mysql", "dm"}
            /\ Pure!AuthMessage["oracle"] = "ORA01017" /\ Pure!AuthMessage["mysql"] = "Access denied"
            /\ Pure!AuthMessage["dm"] = "Invalid username"
        BY DEF Pure!AuthMessage
      <4> QED
        BY <2>2, <4>1
    <3>2. "ORA01017" \in DOMAIN Pure!OracleCodeMap /\ Pure!OracleCodeMap["ORA01017"] = "ErrDBUserAuth"
      BY DEF Pure!OracleCodeMap
    <3>9. \A m, n : Pure!Lower(m) = Pure!Lower(n) => m = n
      BY DEF Pure!Lower
    <3>3. CASE name = "oracle" /\ q.message = "ORA01017"
      BY <2>1, <2>2, <3>2, <3>3, <3>9 DEF Pure!CatchErrorCode
    <3>4. CASE name = "mysql" /\ q.message = "Access denied"
      BY <2>1, <2>2, <3>4, <3>9 DEF Pure!CatchErrorCode
    <3>5. CASE name = "dm" /\ q.message = "Invalid username"
      BY <2>1, <2>2, <3>5, <3>9 DEF Pure!CatchErrorCode
    <3> QED
      BY <3>1, <3>3, <3>4, <3>5
  <2> QED
    BY <1>4, <2>2 DEF Pure!Right
<1>5. q.op \in {"password", "again", "account", "dberror"}
  BY DEF IsAccountCall
<1> QED
  BY <1>1, <1>2, <1>3, <1>4, <1>5


(* The calls that are made are such calls.                                 *)
LEMMA AccountCallsAre ==
  ASSUME Pure!AccountCall, Pure!CodingIsSound
  PROVE  IsAccountCall(call)
<1>1. ASSUME NEW op \in {"password", "again"}, NEW p \in Pure!UpTo(Pure!Byte, 4),
             call = [op |-> op, plain |-> p]
      PROVE  IsAccountCall(call)
  <2>1. p \in Seq(Pure!Byte)
    BY BoundedTexts
  <2> QED
    BY <1>1, <2>1 DEF IsAccountCall
<1>2. ASSUME NEW type \in Pure!Type, NEW sid \in BOOLEAN, NEW instance \in BOOLEAN,
             NEW cluster \in BOOLEAN, NEW p \in Seq(Pure!Byte),
             call = [op |-> "account", type |-> type,
                     c |-> [sid |-> sid, instance |-> instance, cluster |-> cluster, stored |-> p]]
      PROVE  IsAccountCall(call)
  BY <1>2 DEF IsAccountCall
<1>3. ASSUME NEW type \in Pure!Type, NEW m,
             call = [op |-> "dberror", type |-> type, message |-> m]
      PROVE  IsAccountCall(call)
  BY <1>3 DEF IsAccountCall
<1>4. ASSUME NEW p \in Pure!UpTo(Pure!Byte, 1) \cup {Pure!Encode(q) : q \in Pure!UpTo(Pure!Byte, 1)}
      PROVE  p \in Seq(Pure!Byte)
  <2>1. \A q \in Pure!UpTo(Pure!Byte, 1) : q \in Seq(Pure!Byte) /\ Pure!Encode(q) \in Seq(Pure!Byte)
    BY BoundedTexts, EncodedForm
  <2> QED
    BY <2>1, Zenon
<1>5. CASE \E op \in {"password", "again"} : \E plain \in Pure!UpTo(Pure!Byte, 4) :
             call = [op |-> op, plain |-> plain]
  BY <1>1, <1>5, Zenon
<1>6. CASE \E type \in Pure!Type : \E sid, instance, cluster \in BOOLEAN :
             \E p \in Pure!UpTo(Pure!Byte, 1) \cup {Pure!Encode(q) : q \in Pure!UpTo(Pure!Byte, 1)} :
               call = [op |-> "account", type |-> type,
                       c |-> [sid |-> sid, instance |-> instance, cluster |-> cluster, stored |-> p]]
  BY <1>2, <1>4, <1>6, Zenon
<1>7. CASE \E type \in Pure!Type :
             \E m \in DOMAIN Pure!OracleCodeMap \cup
                       {"network adapter", "Access denied", "Invalid username", "other"} :
               call = [op |-> "dberror", type |-> type, message |-> m]
  BY <1>3, <1>7, Zenon
<1> QED
  BY <1>5, <1>6, <1>7, Zenon DEF Pure!AccountCall


-----------------------------------------------------------------------------
(* PureCalls: a call returns one of its results.                           *)

(* The inductive invariant: a call stays such a call, and its answer right.*)
AccountsInv ==
  /\ Pure!Accounts => IsAccountCall(call)
  /\ Pure!AccountsRight

(* What the calls about texts are named.                                    *)
LEMMA FormatOps == Pure!FormatCall => call.op = "format"
<1>1. \A t, d : call = [op |-> "format", text |-> t, data |-> d] => call.op = "format"
  OBVIOUS
<1> QED
  BY <1>1, Zenon DEF Pure!FormatCall

(* It holds before the call.                                               *)
LEMMA AccountsBegin ==
  ASSUME Pure!Init, Pure!CodingIsSound
  PROVE  AccountsInv
<1>1. Pure!ListCall => call.op \in {"diff", "intersect", "duplicates", "excel", "pages"}
  BY DEF Pure!ListCall
<1>2. Pure!ConversionCall => call.op \in {"ip", "emoji", "coding", "error", "code"}
  BY DEF Pure!ConversionCall
<1>3. Pure!Accounts => Pure!AccountCall
  BY <1>1, <1>2, FormatOps DEF Pure!Init, Pure!Accounts
<1> QED
  BY <1>3, AccountCallsAre DEF AccountsInv, Pure!AccountsRight, Pure!Init

(* A call that returns keeps it.                                           *)
LEMMA AccountsStep ==
  ASSUME AccountsInv, [Pure!Next]_Pure!pureVars, Pure!CodingIsSound
  PROVE  AccountsInv'
<1>1. CASE UNCHANGED Pure!pureVars
  BY <1>1 DEF AccountsInv, Pure!pureVars, Pure!Accounts, Pure!AccountsRight
<1>2. CASE Pure!Next
  <2>1. call' = call /\ (Pure!Accounts' <=> Pure!Accounts)
    BY <1>2 DEF Pure!Next, Pure!Accounts
  <2>2. ASSUME Pure!Accounts PROVE Pure!Right(call, returned'[1])
    <3>1. ~Pure!Lists /\ ~Pure!Formats /\ ~Pure!Conversions
      BY <2>2 DEF Pure!Accounts, Pure!Lists, Pure!Formats, Pure!Conversions
    <3>2. PICK r \in Pure!Results(call) : returned' = <<r>>
      BY <1>2, <3>1, Zenon DEF Pure!Next, Pure!Returns
    <3>3. IsAccountCall(call)
      BY <2>2 DEF AccountsInv
    <3>4. Pure!Right(call, r)
      BY <3>2, <3>3, AnswersAboutAccounts
    <3>5. <<r>>[1] = r
      OBVIOUS
    <3> QED
      BY <3>2, <3>4, <3>5, Zenon
  <2>3. Pure!AccountsRight'
    BY <2>1, <2>2, Zenon DEF Pure!AccountsRight
  <2>4. (Pure!Accounts => IsAccountCall(call))'
    BY <2>1 DEF AccountsInv
  <2> QED
    BY <2>3, <2>4 DEF AccountsInv
<1> QED
  BY <1>1, <1>2

(* Stored passwords come back, two encodings are one, and requests and      *)
(* connections agree on URLs: src/bbc/bbc.go and src/utils/encryption.     *)
THEOREM AccountsAnswered == Pure!Spec => []Pure!AccountsRight
<1>1. Pure!CodingIsSound
  BY CodingAssumption
<1>2. Pure!Init => AccountsInv
  BY <1>1, AccountsBegin
<1>3. AccountsInv /\ [Pure!Next]_Pure!pureVars => AccountsInv'
  BY <1>1, AccountsStep
<1>4. AccountsInv => Pure!AccountsRight
  BY DEF AccountsInv
<1> QED
  BY <1>2, <1>3, <1>4, PTL DEF Pure!Spec

-----------------------------------------------------------------------------
(* ArrayDiff and ArrayIntersect.                                           *)

(* An element occurs in the other lists if one of them has it.             *)
LEMMA OccurrencesForm ==
  ASSUME NEW T, NEW others \in Seq(Seq(T)), NEW x
  PROVE  /\ IsFiniteSet(Pure!L!Occurrences(x, others))
         /\ Pure!L!Occurrences(x, others) # {} <=> x \in Pure!L!Union(others)
<1> DEFINE Row(p) == {p} \X (DOMAIN others[p])
           rows == [p \in DOMAIN others |-> Row(p)]
           R == {Row(p) : p \in DOMAIN others}
           O == Pure!L!Occurrences(x, others)
<1>1. Len(others) \in Nat /\ DOMAIN others = 1..Len(others)
  BY LenProperties
<1>2. ASSUME NEW p \in DOMAIN others PROVE IsFiniteSet(Row(p))
  <2>1. others[p] \in Seq(T)
    BY <1>1, ElementOfSeq
  <2>2. Len(others[p]) \in Nat /\ DOMAIN others[p] = 1..Len(others[p])
    BY <2>1, LenProperties
  <2>3. IsFiniteSet(DOMAIN others[p]) /\ IsFiniteSet({p})
    <3>1. IsFiniteSet(1..Len(others[p]))
      BY <2>2, FS_Interval
    <3> QED
      BY <2>2, <3>1, FS_Singleton
  <2> QED
    BY <2>3, FS_Product
<1>3. IsFiniteSet(R)
  <2>1. rows \in Surjection(DOMAIN others, R)
    BY DEF Surjection
  <2>2. IsFiniteSet(DOMAIN others)
    BY <1>1, FS_Interval
  <2> HIDE DEF rows, R
  <2> QED
    BY <2>1, <2>2, FS_Surjection
<1>4. IsFiniteSet(UNION R)
  BY <1>2, <1>3, FS_UNION
<1>5. O = {pair \in UNION R : others[pair[1]][pair[2]] = x}
  BY Zenon DEF Pure!L!Occurrences
<1>6. IsFiniteSet(O)
  <2> HIDE DEF R, O
  <2>1. O \in SUBSET (UNION R)
    BY <1>5
  <2> QED
    BY <1>4, <2>1, FS_Subset
<1>7. ASSUME O # {} PROVE x \in Pure!L!Union(others)
  <2>1. PICK pair : pair \in UNION R /\ others[pair[1]][pair[2]] = x
    BY <1>5, <1>7
  <2>2. PICK p \in DOMAIN others : pair \in Row(p)
    BY <2>1
  <2>3. pair[1] = p /\ pair[2] \in DOMAIN others[p]
    BY <2>2
  <2> QED
    BY <2>1, <2>3 DEF Pure!L!Union, Pure!L!ToSet
<1>8. ASSUME x \in Pure!L!Union(others) PROVE O # {}
  <2>1. PICK p \in DOMAIN others : x \in Pure!L!ToSet(others[p])
    BY <1>8 DEF Pure!L!Union
  <2>2. PICK a \in DOMAIN others[p] : others[p][a] = x
    BY <2>1 DEF Pure!L!ToSet
  <2>3. <<p, a>> \in Row(p) /\ Row(p) \in R
    OBVIOUS
  <2>4. <<p, a>> \in UNION R
    BY <2>3
  <2>5. <<p, a>>[1] = p /\ <<p, a>>[2] = a
    OBVIOUS
  <2> HIDE DEF R
  <2> QED
    BY <1>5, <2>2, <2>4, <2>5
<1> QED
  BY <1>6, <1>7, <1>8

(* What the counters tell.                                                 *)
LEMMA TmpForm ==
  ASSUME NEW T, NEW first \in Seq(T), NEW others \in Seq(Seq(T)), NEW x \in Pure!L!ToSet(first)
  PROVE  /\ Pure!L!Tmp(first, others)[x] = 1 <=> x \notin Pure!L!Union(others)
         /\ Pure!L!Tmp(first, others)[x] > 1 <=> x \in Pure!L!Union(others)
<1> DEFINE O == Pure!L!Occurrences(x, others)
<1>1. IsFiniteSet(O) /\ (O # {} <=> x \in Pure!L!Union(others))
  BY OccurrencesForm
<1>2. Pure!L!Tmp(first, others)[x] = 1 + Cardinality(O)
  <2>1. Pure!L!Tmp(first, others)[x] = 1 + Pure!L!Cardinality(O)
    BY Zenon DEF Pure!L!Tmp
  <2> QED
    BY <2>1, SameCardinality
<1> HIDE DEF O
<1>3. Cardinality(O) \in Nat /\ (Cardinality(O) = 0 <=> O = {})
  BY <1>1, FS_CardinalityType, FS_EmptySet
<1> QED
  BY <1>1, <1>2, <1>3

(* The difference from others, and the intersection with any of them.       *)
LEMMA SetsRight ==
  ASSUME NEW T, NEW first \in Seq(T), NEW others \in Seq(Seq(T))
  PROVE  /\ Pure!L!ArrayDiff(first, others) = Pure!L!ToSet(first) \ Pure!L!Union(others)
         /\ others = <<>> \/ Pure!L!ArrayIntersect(first, others) = Pure!L!ToSet(first) \cap Pure!L!Union(others)
<1> DEFINE F == Pure!L!ToSet(first)
           U == Pure!L!Union(others)
           tmp == Pure!L!Tmp(first, others)
<1>1. first = <<>> => F = {}
  BY DEF Pure!L!ToSet
<1>2. others = <<>> => U = {}
  BY DEF Pure!L!Union
<1>3. \A x \in F : (tmp[x] = 1 <=> x \notin U) /\ (tmp[x] > 1 <=> x \in U)
  BY TmpForm
<1>4. Pure!L!ArrayDiff(first, others) =
        IF first = <<>> \/ others = <<>> THEN F ELSE {x \in F : tmp[x] = 1}
  BY Zenon DEF Pure!L!ArrayDiff
<1>5. Pure!L!ArrayIntersect(first, others) =
        IF first = <<>> \/ others = <<>> THEN F ELSE {x \in F : tmp[x] > 1}
  BY Zenon DEF Pure!L!ArrayIntersect
<1> HIDE DEF F, U, tmp
<1>6. Pure!L!ArrayDiff(first, others) = F \ U
  BY <1>1, <1>2, <1>3, <1>4
<1>7. others = <<>> \/ Pure!L!ArrayIntersect(first, others) = F \cap U
  BY <1>1, <1>2, <1>3, <1>5
<1> QED
  BY <1>6, <1>7 DEF F, U

(* The intersection has what every list has, and of two lists no more.     *)
LEMMA EveryRight ==
  ASSUME NEW T, NEW first \in Seq(T), NEW others \in Seq(Seq(T))
  PROVE  /\ Pure!L!InEvery(first, others) \subseteq Pure!L!ArrayIntersect(first, others)
         /\ Pure!L!ArrayIntersect(first, others) \subseteq Pure!L!ToSet(first)
         /\ Len(others) = 1 =>
              Pure!L!ArrayIntersect(first, others) = Pure!L!InEvery(first, others)
<1> DEFINE F == Pure!L!ToSet(first)
           U == Pure!L!Union(others)
           E == Pure!L!InEvery(first, others)
<1>1. Len(others) \in Nat /\ DOMAIN others = 1..Len(others)
  BY LenProperties
<1>2. E \subseteq F /\ (DOMAIN others # {} => E \subseteq U)
  BY DEF Pure!L!InEvery, Pure!L!Union
<1>3. ASSUME Len(others) = 1 PROVE F \cap U = E
  <2>1. DOMAIN others = {1}
    BY <1>1, <1>3
  <2>2. U = Pure!L!ToSet(others[1])
    BY <2>1 DEF Pure!L!Union
  <2> HIDE DEF U
  <2> QED
    BY <2>1, <2>2 DEF Pure!L!InEvery
<1>4. others = <<>> => Pure!L!ArrayIntersect(first, others) = F
  BY DEF Pure!L!ArrayIntersect
<1>5. others # <<>> => /\ DOMAIN others # {}
                      /\ Pure!L!ArrayIntersect(first, others) = F \cap U
  <2>1. others # <<>> => Len(others) # 0
    BY EmptySeq
  <2>2. others # <<>> => 1 \in DOMAIN others
    BY <1>1, <2>1
  <2>3. others = <<>> \/ Pure!L!ArrayIntersect(first, others) = F \cap U
    BY SetsRight, Zenon
  <2> QED
    BY <2>2, <2>3, Zenon
<1>6. Len(others) = 1 => others # <<>>
  <2>1. Len(<<>>) = 0 /\ 0 # 1
    OBVIOUS
  <2> QED
    BY <2>1, Zenon
<1> HIDE DEF F, U, E
<1>7. /\ E \subseteq Pure!L!ArrayIntersect(first, others)
      /\ Pure!L!ArrayIntersect(first, others) \subseteq F
  BY <1>2, <1>4, <1>5
<1> QED
  BY <1>3, <1>5, <1>6, <1>7 DEF F, E

-----------------------------------------------------------------------------
(* SliceRemoveDuplicate.                                                   *)

New(l) == {t \in DOMAIN l : \A u \in 1..(t - 1) : l[u] # l[t]}

(* Each element is new once, at its first place.                           *)
LEMMA NewForm ==
  ASSUME NEW T, NEW l \in Seq(T)
  PROVE  /\ New(l) \in SUBSET Nat /\ IsFiniteSet(New(l))
         /\ \A i \in DOMAIN l : \E t \in New(l) : l[t] = l[i]
         /\ \A t \in New(l) : Pure!L!First(l, l[t]) = t
<1>1. Len(l) \in Nat /\ DOMAIN l = 1..Len(l)
  BY LenProperties
<1>2. New(l) \in SUBSET (1..Len(l)) /\ IsFiniteSet(1..Len(l))
  BY <1>1, FS_Interval DEF New
<1>3. ASSUME NEW i \in DOMAIN l PROVE \E t \in New(l) : l[t] = l[i]
  <2> DEFINE S == {j \in DOMAIN l : l[j] = l[i]}
  <2>1. S \in SUBSET Nat /\ S # {}
    BY <1>1
  <2>2. PICK t \in S : \A j \in S : t <= j
    <3> HIDE DEF S
    <3> QED
      BY <2>1, Least
  <2>3. ASSUME NEW u \in 1..(t - 1) PROVE l[u] # l[t]
    <3>1. u \in DOMAIN l /\ u < t
      BY <1>1, <2>2
    <3> QED
      BY <1>1, <2>2, <3>1
  <2> QED
    BY <2>2, <2>3 DEF New
<1>4. ASSUME NEW t \in New(l) PROVE Pure!L!First(l, l[t]) = t
  <2> DEFINE Is(i) == l[i] = l[t] /\ \A j \in 1..(i - 1) : l[j] # l[t]
  <2>1. t \in DOMAIN l /\ Is(t)
    BY DEF New
  <2>2. ASSUME NEW i \in DOMAIN l, Is(i) PROVE i = t
    <3>1. i \in 1..Len(l) /\ t \in 1..Len(l)
      BY <1>1, <2>1
    <3>2. ~(i < t)
      <4> SUFFICES ASSUME i < t PROVE FALSE
        OBVIOUS
      <4>1. i \in 1..(t - 1)
        BY <3>1
      <4> QED
        BY <2>1, <2>2, <4>1
    <3>3. ~(t < i)
      <4> SUFFICES ASSUME t < i PROVE FALSE
        OBVIOUS
      <4>1. t \in 1..(i - 1)
        BY <3>1
      <4> QED
        BY <2>1, <2>2, <4>1
    <3> QED
      BY <3>1, <3>2, <3>3
  <2>3. Pure!L!First(l, l[t]) = CHOOSE i \in DOMAIN l : Is(i)
    BY Zenon DEF Pure!L!First
  <2> HIDE DEF Is
  <2> QED
    BY <2>1, <2>2, <2>3
<1> QED
  BY <1>1, <1>2, <1>3, <1>4, FS_Subset

(* What is left has each element once, in the order of first places.        *)
LEMMA DuplicatesRight ==
  ASSUME NEW T, NEW l \in Seq(T)
  PROVE  LET r == Pure!L!SliceRemoveDuplicate(l)
         IN  /\ Pure!L!Distinct(r) /\ Pure!L!ToSet(r) = Pure!L!ToSet(l)
             /\ \A i, j \in DOMAIN r : i < j => Pure!L!First(l, r[i]) < Pure!L!First(l, r[j])
<1> DEFINE S == New(l)
           C == Cardinality(S)
           a == Pure!L!Ascending(S)
           r == Pure!L!SliceRemoveDuplicate(l)
<1>1. /\ S \in SUBSET Nat /\ IsFiniteSet(S)
      /\ \A i \in DOMAIN l : \E t \in S : l[t] = l[i]
      /\ \A t \in S : Pure!L!First(l, l[t]) = t
  BY NewForm
<1>2. S \subseteq DOMAIN l
  BY DEF New
<1>3. r = [k \in DOMAIN a |-> l[a[k]]]
  BY Zenon DEF Pure!L!SliceRemoveDuplicate, New
<1> HIDE DEF S, a, r
<1>4. /\ C \in Nat /\ DOMAIN a = 1..C
      /\ \A k \in 1..C : a[k] \in S
      /\ \A t \in S : \E k \in 1..C : a[k] = t
      /\ \A k, m \in 1..C : k < m => a[k] < a[m]
  BY <1>1, Ranks DEF a
<1> HIDE DEF C
<1>5. DOMAIN r = 1..C /\ \A k \in 1..C : r[k] = l[a[k]]
  BY <1>3, <1>4
<1>6. \A k \in 1..C : Pure!L!First(l, r[k]) = a[k]
  BY <1>1, <1>4, <1>5
<1>7. \A i, j \in DOMAIN r : i < j => Pure!L!First(l, r[i]) < Pure!L!First(l, r[j])
  BY <1>4, <1>5, <1>6
<1>8. ASSUME NEW i \in DOMAIN r, NEW j \in DOMAIN r, r[i] = r[j] PROVE i = j
  <2>1. a[i] = a[j] /\ a[i] \in Nat
    BY <1>1, <1>4, <1>5, <1>6, <1>8
  <2>2. ~(a[i] < a[j]) /\ ~(a[j] < a[i])
    BY <2>1
  <2>3. i \in 1..C /\ j \in 1..C
    BY <1>5
  <2>4. ~(i < j) /\ ~(j < i)
    BY <1>4, <2>2, <2>3
  <2> QED
    BY <1>4, <2>3, <2>4
<1>9. ASSUME NEW x \in Pure!L!ToSet(r) PROVE x \in Pure!L!ToSet(l)
  BY <1>2, <1>4, <1>5 DEF Pure!L!ToSet
<1>10. ASSUME NEW x \in Pure!L!ToSet(l) PROVE x \in Pure!L!ToSet(r)
  <2>1. PICK i \in DOMAIN l : x = l[i]
    BY DEF Pure!L!ToSet
  <2>2. PICK t \in S : l[t] = l[i]
    BY <1>1
  <2>3. PICK k \in 1..C : a[k] = t
    BY <1>4
  <2>4. k \in DOMAIN r /\ r[k] = x
    BY <1>5, <2>1, <2>2, <2>3
  <2> QED
    BY <2>4 DEF Pure!L!ToSet
<1>11. Pure!L!Distinct(r)
  BY <1>8 DEF Pure!L!Distinct
<1> QED
  BY <1>7, <1>9, <1>10, <1>11, Zenon DEF r

-----------------------------------------------------------------------------
(* ExcelValueLoc.                                                          *)

Turns(header, cols) ==
  {t \in 1..(Len(header) * Len(cols)) :
     header[Pure!L!Column(header, t)] = cols[Pure!L!Wanted(header, t)]}

(* A turn of the inner loop is one column of the header and one wanted.    *)
LEMMA TurnForm ==
  ASSUME NEW T, NEW header \in Seq(T), NEW cols \in Seq(T),
         NEW t \in 1..(Len(header) * Len(cols))
  PROVE  /\ Pure!L!Wanted(header, t) \in 1..Len(cols)
         /\ Pure!L!Column(header, t) \in 1..Len(header)
         /\ Len(header) * (Pure!L!Wanted(header, t) - 1) + Pure!L!Column(header, t) = t
<1> DEFINE W == Len(header)
           N == Len(cols)
           d == (t - 1) \div W
           e == ((t - 1) % W) + 1
<1>1. W \in Nat /\ N \in Nat
  BY LenProperties
<1>2. W \in Nat \ {0}
  <2> SUFFICES ASSUME W = 0 PROVE FALSE
    BY <1>1
  <2>1. W * N = 0
    BY <1>1
  <2> QED
    BY <2>1
<1>3. d \in 0..(N - 1) /\ e \in 1..W /\ W * d + e = t
  <2> HIDE DEF W, N
  <2>1. t \in 1..(W * N)
    BY DEF W, N
  <2> QED
    BY <1>1, <1>2, <2>1, Places
<1>4. Pure!L!Wanted(header, t) = d + 1 /\ Pure!L!Column(header, t) = e
  BY DEF Pure!L!Wanted, Pure!L!Column
<1> HIDE DEF d, e
<1>5. d + 1 \in 1..N /\ (d + 1) - 1 = d
  BY <1>1, <1>3
<1> QED
  BY <1>3, <1>4, <1>5

(* And each pair of them has a turn.                                       *)
LEMMA TurnOf ==
  ASSUME NEW T, NEW header \in Seq(T), NEW cols \in Seq(T),
         NEW n \in 1..Len(header), NEW c \in 1..Len(cols)
  PROVE  \E t \in 1..(Len(header) * Len(cols)) :
           Pure!L!Column(header, t) = n /\ Pure!L!Wanted(header, t) = c
<1> DEFINE W == Len(header)
           N == Len(cols)
           t == W * (c - 1) + n
<1>1. W \in Nat \ {0} /\ N \in Nat /\ n \in Nat /\ c - 1 \in Nat /\ n - 1 \in 0..(W - 1)
  BY LenProperties
<1>2. t \in 1..(W * N)
  <2> HIDE DEF W, N
  <2>1. c <= N /\ c \in Nat /\ n \in 1..W
    BY DEF W, N
  <2>2. W * c <= W * N /\ W * (c - 1) = W * c - W /\ W * (c - 1) \in Nat /\ W * c \in Nat /\ W * N \in Nat
    BY <1>1, <2>1
  <2> QED
    BY <1>1, <2>1, <2>2
<1>3. t - 1 = W * (c - 1) + (n - 1)
  <2> HIDE DEF W
  <2>1. W * (c - 1) \in Nat
    BY <1>1
  <2> QED
    BY <1>1, <2>1
<1>4. (t - 1) \div W = c - 1 /\ (t - 1) % W = n - 1
  <2> DEFINE q == c - 1
             m == n - 1
  <2> HIDE DEF q, m, t, W
  <2>1. q \in Nat /\ m \in 0..(W - 1) /\ t - 1 = W * q + m
    BY <1>1, <1>3 DEF q, m
  <2>2. (W * q + m) \div W = q /\ (W * q + m) % W = m
    BY <1>1, <2>1, QuotientRemainder
  <2> QED
    BY <2>1, <2>2 DEF q, m
<1> HIDE DEF t
<1>5. Pure!L!Column(header, t) = n /\ Pure!L!Wanted(header, t) = c
  <2>1. Pure!L!Column(header, t) = ((t - 1) % W) + 1 /\ Pure!L!Wanted(header, t) = ((t - 1) \div W) + 1
    BY DEF Pure!L!Wanted, Pure!L!Column
  <2> QED
    BY <1>1, <1>4, <2>1
<1> QED
  BY <1>2, <1>5

(* In the order of the turns each wanted column comes once.                *)
LEMMA WantedGrows ==
  ASSUME NEW T, NEW header \in Seq(T), NEW cols \in Seq(T), Pure!L!Distinct(header),
         NEW t \in Turns(header, cols), NEW u \in Turns(header, cols), t < u
  PROVE  Pure!L!Wanted(header, t) < Pure!L!Wanted(header, u)
<1> DEFINE W == Len(header)
           v == Pure!L!Wanted(header, t)
           w == Pure!L!Wanted(header, u)
           m == Pure!L!Column(header, t)
           n == Pure!L!Column(header, u)
<1>1. /\ v \in 1..Len(cols) /\ m \in 1..W /\ W * (v - 1) + m = t
      /\ w \in 1..Len(cols) /\ n \in 1..W /\ W * (w - 1) + n = u
  BY TurnForm DEF Turns
<1>2. header[m] = cols[v] /\ header[n] = cols[w] /\ t \in Int /\ u \in Int
  BY DEF Turns
<1>3. W \in Nat /\ v \in Nat /\ w \in Nat /\ DOMAIN header = 1..W
  BY <1>1, LenProperties
<1> HIDE DEF W, v, w, m, n
<1>4. v # w
  <2> SUFFICES ASSUME v = w PROVE FALSE
    OBVIOUS
  <2>1. m = n
    BY <1>1, <1>2, <1>3 DEF Pure!L!Distinct
  <2> QED
    BY <1>1, <1>2, <2>1
<1>5. ~(w < v)
  <2> SUFFICES ASSUME w < v PROVE FALSE
    OBVIOUS
  <2> DEFINE x == v - 1
             y == w - 1
  <2>1. x \in Nat /\ y \in Nat /\ y + 1 <= x
    BY <1>1, <1>3
  <2>2. W * x + m = t /\ W * y + n = u
    BY <1>1
  <2> HIDE DEF x, y
  <2>3. W * (y + 1) <= W * x /\ W * (y + 1) = W * y + W
    BY <1>3, <2>1
  <2>4. W * x \in Nat /\ W * y \in Nat
    BY <1>3, <2>1
  <2> QED
    BY <1>1, <1>2, <1>3, <2>2, <2>3, <2>4
<1>6. v < w
  BY <1>3, <1>4, <1>5
<1> QED
  BY <1>6 DEF v, w

(* The cells of a row, for a header that has no name twice.                 *)
LEMMA RowsRight ==
  ASSUME NEW T, NEW header \in Seq(T), NEW cols \in Seq(T), NEW width \in 0..Len(header),
         Pure!L!Distinct(header)
  PROVE  Pure!L!IsRow(header, width, cols, Pure!L!ExcelValueLoc(header, width, cols))
<1> DEFINE W == Len(header)
           N == Len(cols)
           S == Turns(header, cols)
           C == Cardinality(S)
           a == Pure!L!Ascending(S)
           Column(t) == Pure!L!Column(header, t)
           Wanted(t) == Pure!L!Wanted(header, t)
           col == [k \in 1..C |-> Wanted(a[k])]
           found == Pure!L!ColIndex(header, cols)
           r == Pure!L!ExcelValueLoc(header, width, cols)
<1>1. W \in Nat /\ N \in Nat /\ W * N \in Nat /\ DOMAIN header = 1..W /\ DOMAIN cols = 1..N
  BY LenProperties
<1>2. S \in SUBSET Nat /\ IsFiniteSet(S)
  <2>1. S \in SUBSET (1..(W * N))
    BY DEF Turns
  <2>2. IsFiniteSet(1..(W * N)) /\ (1..(W * N)) \subseteq Nat
    <3>1. IsFiniteSet(1..(W * N))
      BY <1>1, FS_Interval
    <3>2. (1..(W * N)) \subseteq Nat
      OBVIOUS
    <3> QED
      BY <3>1, <3>2
  <2> HIDE DEF S
  <2> QED
    BY <2>1, <2>2, FS_Subset
<1>3. \A t \in S : Wanted(t) \in 1..N /\ Column(t) \in 1..W /\ header[Column(t)] = cols[Wanted(t)]
  BY TurnForm DEF Turns
<1>4. \A t, u \in S : t < u => Wanted(t) < Wanted(u)
  BY WantedGrows
<1>5. \A n \in 1..W, c \in 1..N : header[n] = cols[c] => \E t \in S : Column(t) = n /\ Wanted(t) = c
  <2> SUFFICES ASSUME NEW n \in 1..W, NEW c \in 1..N, header[n] = cols[c]
               PROVE  \E t \in S : Column(t) = n /\ Wanted(t) = c
    OBVIOUS
  <2>1. PICK t \in 1..(W * N) : Column(t) = n /\ Wanted(t) = c
    BY TurnOf
  <2> QED
    BY <2>1 DEF Turns
<1>6. found = [k \in DOMAIN a |-> Column(a[k])]
  BY Zenon DEF Pure!L!ColIndex, Turns
<1>7. r = IF Len(found) > N THEN Pure!L!Panic
          ELSE [i \in DOMAIN found |-> IF found[i] <= width THEN found[i] ELSE 0]
  BY Zenon DEF Pure!L!ExcelValueLoc
<1> HIDE DEF S, a, Column, Wanted, found, r
<1>8. /\ C \in Nat /\ DOMAIN a = 1..C
      /\ \A k \in 1..C : a[k] \in S
      /\ \A t \in S : \E k \in 1..C : a[k] = t
      /\ \A k, m \in 1..C : k < m => a[k] < a[m]
  BY <1>2, Ranks DEF a
<1> HIDE DEF C
<1>9. col \in [1..C -> 1..N] /\ \A k, m \in 1..C : k < m => col[k] < col[m]
  BY <1>3, <1>4, <1>8
<1>10. C <= N
  <2> HIDE DEF col, W, N
  <2>1. \A k, m \in 1..C : col[k] = col[m] => k = m
    <3> SUFFICES ASSUME NEW k \in 1..C, NEW m \in 1..C, col[k] = col[m], k # m PROVE FALSE
      OBVIOUS
    <3>1. col[k] \in 1..N
      BY <1>9
    <3>2. k < m \/ m < k
      OBVIOUS
    <3>3. col[k] < col[k]
      BY <1>9, <3>2
    <3> QED
      BY <3>1, <3>3
  <2>2. col \in Injection(1..C, 1..N)
    BY <1>9, <2>1 DEF Injection, IsInjective
  <2>3. IsFiniteSet(1..N) /\ Cardinality(1..N) = N /\ Cardinality(1..C) = C
    <3>1. 1 \in Int /\ N \in Int /\ C \in Int /\ N >= 0 /\ C >= 0
      BY <1>1, <1>8
    <3>2. IsFiniteSet(1..N) /\ Cardinality(1..N) = IF 1 > N THEN 0 ELSE N - 1 + 1
      BY <3>1, FS_Interval
    <3>3. Cardinality(1..C) = IF 1 > C THEN 0 ELSE C - 1 + 1
      BY <3>1, FS_Interval
    <3> QED
      BY <3>1, <3>2, <3>3
  <2> QED
    BY <2>2, <2>3, FS_Injection
<1>11. found \in Seq(Nat) /\ Len(found) = C /\ \A k \in 1..C : found[k] = Column(a[k])
  <2>1. found \in [1..C -> Nat]
    BY <1>3, <1>6, <1>8
  <2> QED
    BY <1>6, <1>8, <2>1, FunctionIsSeq
<1>12. DOMAIN r = 1..C /\ \A k \in 1..C : r[k] = IF Column(a[k]) <= width THEN Column(a[k]) ELSE 0
  BY <1>1, <1>6, <1>7, <1>8, <1>10, <1>11
<1>13. ASSUME NEW c \in DOMAIN cols
       PROVE  cols[c] \in Pure!L!ToSet(header) <=> \E i \in DOMAIN r : col[i] = c
  <2>1. ASSUME cols[c] \in Pure!L!ToSet(header) PROVE \E i \in DOMAIN r : col[i] = c
    <3>1. PICK n \in 1..W : header[n] = cols[c]
      BY <1>1, <2>1 DEF Pure!L!ToSet
    <3>2. PICK t \in S : Wanted(t) = c
      BY <1>1, <1>5, <3>1
    <3>3. PICK k \in 1..C : a[k] = t
      BY <1>8
    <3> QED
      BY <1>12, <3>2, <3>3
  <2>2. ASSUME NEW i \in DOMAIN r, col[i] = c PROVE cols[c] \in Pure!L!ToSet(header)
    <3>1. i \in 1..C /\ a[i] \in S /\ Wanted(a[i]) = c
      BY <1>8, <1>12, <2>2
    <3>2. Column(a[i]) \in DOMAIN header /\ header[Column(a[i])] = cols[c]
      BY <1>1, <1>3, <3>1
    <3> QED
      BY <3>2 DEF Pure!L!ToSet
  <2> QED
    BY <2>1, <2>2
<1>14. ASSUME NEW i \in DOMAIN r
       PROVE  IF \E n \in 1..width : header[n] = cols[col[i]]
              THEN r[i] \in 1..width /\ header[r[i]] = cols[col[i]]
              ELSE r[i] = 0
  <2> DEFINE m == Column(a[i])
  <2>1. i \in 1..C /\ a[i] \in S /\ col[i] = Wanted(a[i])
    BY <1>8, <1>12
  <2>2. m \in 1..W /\ header[m] = cols[col[i]]
    BY <1>3, <2>1
  <2>3. r[i] = IF m <= width THEN m ELSE 0
    BY <1>12, <2>1
  <2>4. ASSUME NEW n \in 1..width, header[n] = cols[col[i]] PROVE n = m
    <3>1. n \in DOMAIN header /\ m \in DOMAIN header
      BY <1>1, <2>2
    <3> QED
      BY <2>2, <2>4, <3>1 DEF Pure!L!Distinct
  <2> HIDE DEF m, col, W
  <2>5. m <= width => m \in 1..width
    BY <1>1, <2>2
  <2> QED
    BY <1>1, <2>2, <2>3, <2>4, <2>5
<1>15. col \in [DOMAIN r -> DOMAIN cols] /\ \A i, j \in DOMAIN r : i < j => col[i] < col[j]
  BY <1>1, <1>9, <1>12
<1> HIDE DEF col
<1> QED
  BY <1>13, <1>14, <1>15, Zenon DEF Pure!L!IsRow, r

-----------------------------------------------------------------------------
(* GetPages.                                                               *)

(* The largest member of a set of numbers.                                  *)
LEMMA Greatest ==
  ASSUME NEW N \in Nat, NEW S \in SUBSET (1..N), S # {}
  PROVE  \E m \in S : \A n \in S : n <= m
<1> DEFINE D == {N - n : n \in S}
<1>1. D \subseteq Nat /\ D # {}
  <2>1. \A n \in S : n \in 1..N /\ N - n \in Nat
    OBVIOUS
  <2> QED
    BY <2>1
<1> HIDE DEF D
<1>2. PICK d \in D : \A x \in D : d <= x
  BY <1>1, Least
<1>3. PICK m \in S : d = N - m
  BY DEF D
<1>4. \A n \in S : n \in Int /\ d <= N - n
  BY <1>2 DEF D
<1> QED
  BY <1>3, <1>4

(* Of two products by a positive number the greater has the greater factor. *)
LEMMA Factors ==
  ASSUME NEW x \in Int, NEW y \in Int, NEW m \in Nat \ {0}, x * m < y * m
  PROVE  x < y
<1> SUFFICES ASSUME x >= y PROVE FALSE
  OBVIOUS
<1>1. (x - y) * m >= 0 /\ (x - y) * m = x * m - y * m
  OBVIOUS
<1> QED
  BY <1>1

(* A number below Mantissa is a float64.                                    *)
LEMMA FloatExact ==
  ASSUME Pure!L!FloatIsSound, NEW n \in Nat, n < Mantissa
  PROVE  Pure!L!Float(n) = n
<1> DEFINE Is(u) == n < Mantissa * u * 1 /\ \A v \in Scales : n < Mantissa * v * 1 => u <= v
           unit == CHOOSE u \in Scales : Is(u)
<1>1. 1 \in Scales /\ Mantissa \in Nat \ {0} /\ \A u \in Scales : u \in Nat /\ u >= 1
  BY DEF Pure!L!FloatIsSound
<1>2. Is(1)
  BY <1>1
<1>3. unit \in Scales /\ Is(unit)
  <2> HIDE DEF Is
  <2> QED
    BY <1>1, <1>2
<1> HIDE DEF unit
<1>4. unit = 1
  BY <1>1, <1>2, <1>3
<1>5. Pure!L!Unit(n, 1) = unit
  BY Zenon DEF Pure!L!Unit, unit
<1>6. Pure!L!Nearest(n, 1) = n
  <2>1. n \div 1 = n /\ n % 1 = 0
    OBVIOUS
  <2> QED
    BY <2>1 DEF Pure!L!Nearest
<1> QED
  BY <1>4, <1>5, <1>6 DEF Pure!L!Float

(* A rounded quotient is at most half a unit away.                          *)
LEMMA NearestIs ==
  ASSUME NEW a \in Nat, NEW b \in Nat \ {0}
  PROVE  /\ Pure!L!Nearest(a, b) \in Nat
         /\ 2 * (Pure!L!Nearest(a, b) * b) <= 2 * a + b
         /\ 2 * (Pure!L!Nearest(a, b) * b) >= 2 * a - b
<1> DEFINE q == a \div b
           e == a % b
<1>1. q \in Nat /\ e \in 0..(b - 1) /\ a = b * q + e
  OBVIOUS
<1>2. Pure!L!Nearest(a, b) = IF 2 * e < b \/ (2 * e = b /\ q % 2 = 0) THEN q ELSE q + 1
  BY Zenon DEF Pure!L!Nearest
<1> HIDE DEF q, e
<1>3. q * b = b * q /\ (q + 1) * b = b * q + b /\ b * q \in Nat
  BY <1>1
<1>4. CASE Pure!L!Nearest(a, b) = q /\ 2 * e <= b
  BY <1>1, <1>3, <1>4
<1>5. CASE Pure!L!Nearest(a, b) = q + 1 /\ 2 * e >= b
  BY <1>1, <1>3, <1>5
<1> QED
  BY <1>1, <1>2, <1>4, <1>5

(* The steps of a quotient below Mantissa are finer than half of its divisor. *)
LEMMA StepsAreFine ==
  ASSUME Pure!L!FloatIsSound, NEW a \in Nat, a < Mantissa, NEW b \in Nat \ {0}, b < Mantissa
  PROVE  Pure!L!Steps(a, b) \in Nat \ {0} /\ 2 * Pure!L!Steps(a, b) > b
<1> DEFINE S == {m \in Scales : a * m < Mantissa * b}
           m == Pure!L!Steps(a, b)
<1>1. /\ Mantissa \in Nat \ {0} /\ 1 \in Scales
      /\ \A n \in Scales : n \in 1..(Mantissa * Mantissa) /\ (2 * n \in Scales \/ n = Mantissa * Mantissa)
  BY DEF Pure!L!FloatIsSound
<1>2. Mantissa * Mantissa \in Nat /\ Mantissa * Mantissa >= Mantissa
  <2>1. Mantissa * (Mantissa - 1) >= 0 /\ Mantissa * (Mantissa - 1) = Mantissa * Mantissa - Mantissa
    BY <1>1
  <2> QED
    BY <1>1, <2>1
<1>3. 1 \in S
  <2>1. Mantissa * (b - 1) >= 0 /\ Mantissa * (b - 1) = Mantissa * b - Mantissa /\ Mantissa * b \in Nat
    BY <1>1
  <2>2. a * 1 = a
    OBVIOUS
  <2> QED
    BY <1>1, <2>1, <2>2
<1>4. S \in SUBSET (1..(Mantissa * Mantissa)) /\ S # {}
  BY <1>1, <1>3
<1>5. \E n \in S : \A x \in S : x <= n
  <2> HIDE DEF S
  <2> QED
    BY <1>2, <1>4, Greatest
<1>6. m \in Scales /\ \A n \in Scales : a * n < Mantissa * b => n <= m
  BY <1>5, Zenon DEF Pure!L!Steps
<1> HIDE DEF S, m
<1>7. m \in Nat \ {0} /\ (2 * m \in Scales \/ m = Mantissa * Mantissa)
  BY <1>1, <1>6
<1>8. CASE m = Mantissa * Mantissa
  <2>1. m >= Mantissa /\ 2 * m > b
    BY <1>1, <1>2, <1>7, <1>8
  <2> QED
    BY <1>7, <2>1 DEF m
<1>9. CASE 2 * m \in Scales
  <2>1. ~(a * (2 * m) < Mantissa * b)
    BY <1>6, <1>7, <1>9
  <2>2. (Mantissa - a) * b >= b /\ (Mantissa - a) * b = Mantissa * b - a * b
    <3>1. (Mantissa - a - 1) * b >= 0 /\ (Mantissa - a - 1) * b = Mantissa * b - a * b - b
      BY <1>1
    <3> QED
      BY <1>1, <3>1
  <2>3. a * b \in Nat /\ Mantissa * b \in Nat /\ a * (2 * m) \in Nat
    BY <1>1, <1>7
  <2>4. a * b < a * (2 * m)
    BY <2>1, <2>2, <2>3
  <2>5. b * a < (2 * m) * a /\ 2 * m \in Int
    <3>1. a * b = b * a /\ a * (2 * m) = (2 * m) * a /\ 2 * m \in Int
      BY <1>7
    <3> QED
      BY <2>4, <3>1
  <2>6. a # 0
    <3> SUFFICES ASSUME a = 0 PROVE FALSE
      OBVIOUS
    <3>1. 0 * b = 0 /\ 0 * (2 * m) = 0
      BY <1>7
    <3>2. 0 * b < 0 * (2 * m)
      BY <2>4
    <3> QED
      BY <3>1, <3>2
  <2>7. b < 2 * m
    BY <2>5, <2>6, Factors
  <2> QED
    BY <1>7, <2>7 DEF m
<1> QED
  BY <1>7, <1>8, <1>9 DEF m

(* A page more than is needed, or one less, is never counted.               *)
LEMMA PagesRight ==
  ASSUME Pure!L!FloatIsSound, NEW count \in Nat, NEW limit \in Nat \ {0}, count < Mantissa, limit < Mantissa
  PROVE  /\ Pure!L!GetPages(count, limit) * limit >= count
         /\ (Pure!L!GetPages(count, limit) - 1) * limit < count
<1> DEFINE m == Pure!L!Steps(count, limit)
           n == count * m
           R == Pure!L!Nearest(n, limit)
           top == R + m - 1
           k == top \div m
           e == top % m
<1>1. m \in Nat \ {0} /\ 2 * m > limit
  BY StepsAreFine
<1> HIDE DEF m
<1>2. n \in Nat
  BY <1>1
<1> HIDE DEF n
<1>3. R \in Nat /\ 2 * (R * limit) <= 2 * n + limit /\ 2 * (R * limit) >= 2 * n - limit
  BY <1>2, NearestIs
<1>4. Pure!L!GetPages(count, limit) = k
  <2>1. Pure!L!GetPages(count, limit) = Pure!L!CeilOfQuotient(count, limit)
    BY FloatExact DEF Pure!L!GetPages
  <2>2. count < Mantissa * limit
    <3>1. Mantissa \in Nat
      BY DEF Pure!L!FloatIsSound
    <3>2. Mantissa * (limit - 1) >= 0 /\ Mantissa * (limit - 1) = Mantissa * limit - Mantissa /\ Mantissa * limit \in Nat
      BY <3>1
    <3> QED
      BY <3>1, <3>2
  <2> QED
    BY <2>1, <2>2, Zenon DEF Pure!L!CeilOfQuotient, m, n
<1> HIDE DEF R
<1>5. top \in Nat
  BY <1>1, <1>3
<1>6. k \in Nat /\ e \in 0..(m - 1) /\ top = m * k + e
  <2> HIDE DEF top
  <2> QED
    BY <1>1, <1>5
<1>7. top = R + m - 1
  OBVIOUS
<1> HIDE DEF top, k, e
<1> DEFINE c == m * k
<1>8. c \in Nat /\ c >= R /\ c <= R + m - 1
  BY <1>1, <1>3, <1>6, <1>7
<1> HIDE DEF c
<1>9. (c - R) * limit >= 0 /\ (c - R) * limit = c * limit - R * limit
  BY <1>3, <1>8
<1>10. (R + m - 1 - c) * limit >= 0 /\ (R + m - 1 - c) * limit = R * limit + m * limit - limit - c * limit
  BY <1>1, <1>3, <1>8
<1>11. R * limit \in Nat /\ c * limit \in Nat /\ m * limit \in Nat
  BY <1>1, <1>3, <1>8
<1>12. c * limit > n - m
  BY <1>1, <1>2, <1>3, <1>9, <1>11
<1>13. c * limit - m * limit < n
  BY <1>1, <1>2, <1>3, <1>10, <1>11
<1>14. c * limit = (k * limit) * m /\ (k - 1) * limit * m = c * limit - m * limit
  BY <1>1, <1>6 DEF c
<1>15. (count - 1) * m = n - m
  BY <1>1 DEF n
<1>16. count - 1 < k * limit
  <2>1. count - 1 \in Int /\ k * limit \in Int /\ (count - 1) * m < (k * limit) * m
    BY <1>6, <1>12, <1>14, <1>15
  <2> QED
    BY <1>1, <2>1, Factors
<1>17. (k - 1) * limit < count
  <2>1. (k - 1) * limit \in Int /\ count \in Int /\ ((k - 1) * limit) * m < count * m
    BY <1>6, <1>13, <1>14 DEF n
  <2> QED
    BY <1>1, <2>1, Factors
<1>18. k * limit \in Nat
  BY <1>6
<1> QED
  BY <1>4, <1>16, <1>17, <1>18

-----------------------------------------------------------------------------
(* What a call on lists is given, the elements from a set T.               *)
IsListCall(q, T) ==
  \/ q.op \in {"diff", "intersect"} /\ q.first \in Seq(T) /\ q.others \in Seq(Seq(T))
  \/ q.op = "duplicates" /\ q.first \in Seq(T)
  \/ q.op = "excel" /\ q.header \in Seq(T) /\ q.cols \in Seq(T) /\ q.width \in 0..Len(q.header)
  \/ q.op = "pages" /\ q.count \in Nat /\ q.limit \in Nat \ {0}

(* Every call on lists is answered right. *)
LEMMA AnswersAboutLists ==
  ASSUME Pure!L!FloatIsSound, NEW T, NEW q, IsListCall(q, T), NEW r \in Pure!L!Results(q)
  PROVE  Pure!L!Right(q, r)
<1>1. CASE q.op = "diff"
  <2>1. q.first \in Seq(T) /\ q.others \in Seq(Seq(T))
    BY <1>1 DEF IsListCall
  <2>2. r = Pure!L!ArrayDiff(q.first, q.others)
    BY <1>1 DEF Pure!L!Results
  <2>3. r = Pure!L!ToSet(q.first) \ Pure!L!Union(q.others)
    BY <2>1, <2>2, SetsRight
  <2> QED
    BY <1>1, <2>3 DEF Pure!L!Right
<1>2. CASE q.op = "intersect"
  <2>1. q.first \in Seq(T) /\ q.others \in Seq(Seq(T))
    BY <1>2 DEF IsListCall
  <2>2. r = Pure!L!ArrayIntersect(q.first, q.others)
    BY <1>2 DEF Pure!L!Results
  <2>3. /\ Pure!L!InEvery(q.first, q.others) \subseteq r /\ r \subseteq Pure!L!ToSet(q.first)
        /\ Len(q.others) = 1 => r = Pure!L!InEvery(q.first, q.others)
    BY <2>1, <2>2, EveryRight, Zenon
  <2> QED
    BY <1>2, <2>3 DEF Pure!L!Right
<1>3. CASE q.op = "duplicates"
  <2>1. q.first \in Seq(T)
    BY <1>3 DEF IsListCall
  <2>2. r = Pure!L!SliceRemoveDuplicate(q.first)
    BY <1>3 DEF Pure!L!Results
  <2>3. /\ Pure!L!Distinct(r) /\ Pure!L!ToSet(r) = Pure!L!ToSet(q.first)
        /\ \A i, j \in DOMAIN r : i < j => Pure!L!First(q.first, r[i]) < Pure!L!First(q.first, r[j])
    BY <2>1, <2>2, DuplicatesRight, Zenon
  <2> QED
    BY <1>3, <2>3 DEF Pure!L!Right
<1>4. CASE q.op = "excel"
  <2>1. q.header \in Seq(T) /\ q.cols \in Seq(T) /\ q.width \in 0..Len(q.header)
    BY <1>4 DEF IsListCall
  <2>2. r = Pure!L!ExcelValueLoc(q.header, q.width, q.cols)
    BY <1>4 DEF Pure!L!Results
  <2>3. Pure!L!Distinct(q.header) => Pure!L!IsRow(q.header, q.width, q.cols, r)
    BY <2>1, <2>2, RowsRight
  <2> QED
    BY <1>4, <2>3 DEF Pure!L!Right
<1>5. CASE q.op = "pages"
  <2>1. q.count \in Nat /\ q.limit \in Nat \ {0}
    BY <1>5 DEF IsListCall
  <2>2. r = Pure!L!GetPages(q.count, q.limit)
    BY <1>5 DEF Pure!L!Results
  <2>3. (q.count < Mantissa /\ q.limit < Mantissa) =>
          r * q.limit >= q.count /\ (r - 1) * q.limit < q.count
    BY <2>1, <2>2, PagesRight, Zenon
  <2> QED
    BY <1>5, <2>3 DEF Pure!L!Right
<1> QED
  BY <1>1, <1>2, <1>3, <1>4, <1>5 DEF IsListCall

(* The calls that are made are such calls.                                 *)
LEMMA ListCallsAre ==
  ASSUME Pure!ListCall
  PROVE  \E T : IsListCall(call, T)
<1> DEFINE Short == Pure!UpTo(1..3, 2)
<1>1. ASSUME NEW op \in {"diff", "intersect"}, NEW first \in Short, NEW others \in Pure!UpTo(Short, 2),
             call = [op |-> op, first |-> first, others |-> others]
      PROVE  IsListCall(call, 1..3)
  <2>1. first \in Seq(1..3) /\ others \in Seq(Short) /\ Short \subseteq Seq(1..3)
    BY BoundedTexts
  <2>2. others \in Seq(Seq(1..3))
    <3> HIDE DEF Short
    <3> QED
      BY <2>1
  <2> QED
    BY <1>1, <2>1, <2>2 DEF IsListCall
<1>2. ASSUME NEW first \in Pure!UpTo(1..3, 5), call = [op |-> "duplicates", first |-> first]
      PROVE  IsListCall(call, 1..3)
  <2>1. first \in Seq(1..3)
    BY BoundedTexts
  <2> QED
    BY <1>2, <2>1 DEF IsListCall
<1>3. ASSUME NEW header \in Pure!UpTo({"a", "b", "c"}, 3), NEW cols \in Pure!UpTo({"a", "b", "d"}, 2),
             NEW width \in 0..Len(header),
             call = [op |-> "excel", header |-> header, width |-> width, cols |-> cols]
      PROVE  IsListCall(call, {"a", "b", "c", "d"})
  <2>1. header \in Seq({"a", "b", "c"}) /\ cols \in Seq({"a", "b", "d"})
    BY BoundedTexts
  <2>2. header \in Seq({"a", "b", "c", "d"}) /\ cols \in Seq({"a", "b", "c", "d"})
    BY <2>1
  <2> QED
    BY <1>3, <2>2 DEF IsListCall
<1>4. ASSUME NEW count \in 0..40, NEW limit \in 1..10,
             call = [op |-> "pages", count |-> count, limit |-> limit]
      PROVE  IsListCall(call, {})
  BY <1>4 DEF IsListCall
<1>5. CASE \E op \in {"diff", "intersect"} : \E first \in Short : \E others \in Pure!UpTo(Short, 2) :
             call = [op |-> op, first |-> first, others |-> others]
  <2> HIDE DEF Short
  <2> QED
    BY <1>1, <1>5, Zenon
<1>6. CASE \E first \in Pure!UpTo(1..3, 5) : call = [op |-> "duplicates", first |-> first]
  BY <1>2, <1>6, Zenon
<1>7. CASE \E header \in Pure!UpTo({"a", "b", "c"}, 3) : \E cols \in Pure!UpTo({"a", "b", "d"}, 2) :
             \E width \in 0..Len(header) :
               call = [op |-> "excel", header |-> header, width |-> width, cols |-> cols]
  BY <1>3, <1>7, Zenon
<1>8. CASE \E count \in 0..40 : \E limit \in 1..10 :
             call = [op |-> "pages", count |-> count, limit |-> limit]
  BY <1>4, <1>8, Zenon
<1> QED
  BY <1>5, <1>6, <1>7, <1>8, Zenon DEF Pure!ListCall

(* What the calls about accounts are named.                                 *)
LEMMA AccountOps == Pure!AccountCall => call.op \in {"password", "again", "account", "dberror"}
<1>1. \A op, plain : call = [op |-> op, plain |-> plain] => call.op = op
  OBVIOUS
<1>2. \A type, c : call = [op |-> "account", type |-> type, c |-> c] => call.op = "account"
  OBVIOUS
<1>3. \A type, m : call = [op |-> "dberror", type |-> type, message |-> m] => call.op = "dberror"
  OBVIOUS
<1> QED
  BY <1>1, <1>2, <1>3, Zenon DEF Pure!AccountCall

(* The inductive invariant of the calls on lists.                          *)
ListsInv ==
  /\ Pure!Lists => \E T : IsListCall(call, T)
  /\ Pure!ListsRight

(* It holds before the call.                                               *)
LEMMA ListsBegin ==
  ASSUME Pure!Init
  PROVE  ListsInv
<1>1. Pure!ConversionCall => call.op \in {"ip", "emoji", "coding", "error", "code"}
  BY DEF Pure!ConversionCall
<1>2. Pure!AccountCall => call.op \in {"password", "again", "account", "dberror"}
  BY AccountOps
<1>3. Pure!Lists => Pure!ListCall
  BY <1>1, <1>2, FormatOps DEF Pure!Init, Pure!Lists
<1> QED
  BY <1>3, ListCallsAre DEF ListsInv, Pure!ListsRight, Pure!Init

(* A call that returns keeps it.                                           *)
LEMMA ListsStep ==
  ASSUME ListsInv, [Pure!Next]_Pure!pureVars, Pure!L!FloatIsSound
  PROVE  ListsInv'
<1>1. CASE UNCHANGED Pure!pureVars
  BY <1>1 DEF ListsInv, Pure!pureVars, Pure!Lists, Pure!ListsRight
<1>2. CASE Pure!Next
  <2>1. call' = call /\ (Pure!Lists' <=> Pure!Lists)
    BY <1>2 DEF Pure!Next, Pure!Lists
  <2>2. ASSUME Pure!Lists PROVE Pure!L!Right(call, returned'[1])
    <3>1. ~Pure!Accounts /\ ~Pure!Conversions
      BY <2>2 DEF Pure!Accounts, Pure!Lists, Pure!Conversions
    <3>2. PICK r \in Pure!L!Results(call) : returned' = <<r>>
      BY <1>2, <3>1, Zenon DEF Pure!Next, Pure!Returns
    <3>3. PICK T : IsListCall(call, T)
      BY <2>2 DEF ListsInv
    <3>4. Pure!L!Right(call, r)
      BY <3>2, <3>3, AnswersAboutLists
    <3>5. <<r>>[1] = r
      OBVIOUS
    <3> QED
      BY <3>2, <3>4, <3>5, Zenon
  <2>3. Pure!ListsRight'
    BY <2>1, <2>2, Zenon DEF Pure!ListsRight
  <2>4. (Pure!Lists => \E T : IsListCall(call, T))'
    BY <2>1 DEF ListsInv
  <2> QED
    BY <2>3, <2>4 DEF ListsInv
<1> QED
  BY <1>1, <1>2

(* The helpers on lists give what they are to give: src/utils/utils.go.    *)
THEOREM ListsAnswered == Pure!Spec => []Pure!ListsRight
<1>1. Pure!Init => ListsInv
  BY ListsBegin
<1>2. ListsInv /\ [Pure!Next]_Pure!pureVars => ListsInv'
  BY FloatAssumption, ListsStep
<1>3. ListsInv => Pure!ListsRight
  BY DEF ListsInv
<1> QED
  BY <1>1, <1>2, <1>3, PTL DEF Pure!Spec

-----------------------------------------------------------------------------
(* Addresses and emoji.                                                    *)

(* A number below a product has a digit and a number below a factor.       *)
LEMMA Product ==
  ASSUME NEW a \in Nat \ {0}, NEW b \in Nat \ {0}, NEW d \in 0..(a - 1), NEW r \in 0..(b - 1)
  PROVE  b * d + r \in 0..(b * a - 1)
<1>1. d + 1 <= a /\ d \in Nat
  OBVIOUS
<1>2. b * (d + 1) <= b * a /\ b * (d + 1) = b * d + b /\ b * d \in Nat /\ b * a \in Nat
  BY <1>1
<1> QED
  BY <1>2

(* The number of four digits, and its digits.                              *)
Number(o, s1, s2, s3, s4) == s1 * (o * o * o) + s2 * (o * o) + s3 * o + s4 * 1

HasDigits(n, o, s1, s2, s3, s4) ==
  /\ (n \div (o * o * o)) % o = s1 /\ (n \div (o * o)) % o = s2
  /\ (n \div o) % o = s3 /\ (n \div 1) % o = s4

(* Dividing by its weight gives each digit.                                 *)
LEMMA FourDigits ==
  ASSUME NEW o \in Nat \ {0}, NEW s1 \in 0..(o - 1), NEW s2 \in 0..(o - 1),
         NEW s3 \in 0..(o - 1), NEW s4 \in 0..(o - 1)
  PROVE  HasDigits(Number(o, s1, s2, s3, s4), o, s1, s2, s3, s4)
<1> DEFINE n == Number(o, s1, s2, s3, s4)
           b == o * o
           c == b * o
           r3 == o * s3 + s4
           r2 == b * s2 + r3
           q2 == o * s1 + s2
           q3 == o * q2 + s3
<1>1. b \in Nat \ {0} /\ c \in Nat \ {0} /\ o * o * o = c
  <2>1. b \in Nat \ {0}
    OBVIOUS
  <2> HIDE DEF b
  <2>2. c \in Nat \ {0}
    BY <2>1
  <2> QED
    BY <2>1, <2>2 DEF b
<1>2. s1 \in Nat /\ s2 \in Nat /\ s3 \in Nat /\ s4 \in Nat
  OBVIOUS
<1>3. r3 \in 0..(b - 1)
  BY Product
<1>4. r2 \in 0..(c - 1)
  <2> HIDE DEF b, r3
  <2> QED
    BY <1>1, <1>3, Product
<1>5. q2 \in Nat /\ q3 \in Nat
  <2>1. q2 \in Nat
    BY <1>2
  <2> HIDE DEF q2
  <2> QED
    BY <1>2, <2>1
<1>6. n = c * s1 + r2
  BY <1>2 DEF Number
<1>7. n = b * q2 + r3
  BY <1>2 DEF Number
<1>8. n = o * q3 + s4
  BY <1>2 DEF Number
<1> HIDE DEF b, c, r2, r3, n
<1>9. n \div c = s1
  BY <1>1, <1>2, <1>4, <1>6, QuotientRemainder
<1>10. n \div b = q2
  <2> HIDE DEF q2
  <2> QED
    BY <1>1, <1>3, <1>5, <1>7, QuotientRemainder
<1>11. q2 % o = s2
  BY <1>2, QuotientRemainder
<1>12. n \div o = q3 /\ n % o = s4 /\ n \in Nat
  <2> HIDE DEF q3
  <2>1. o * q3 \in Nat
    BY <1>5
  <2> QED
    BY <1>2, <1>5, <1>8, <2>1, QuotientRemainder
<1>13. q3 % o = s3
  <2> HIDE DEF q2
  <2> QED
    BY <1>2, <1>5, QuotientRemainder
<1>14. s1 % o = s1
  <2>1. (o * 0 + s1) % o = s1
    BY QuotientRemainder
  <2> QED
    BY <1>2, <2>1
<1>15. n \div 1 = n
  BY <1>12
<1> HIDE DEF q2, q3
<1>16. (n \div c) % o = s1 /\ (n \div b) % o = s2 /\ (n \div o) % o = s3 /\ (n \div 1) % o = s4
  BY <1>9, <1>10, <1>11, <1>12, <1>13, <1>14, <1>15
<1> QED
  BY <1>1, <1>16, Zenon DEF b, n, HasDigits

(* An address comes back from its number.                                   *)
LEMMA AddressesRight ==
  ASSUME NEW s \in [1..4 -> 0..(Octet - 1)], Octet \in Nat \ {0}
  PROVE  Pure!C!IpIntToString(Pure!C!StringIpToInt(s)) = s
<1> DEFINE o == Octet
           n == Pure!C!StringIpToInt(s)
           W == Pure!C!Weight
<1>1. o \in Nat \ {0} /\ s[1] \in 0..(o - 1) /\ s[2] \in 0..(o - 1) /\ s[3] \in 0..(o - 1) /\ s[4] \in 0..(o - 1)
  OBVIOUS
<1>2. W[1] = o * o * o /\ W[2] = o * o /\ W[3] = o /\ W[4] = 1
  BY DEF Pure!C!Weight
<1>3. n = s[1] * W[1] + s[2] * W[2] + s[3] * W[3] + s[4] * W[4]
  BY Zenon DEF Pure!C!StringIpToInt
<1>4. Pure!C!IpIntToString(n) = [i \in 1..4 |-> (n \div W[i]) % o]
  BY Zenon DEF Pure!C!IpIntToString
<1> HIDE DEF o, n, W
<1>5. n = Number(o, s[1], s[2], s[3], s[4])
  BY <1>2, <1>3, Zenon DEF Number
<1>6. /\ (n \div (o * o * o)) % o = s[1] /\ (n \div (o * o)) % o = s[2]
      /\ (n \div o) % o = s[3] /\ (n \div 1) % o = s[4]
  <2>1. HasDigits(n, o, s[1], s[2], s[3], s[4])
    BY <1>1, <1>5, FourDigits
  <2> QED
    BY <2>1, Zenon DEF HasDigits
<1>7. /\ (n \div W[1]) % o = s[1] /\ (n \div W[2]) % o = s[2]
      /\ (n \div W[3]) % o = s[3] /\ (n \div W[4]) % o = s[4]
  BY <1>2, <1>6, Zenon
<1>8. \A i \in 1..4 : (n \div W[i]) % o = s[i]
  <2>1. 1..4 = {1, 2, 3, 4}
    OBVIOUS
  <2> QED
    BY <1>7, <2>1, Zenon
<1>9. Pure!C!IpIntToString(n) = [i \in 1..4 |-> s[i]]
  BY <1>4, <1>8, Zenon
<1> QED
  BY <1>9 DEF n

(* A text that has no escape of its own comes back.                         *)
LEMMA EmojiRight ==
  ASSUME NEW T, NEW s \in Seq(T), "escape" \notin Pure!C!ToSet(s)
  PROVE  Pure!C!UnicodeEmojiDecode(Pure!C!UnicodeEmojiCode(s)) = s
<1>1. s \in [1..Len(s) -> T] /\ DOMAIN s = 1..Len(s)
  BY LenProperties
<1>2. \A i \in DOMAIN s : s[i] # "escape"
  BY DEF Pure!C!ToSet
<1> DEFINE e == Pure!C!UnicodeEmojiCode(s)
<1>3. e = [i \in DOMAIN s |-> IF s[i] = "emoji" THEN "escape" ELSE s[i]]
  BY Zenon DEF Pure!C!UnicodeEmojiCode
<1> HIDE DEF e
<1>4. Pure!C!UnicodeEmojiDecode(e) = [i \in DOMAIN e |-> IF e[i] = "escape" THEN "emoji" ELSE e[i]]
  BY Zenon DEF Pure!C!UnicodeEmojiDecode
<1>5. Pure!C!UnicodeEmojiDecode(e) = [i \in DOMAIN s |-> s[i]]
  BY <1>2, <1>3, <1>4
<1> QED
  BY <1>1, <1>5 DEF e

-----------------------------------------------------------------------------
(* One-time codes.                                                         *)

(* Accepted up to 30 seconds apart, refused from 60 seconds on.             *)
LEMMA CodesRight ==
  ASSUME NEW now \in Nat, NEW then \in Nat
  PROVE  LET r == Pure!C!VerifyCode(now, Pure!C!oneTimePassword(Pure!C!Quotient(then, 30)))
             apart == IF now > then THEN now - then ELSE then - now
         IN  (apart <= 30 => r) /\ ((apart >= 60 /\ now >= 30) => ~r)
<1> DEFINE t == then \div 30
           p == now \div 30
<1>1. /\ t \in Nat /\ then >= 30 * t /\ then < 30 * t + 30
      /\ p \in Nat /\ now >= 30 * p /\ now < 30 * p + 30
  OBVIOUS
<1>2. Pure!C!Quotient(then, 30) = t /\ Pure!C!Quotient(now + 0, 30) = p
  BY DEF Pure!C!Quotient
<1>3. Pure!C!Quotient(now + 30, 30) = p + 1
  BY DEF Pure!C!Quotient
<1>4. now >= 30 => Pure!C!Quotient(now + -30, 30) = p - 1
  BY DEF Pure!C!Quotient
<1>5. Pure!C!VerifyCode(now, t) <=>
        (t = Pure!C!Quotient(now + 0, 30) \/ t = Pure!C!Quotient(now + 30, 30) \/ t = Pure!C!Quotient(now + -30, 30))
  BY DEF Pure!C!VerifyCode, Pure!C!getCode, Pure!C!oneTimePassword
<1> HIDE DEF t, p
<1>6. now < 30 => p = 0
  BY <1>1
<1> QED
  BY <1>1, <1>2, <1>3, <1>4, <1>5, <1>6 DEF Pure!C!oneTimePassword

-----------------------------------------------------------------------------
(* The status of an error.                                                 *)

(* No two statuses have a code in common.                                   *)
LEMMA CodesDiffer ==
  \A s, t \in DOMAIN Pure!C!GuacCode : Pure!C!GuacCode[s] = Pure!C!GuacCode[t] => s = t
BY DEF Pure!C!GuacCode

(* The status of an error comes back from its code.                         *)
LEMMA ErrorsRight ==
  ASSUME NEW error \in Pure!C!ErrKind,
         NEW r \in Pure!C!FromGuacamoleStatusCode(Pure!C!GetGuacamoleStatusCode(Pure!C!StatusOf(error)))
  PROVE  r = Pure!C!StatusOf(error) /\ r \in DOMAIN Pure!C!GuacCode
<1> DEFINE status == Pure!C!StatusOf(error)
           found == {s \in DOMAIN Pure!C!GuacCode :
                       Pure!C!GetGuacamoleStatusCode(s) = Pure!C!GetGuacamoleStatusCode(status)}
<1>1. status \in DOMAIN Pure!C!GuacCode
  BY DEF Pure!C!StatusOf, Pure!C!ErrKind, Pure!C!GuacCode
<1>2. r \in IF found = {} THEN {Pure!C!Undefined} ELSE found
  BY Zenon DEF Pure!C!FromGuacamoleStatusCode
<1> HIDE DEF status
<1>3. status \in found
  BY <1>1
<1>4. r \in found
  BY <1>2, <1>3
<1>5. Pure!C!GuacCode[r] = Pure!C!GuacCode[status]
  BY <1>4 DEF Pure!C!GetGuacamoleStatusCode
<1> QED
  BY <1>1, <1>4, <1>5, CodesDiffer DEF status

-----------------------------------------------------------------------------
(* The coding of bytes.                                                    *)

(* A walk over the bytes of data: where it is after each turn.             *)
LEMMA Walks ==
  ASSUME NEW data, Len(data) \in Nat, NEW next
  PROVE  \E place : /\ Pure!C!Stops(data, next) = place[Len(data)]
                 /\ place[0] = 1
                 /\ \A n \in 0..(Len(data) - 1) : place[n + 1] = next[place[n]]
<1> DEFINE place == CHOOSE f : f = [n \in 0..Len(data) |-> IF n = 0 THEN 1 ELSE next[f[n - 1]]]
<1>1. Pure!C!Stops(data, next) = place[Len(data)]
  BY Zenon DEF Pure!C!Stops
<1>2. place = [n \in 0..Len(data) |-> IF n = 0 THEN 1 ELSE next[place[n - 1]]]
  <2>1. PICK f : AreStages(f, 1, next, Len(data))
    BY StagesExist
  <2>2. f = [n \in 0..Len(data) |-> IF n = 0 THEN 1 ELSE next[f[n - 1]]]
    BY <2>1, Zenon DEF AreStages
  <2> QED
    BY <2>2, Zenon
<1> HIDE DEF place
<1>3. place[0] = 1
  BY <1>2
<1>4. ASSUME NEW n \in 0..(Len(data) - 1) PROVE place[n + 1] = next[place[n]]
  <2>1. n + 1 \in 0..Len(data) /\ (n + 1) - 1 = n /\ n + 1 # 0
    OBVIOUS
  <2>2. place[n + 1] = IF n + 1 = 0 THEN 1 ELSE next[place[(n + 1) - 1]]
    BY <1>2, <2>1, Zenon
  <2> QED
    BY <2>1, <2>2
<1> QED
  BY <1>1, <1>3, <1>4

(* A walk that takes whole characters comes to the end.                    *)
LEMMA WalkEnds ==
  ASSUME NEW data \in Seq(0..255), NEW chars, NEW next, Pure!C!Covers(chars, data),
         \A c \in chars : c[1] \in DOMAIN data /\ c[2] \in Nat \ {0} /\ next[c[1]] = c[1] + c[2],
         next[Len(data) + 1] = Len(data) + 1
  PROVE  Pure!C!Stops(data, next) = Len(data) + 1
<1> DEFINE end == Len(data) + 1
           starts == {c[1] : c \in chars}
<1>1. Len(data) \in Nat /\ DOMAIN data = 1..Len(data)
  BY LenProperties
<1>2. PICK place : /\ Pure!C!Stops(data, next) = place[Len(data)] /\ place[0] = 1
                /\ \A n \in 0..(Len(data) - 1) : place[n + 1] = next[place[n]]
  BY <1>1, Walks
<1>3. 1 \in starts \cup {end} /\ \A c \in chars : c[1] + c[2] \in starts \cup {end}
  BY Zenon DEF Pure!C!Covers
<1> DEFINE Reached(n) == place[n] \in starts \cup {end} /\ (place[n] >= n + 1 \/ place[n] = end)
           P == {n \in Nat : n <= Len(data) => Reached(n)}
<1>4. 0 \in P
  BY <1>2, <1>3
<1>5. ASSUME NEW n \in Nat, n \in P PROVE n + 1 \in P
  <2> SUFFICES ASSUME n + 1 <= Len(data) PROVE Reached(n + 1)
    OBVIOUS
  <2>1. Reached(n) /\ place[n + 1] = next[place[n]]
    BY <1>1, <1>2, <1>5
  <2>2. CASE place[n] = end
    BY <2>1, <2>2
  <2>3. CASE place[n] # end
    <3>1. PICK c \in chars : place[n] = c[1]
      BY <2>1, <2>3
    <3>2. place[n + 1] = c[1] + c[2] /\ c[1] \in Nat /\ c[2] \in Nat \ {0}
      BY <1>1, <2>1, <3>1
    <3>3. place[n + 1] \in starts \cup {end}
      BY <1>3, <3>2
    <3>4. place[n + 1] >= (n + 1) + 1
      BY <2>1, <2>3, <3>1, <3>2
    <3> QED
      BY <3>3, <3>4
  <2> QED
    BY <2>2, <2>3
<1>6. Nat \subseteq P
  <2> HIDE DEF P
  <2> QED
    BY <1>4, <1>5, Induction
<1>7. Reached(Len(data))
  BY <1>1, <1>6
<1>8. place[Len(data)] = end
  <2> SUFFICES ASSUME place[Len(data)] # end PROVE FALSE
    OBVIOUS
  <2>1. PICK c \in chars : place[Len(data)] = c[1]
    BY <1>7
  <2>2. c[1] \in 1..Len(data)
    BY <1>1
  <2> QED
    BY <1>1, <1>7, <2>1, <2>2
<1> QED
  BY <1>2, <1>8

(* The ones at the beginning of a byte.                                    *)
LEMMA FirstOnes ==
  ASSUME NEW byte \in 0..255
  PROVE  /\ Pure!C!preNUm(byte) \in Nat
         /\ byte \in 240..247 => Pure!C!preNUm(byte) = 4
         /\ byte \in 224..239 => Pure!C!preNUm(byte) = 3
         /\ byte \in 128..223 => Pure!C!preNUm(byte) <= 2
<1> DEFINE S == {k \in 1..8 : byte >= Pure!C!Ones[k]}
<1>1. Pure!C!preNUm(byte) = Cardinality(S)
  <2>1. Pure!C!preNUm(byte) = Pure!C!Cardinality(S)
    BY Zenon DEF Pure!C!preNUm
  <2> QED
    BY <2>1, SameCardinality
<1>2. /\ Pure!C!Ones[1] = 128 /\ Pure!C!Ones[2] = 192 /\ Pure!C!Ones[3] = 224 /\ Pure!C!Ones[4] = 240
      /\ Pure!C!Ones[5] = 248 /\ Pure!C!Ones[6] = 252 /\ Pure!C!Ones[7] = 254 /\ Pure!C!Ones[8] = 255
  BY DEF Pure!C!Ones
<1>3. 1..8 = {1, 2, 3, 4, 5, 6, 7, 8}
  OBVIOUS
<1>4. ASSUME NEW n \in Nat PROVE Cardinality(1..n) = n
  <2>1. 1 \in Int /\ n \in Int /\ n >= 0
    OBVIOUS
  <2>2. Cardinality(1..n) = IF 1 > n THEN 0 ELSE n - 1 + 1
    BY <2>1, FS_Interval
  <2> QED
    BY <2>1, <2>2
<1>5. byte \in 240..247 => S = 1..4
  BY <1>2, <1>3
<1>6. byte \in 224..239 => S = 1..3
  BY <1>2, <1>3
<1>7. byte \in 128..223 => S = 1..1 \/ S = 1..2
  BY <1>2, <1>3
<1>8. Cardinality(S) \in Nat
  <2>1. S \in SUBSET (1..8)
    OBVIOUS
  <2> HIDE DEF S
  <2>2. IsFiniteSet(1..8)
    <3>1. 1 \in Int /\ 8 \in Int
      OBVIOUS
    <3> QED
      BY <3>1, FS_Interval, Zenon
  <2> QED
    BY <2>1, <2>2, FS_Subset, FS_CardinalityType
<1> HIDE DEF S
<1>9. Cardinality(1..1) = 1 /\ Cardinality(1..2) = 2 /\ Cardinality(1..3) = 3 /\ Cardinality(1..4) = 4
  BY <1>4
<1>10. byte \in 240..247 => Pure!C!preNUm(byte) = 4
  BY <1>1, <1>5, <1>9, Zenon
<1>11. byte \in 224..239 => Pure!C!preNUm(byte) = 3
  BY <1>1, <1>6, <1>9, Zenon
<1>12. byte \in 128..223 => Pure!C!preNUm(byte) = 1 \/ Pure!C!preNUm(byte) = 2
  BY <1>1, <1>7, <1>9, Zenon
<1> QED
  BY <1>1, <1>8, <1>10, <1>11, <1>12

(* What the steps of the two loops are.                                    *)
Utf8Step(data) == [n \in 1..(Len(data) + 1) |-> n + Pure!C!Utf8Bytes(data, n)]
GbkStep(data) == [n \in 1..(Len(data) + 1) |-> n + Pure!C!GbkBytes(data, n)]

(* A turn of the loop over characters takes a whole one.                    *)
LEMMA CharactersTaken ==
  ASSUME NEW data \in Seq(0..255)
  PROVE  /\ \A c \in Pure!C!Ascii(data) \cup Pure!C!Utf8(data) :
              c[1] \in DOMAIN data /\ c[2] \in Nat \ {0} /\ Utf8Step(data)[c[1]] = c[1] + c[2]
         /\ \A c \in Pure!C!Ascii(data) \cup Pure!C!Gbk(data) :
              c[1] \in DOMAIN data /\ c[2] \in Nat \ {0} /\ GbkStep(data)[c[1]] = c[1] + c[2]
         /\ Utf8Step(data)[Len(data) + 1] = Len(data) + 1
         /\ GbkStep(data)[Len(data) + 1] = Len(data) + 1
<1>1. Len(data) \in Nat /\ DOMAIN data = 1..Len(data)
  BY LenProperties
<1>2. \A n \in 1..(Len(data) + 1) : /\ Utf8Step(data)[n] = n + Pure!C!Utf8Bytes(data, n)
                                    /\ GbkStep(data)[n] = n + Pure!C!GbkBytes(data, n)
  BY DEF Utf8Step, GbkStep
<1>3. Len(data) + 1 \in 1..(Len(data) + 1) /\ Len(data) + 1 > Len(data)
  BY <1>1
<1>4. Pure!C!Utf8Bytes(data, Len(data) + 1) = 0 /\ Pure!C!GbkBytes(data, Len(data) + 1) = 0
  BY <1>3 DEF Pure!C!Utf8Bytes, Pure!C!GbkBytes
<1>5. ASSUME NEW c \in Pure!C!Ascii(data)
      PROVE  /\ c[1] \in 1..Len(data) /\ c[2] = 1
             /\ Pure!C!Utf8Bytes(data, c[1]) = 1 /\ Pure!C!GbkBytes(data, c[1]) = 1
  <2>1. c[1] \in 1..Len(data) /\ c[2] = 1 /\ data[c[1]] < 128
    BY <1>1 DEF Pure!C!Ascii
  <2>2. ~(c[1] > Len(data))
    BY <1>1, <2>1
  <2> QED
    BY <2>1, <2>2 DEF Pure!C!Utf8Bytes, Pure!C!GbkBytes
<1>6. ASSUME NEW c \in Pure!C!Utf8(data)
      PROVE  c[1] \in 1..Len(data) /\ c[2] \in {3, 4} /\ Pure!C!Utf8Bytes(data, c[1]) = c[2]
  <2> DEFINE L == Len(data)
             i == c[1]
             b == c[2]
             x == data[i]
             num == Pure!C!preNUm(x)
  <2>1. /\ i \in 1..L /\ b \in {3, 4}
        /\ \A j \in (i + 1)..(i + b - 1) : j \in 1..L /\ Pure!C!Continues(data[j])
    BY <1>1 DEF Pure!C!Utf8
  <2>2. (b = 3 /\ x \in 224..239) \/ (b = 4 /\ x \in 240..247)
    <3>1. b \in {3, 4} /\ x \in IF b = 3 THEN 224..239 ELSE 240..247
      BY DEF Pure!C!Utf8
    <3> HIDE DEF b, x
    <3> QED
      BY <3>1
  <2> HIDE DEF i, b, x
  <2>3. x \in 0..255
    BY <2>2
  <2>4. num = b /\ num > 2
    <3>1. /\ x \in 240..247 => num = 4
          /\ x \in 224..239 => num = 3
      BY <2>3, FirstOnes
    <3> HIDE DEF num
    <3> QED
      BY <2>2, <3>1
  <2> HIDE DEF num, L
  <2>5. ~(i > L) /\ ~(x < 128)
    <3>1. ~(i > L)
      BY <1>1, <2>1 DEF L
    <3>2. x \in 224..247
      BY <2>2
    <3>3. ~(x < 128)
      BY <3>2
    <3> QED
      BY <3>1, <3>3
  <2>6. \A k \in (i + 1)..(i + num - 1) : k <= L /\ Pure!C!Continues(data[k])
    BY <1>1, <2>1, <2>4 DEF L
  <2>7. Pure!C!Utf8Bytes(data, i) = num
    BY <2>4, <2>5, <2>6, Zenon DEF Pure!C!Utf8Bytes, num, x, L
  <2> QED
    BY <2>1, <2>4, <2>7 DEF i, b, L
<1>7. ASSUME NEW c \in Pure!C!Gbk(data)
      PROVE  c[1] \in 1..Len(data) /\ c[2] = 2 /\ Pure!C!GbkBytes(data, c[1]) = 2
  <2>1. /\ c[1] \in 1..(Len(data) - 1) /\ c[2] = 2 /\ data[c[1]] \in 129..223
        /\ data[c[1] + 1] \in (64..254) \ {247}
    BY DEF Pure!C!Gbk
  <2>2. c[1] \in 1..Len(data) /\ ~(c[1] > Len(data)) /\ c[1] < Len(data)
    BY <1>1, <2>1
  <2>3. ~(data[c[1]] < 128) /\ data[c[1]] \in 129..254
    <3> DEFINE x == data[c[1]]
    <3> HIDE DEF x
    <3>1. x \in 129..223
      BY <2>1 DEF x
    <3>2. ~(x < 128) /\ x \in 129..254
      BY <3>1
    <3> QED
      BY <3>2 DEF x
  <2> QED
    BY <2>1, <2>2, <2>3, Zenon DEF Pure!C!GbkBytes
<1>8. ASSUME NEW c \in Pure!C!Ascii(data) \cup Pure!C!Utf8(data)
      PROVE  c[1] \in DOMAIN data /\ c[2] \in Nat \ {0} /\ Utf8Step(data)[c[1]] = c[1] + c[2]
  <2>1. c[1] \in 1..Len(data) /\ c[2] \in Nat \ {0} /\ Pure!C!Utf8Bytes(data, c[1]) = c[2]
    BY <1>5, <1>6
  <2>2. c[1] \in 1..(Len(data) + 1)
    BY <1>1, <2>1
  <2> QED
    BY <1>1, <1>2, <2>1, <2>2
<1>9. ASSUME NEW c \in Pure!C!Ascii(data) \cup Pure!C!Gbk(data)
      PROVE  c[1] \in DOMAIN data /\ c[2] \in Nat \ {0} /\ GbkStep(data)[c[1]] = c[1] + c[2]
  <2>1. c[1] \in 1..Len(data) /\ c[2] \in Nat \ {0} /\ Pure!C!GbkBytes(data, c[1]) = c[2]
    BY <1>5, <1>7
  <2>2. c[1] \in 1..(Len(data) + 1)
    BY <1>1, <2>1
  <2> QED
    BY <1>1, <1>2, <2>1, <2>2
<1>10. Utf8Step(data)[Len(data) + 1] = Len(data) + 1 /\ GbkStep(data)[Len(data) + 1] = Len(data) + 1
  BY <1>1, <1>2, <1>3, <1>4
<1> QED
  BY <1>8, <1>9, <1>10

(* Whole characters of one, three or four bytes are UTF8.                  *)
LEMMA Utf8Right ==
  ASSUME NEW data \in Seq(0..255),
         Pure!C!IsText(data, Pure!C!Ascii(data) \cup Pure!C!Utf8(data))
  PROVE  Pure!C!GetStrCoding(data) = "UTF8"
<1>1. PICK chars \in SUBSET (Pure!C!Ascii(data) \cup Pure!C!Utf8(data)) : Pure!C!Covers(chars, data)
  BY DEF Pure!C!IsText
<1>2. Pure!C!Stops(data, Utf8Step(data)) = Len(data) + 1
  BY <1>1, CharactersTaken, WalkEnds
<1>3. Len(data) \in Nat
  BY LenProperties
<1>4. Pure!C!isUtf8(data) = "yes"
  BY <1>2, <1>3 DEF Pure!C!isUtf8, Utf8Step
<1> QED
  BY <1>4 DEF Pure!C!GetStrCoding

(* The first byte of a character of two.                                   *)
LEMMA GbkFirst ==
  ASSUME NEW data, Len(data) \in Nat, NEW c \in Pure!C!Gbk(data)
  PROVE  c[1] \in 1..Len(data) /\ data[c[1]] \in 129..223
<1>1. c[1] \in 1..(Len(data) - 1) /\ data[c[1]] \in 129..223
  <2> DEFINE S == {i \in 1..(Len(data) - 1) :
                     data[i] \in 129..223 /\ data[i + 1] \in (64..254) \ {247}}
  <2>1. Pure!C!Gbk(data) = {<<i, 2>> : i \in S}
    BY Zenon DEF Pure!C!Gbk
  <2> HIDE DEF S
  <2>2. PICK i \in S : c = <<i, 2>>
    BY <2>1, Zenon
  <2>3. i \in 1..(Len(data) - 1) /\ data[i] \in 129..223
    BY DEF S
  <2>4. c[1] = i
    BY <2>2
  <2> QED
    BY <2>3, <2>4, Zenon
<1>2. \A i \in 1..(Len(data) - 1) : i \in 1..Len(data)
  OBVIOUS
<1> QED
  BY <1>1, <1>2, Zenon

(* A text of one and two bytes is no UTF8 where two bytes begin.           *)
LEMMA GbkIsNoUtf8 ==
  ASSUME NEW data \in Seq(0..255),
         NEW chars \in SUBSET (Pure!C!Ascii(data) \cup Pure!C!Gbk(data)),
         Pure!C!Covers(chars, data), ~(chars \subseteq Pure!C!Ascii(data))
  PROVE  Pure!C!isUtf8(data) = "no"
<1> DEFINE end == Len(data) + 1
           starts == {c[1] : c \in chars}
           next == Utf8Step(data)
           High(i) == i \in 1..Len(data) /\ data[i] \in 129..223
<1>1. Len(data) \in Nat /\ DOMAIN data = 1..Len(data)
  BY LenProperties
<1>2. PICK place : /\ Pure!C!Stops(data, next) = place[Len(data)] /\ place[0] = 1
                /\ \A n \in 0..(Len(data) - 1) : place[n + 1] = next[place[n]]
  BY <1>1, Walks
<1>3. 1 \in starts \cup {end} /\ \A c \in chars : c[1] + c[2] \in starts \cup {end}
  BY Zenon DEF Pure!C!Covers
<1>4. ASSUME NEW i, High(i)
      PROVE  next[i] = i /\ Pure!C!preNUm(data[i]) <= 2
  <2> DEFINE L == Len(data)
             x == data[i]
             num == Pure!C!preNUm(x)
  <2>1. i \in 1..L /\ x \in 129..223
    BY <1>4
  <2> HIDE DEF High, x
  <2>2. x \in 0..255 /\ x \in 128..223 /\ ~(x < 128)
    BY <2>1
  <2>3. num \in Nat /\ num <= 2
    BY <2>2, FirstOnes
  <2> HIDE DEF num, L
  <2>4. ~(num > 2)
    BY <2>3
  <2>5. i \in 1..(L + 1) /\ ~(i > L) /\ i \in Nat
    BY <1>1, <2>1 DEF L
  <2>6. Pure!C!Utf8Bytes(data, i) = 0
    BY <2>2, <2>4, <2>5, Zenon DEF Pure!C!Utf8Bytes, num, x, L
  <2>7. next[i] = i + 0
    BY <2>5, <2>6, Zenon DEF Utf8Step, L
  <2> QED
    BY <2>3, <2>5, <2>7 DEF num, x
<1>5. ASSUME NEW c \in chars
      PROVE  \/ c[1] \in 1..Len(data) /\ data[c[1]] < 128 /\ c[2] = 1 /\ next[c[1]] = c[1] + 1
             \/ High(c[1])
  <2>1. CASE c \in Pure!C!Ascii(data)
    <3>1. next[c[1]] = c[1] + c[2]
      BY <2>1, CharactersTaken
    <3>2. c[1] \in 1..Len(data) /\ c[2] = 1 /\ data[c[1]] < 128
      BY <1>1, <2>1 DEF Pure!C!Ascii
    <3> QED
      BY <3>1, <3>2
  <2>2. CASE c \in Pure!C!Gbk(data)
    BY <1>1, <2>2, GbkFirst
  <2> QED
    BY <2>1, <2>2
<1> DEFINE Low(n) == /\ place[n] = n + 1 /\ place[n] \in starts \cup {end}
                     /\ \A j \in 1..n : data[j] < 128
           P == {n \in Nat : n <= Len(data) => Low(n) \/ High(place[n])}
<1> HIDE DEF next
<1>6. 0 \in P
  BY <1>2, <1>3
<1>7. ASSUME NEW n \in Nat, n \in P PROVE n + 1 \in P
  <2> HIDE DEF Low, High
  <2> SUFFICES ASSUME n + 1 <= Len(data) PROVE Low(n + 1) \/ High(place[n + 1])
    OBVIOUS
  <2> USE DEF Low, High
  <2>1. (Low(n) \/ High(place[n])) /\ place[n + 1] = next[place[n]]
    BY <1>1, <1>2, <1>7
  <2>2. CASE High(place[n])
    <3>1. place[n + 1] = place[n]
      BY <1>4, <2>1, <2>2
    <3> QED
      BY <2>2, <3>1
  <2>3. CASE Low(n)
    <3>1. place[n] = n + 1 /\ place[n] # end
      BY <1>1, <2>3
    <3>2. PICK c \in chars : c[1] = n + 1
      BY <2>3, <3>1
    <3>3. CASE High(c[1])
      <4>1. place[n + 1] = n + 1
        BY <1>4, <2>1, <3>1, <3>2, <3>3
      <4> QED
        BY <3>2, <3>3, <4>1
    <3>4. CASE data[c[1]] < 128 /\ c[2] = 1 /\ next[c[1]] = c[1] + 1
      <4>1. place[n + 1] = (n + 1) + 1 /\ place[n + 1] = c[1] + c[2]
        BY <2>1, <3>1, <3>2, <3>4
      <4>2. place[n + 1] \in starts \cup {end}
        BY <1>3, <4>1
      <4>3. \A j \in 1..(n + 1) : data[j] < 128
        BY <2>3, <3>2, <3>4
      <4> QED
        BY <4>1, <4>2, <4>3
    <3> QED
      BY <1>5, <3>3, <3>4
  <2> QED
    BY <2>1, <2>2, <2>3
<1>8. Nat \subseteq P
  <2> HIDE DEF P
  <2> QED
    BY <1>6, <1>7, Induction
<1>9. Low(Len(data)) \/ High(place[Len(data)])
  <2> HIDE DEF Low, High
  <2> QED
    BY <1>1, <1>8
<1>10. ~Low(Len(data))
  <2>1. PICK c \in chars : c \notin Pure!C!Ascii(data)
    OBVIOUS
  <2>2. High(c[1]) /\ c[1] \in 1..Len(data)
    <3>1. c \in Pure!C!Gbk(data)
      BY <2>1
    <3> QED
      BY <1>1, <3>1, GbkFirst
  <2>3. ~(data[c[1]] < 128)
    <3> DEFINE x == data[c[1]]
    <3>1. x \in 129..223
      BY <2>2
    <3> HIDE DEF x
    <3>2. ~(x < 128)
      BY <3>1
    <3> QED
      BY <3>2 DEF x
  <2> QED
    BY <2>2, <2>3
<1> DEFINE i == Pure!C!Stops(data, next)
<1>11. High(i)
  BY <1>2, <1>9, <1>10
<1>12. Pure!C!isUtf8(data) =
         IF i > Len(data) THEN "yes"
         ELSE IF \/ Pure!C!preNUm(data[i]) <= 2
                 \/ \E k \in (i + 1)..(i + Pure!C!preNUm(data[i]) - 1) :
                      k <= Len(data) /\ ~Pure!C!Continues(data[k])
         THEN "no" ELSE "panic"
  BY Zenon DEF Pure!C!isUtf8, Utf8Step, next
<1> HIDE DEF i
<1>13. ~(i > Len(data)) /\ Pure!C!preNUm(data[i]) <= 2
  <2>1. Pure!C!preNUm(data[i]) <= 2
    <3> HIDE DEF High
    <3> QED
      BY <1>4, <1>11
  <2>2. i \in 1..Len(data)
    BY <1>11
  <2> QED
    BY <1>1, <2>1, <2>2
<1> QED
  BY <1>12, <1>13

(* Chinese in GBK whose first bytes begin no longer character is GBK.      *)
LEMMA GbkRight ==
  ASSUME NEW data \in Seq(0..255),
         NEW chars \in SUBSET (Pure!C!Ascii(data) \cup Pure!C!Gbk(data)),
         Pure!C!Covers(chars, data), ~(chars \subseteq Pure!C!Ascii(data))
  PROVE  Pure!C!GetStrCoding(data) = "GBK"
<1>1. Pure!C!isUtf8(data) = "no"
  BY GbkIsNoUtf8
<1>2. Pure!C!Stops(data, GbkStep(data)) = Len(data) + 1
  BY CharactersTaken, WalkEnds
<1>3. Len(data) \in Nat
  BY LenProperties
<1>4. Pure!C!isGBK(data) = "yes"
  BY <1>2, <1>3 DEF Pure!C!isGBK, GbkStep
<1> QED
  BY <1>1, <1>4 DEF Pure!C!GetStrCoding

-----------------------------------------------------------------------------
(* What a call on conversions is given.                                    *)
IsConversionCall(q) ==
  \/ q.op = "ip" /\ q.segs \in [1..4 -> 0..(Octet - 1)]
  \/ q.op = "emoji" /\ q.s \in Seq({"plain", "emoji", "escape"})
  \/ q.op = "coding" /\ q.data \in Seq(0..255)
  \/ q.op = "error" /\ q.kind \in Pure!C!ErrKind
  \/ q.op = "code" /\ q.now \in Nat /\ q.then \in Nat

(* Every conversion is answered right. *)
LEMMA AnswersAboutConversions ==
  ASSUME Octet \in Nat \ {0}, NEW q, IsConversionCall(q), NEW r \in Pure!C!Results(q)
  PROVE  Pure!C!Right(q, r)
<1>1. CASE q.op = "ip"
  <2>1. q.segs \in [1..4 -> 0..(Octet - 1)]
    BY <1>1 DEF IsConversionCall
  <2>2. r = Pure!C!IpIntToString(Pure!C!StringIpToInt(q.segs))
    BY <1>1 DEF Pure!C!Results
  <2>3. r = q.segs
    BY <2>1, <2>2, AddressesRight
  <2> QED
    BY <1>1, <2>3 DEF Pure!C!Right
<1>2. CASE q.op = "emoji"
  <2>1. q.s \in Seq({"plain", "emoji", "escape"})
    BY <1>2 DEF IsConversionCall
  <2>2. r = Pure!C!UnicodeEmojiDecode(Pure!C!UnicodeEmojiCode(q.s))
    BY <1>2 DEF Pure!C!Results
  <2>3. "escape" \notin Pure!C!ToSet(q.s) => r = q.s
    BY <2>1, <2>2, EmojiRight
  <2> QED
    BY <1>2, <2>3 DEF Pure!C!Right
<1>3. CASE q.op = "coding"
  <2>1. q.data \in Seq(0..255)
    BY <1>3 DEF IsConversionCall
  <2>2. r = Pure!C!GetStrCoding(q.data)
    BY <1>3 DEF Pure!C!Results
  <2>3. Pure!C!IsText(q.data, Pure!C!Ascii(q.data) \cup Pure!C!Utf8(q.data)) => r = "UTF8"
    BY <2>1, <2>2, Utf8Right
  <2>4. \A chars \in SUBSET (Pure!C!Ascii(q.data) \cup Pure!C!Gbk(q.data)) :
          (Pure!C!Covers(chars, q.data) /\ ~(chars \subseteq Pure!C!Ascii(q.data))) => r = "GBK"
    BY <2>1, <2>2, GbkRight
  <2> QED
    BY <1>3, <2>3, <2>4 DEF Pure!C!Right
<1>4. CASE q.op = "error"
  <2>1. q.kind \in Pure!C!ErrKind
    BY <1>4 DEF IsConversionCall
  <2>2. r \in Pure!C!FromGuacamoleStatusCode(Pure!C!GetGuacamoleStatusCode(Pure!C!StatusOf(q.kind)))
    BY <1>4 DEF Pure!C!Results
  <2>3. r = Pure!C!StatusOf(q.kind) /\ r \in DOMAIN Pure!C!GuacCode
    BY <2>1, <2>2, ErrorsRight
  <2> QED
    BY <1>4, <2>3 DEF Pure!C!Right
<1>5. CASE q.op = "code"
  <2>1. q.now \in Nat /\ q.then \in Nat
    BY <1>5 DEF IsConversionCall
  <2>2. r = Pure!C!VerifyCode(q.now, Pure!C!oneTimePassword(Pure!C!Quotient(q.then, 30)))
    BY <1>5 DEF Pure!C!Results
  <2> DEFINE apart == IF q.now > q.then THEN q.now - q.then ELSE q.then - q.now
  <2>3. (apart <= 30 => r) /\ ((apart >= 60 /\ q.now >= 30) => ~r)
    BY <2>1, <2>2, CodesRight, Zenon
  <2> HIDE DEF apart
  <2> QED
    BY <1>5, <2>3, Zenon DEF Pure!C!Right, apart
<1> QED
  BY <1>1, <1>2, <1>3, <1>4, <1>5 DEF IsConversionCall

(* The calls that are made are such calls.                                 *)
LEMMA ConversionCallsAre ==
  ASSUME Pure!ConversionCall
  PROVE  IsConversionCall(call)
<1> DEFINE Times == {0, 1, 29, 30, 31, 59, 60, 61, 89, 90, 91, 119, 120}
<1>1. ASSUME NEW segs \in [1..4 -> 0..(Octet - 1)], call = [op |-> "ip", segs |-> segs]
      PROVE  IsConversionCall(call)
  BY <1>1 DEF IsConversionCall
<1>2. ASSUME NEW s \in Pure!UpTo({"plain", "emoji", "escape"}, 3), call = [op |-> "emoji", s |-> s]
      PROVE  IsConversionCall(call)
  <2>1. s \in Seq({"plain", "emoji", "escape"})
    BY BoundedTexts
  <2> QED
    BY <1>2, <2>1 DEF IsConversionCall
<1>3. ASSUME NEW first \in Pure!Characters, NEW second \in Pure!Characters,
             NEW third \in Pure!Characters, NEW fourth \in Pure!Characters,
             call = [op |-> "coding", data |-> first \o second \o third \o fourth]
      PROVE  IsConversionCall(call)
  <2>1. Pure!Characters \subseteq Seq(0..255)
    BY DEF Pure!Characters
  <2>2. first \o second \o third \o fourth \in Seq(0..255)
    <3>1. first \o second \in Seq(0..255)
      BY <2>1
    <3>2. (first \o second) \o third \in Seq(0..255)
      BY <2>1, <3>1
    <3> QED
      BY <2>1, <3>2
  <2> QED
    BY <1>3, <2>2 DEF IsConversionCall
<1>4. ASSUME NEW error \in Pure!C!ErrKind, call = [op |-> "error", kind |-> error]
      PROVE  IsConversionCall(call)
  BY <1>4 DEF IsConversionCall
<1>5. ASSUME NEW now \in Times, NEW then \in Times,
             call = [op |-> "code", now |-> now, then |-> then]
      PROVE  IsConversionCall(call)
  BY <1>5 DEF IsConversionCall
<1> HIDE DEF Times
<1>6. CASE \E segs \in [1..4 -> 0..(Octet - 1)] : call = [op |-> "ip", segs |-> segs]
  BY <1>1, <1>6, Zenon
<1>7. CASE \E s \in Pure!UpTo({"plain", "emoji", "escape"}, 3) : call = [op |-> "emoji", s |-> s]
  BY <1>2, <1>7, Zenon
<1>8. CASE \E first, second, third, fourth \in Pure!Characters :
             call = [op |-> "coding", data |-> first \o second \o third \o fourth]
  BY <1>3, <1>8, Zenon
<1>9. CASE \E error \in Pure!C!ErrKind : call = [op |-> "error", kind |-> error]
  BY <1>4, <1>9, Zenon
<1>10. CASE \E now, then \in Times :
              call = [op |-> "code", now |-> now, then |-> then]
  BY <1>5, <1>10, Zenon
<1> QED
  BY <1>6, <1>7, <1>8, <1>9, <1>10, Zenon DEF Pure!ConversionCall, Times

(* The inductive invariant of the conversions.                             *)
ConversionsInv ==
  /\ Pure!Conversions => IsConversionCall(call)
  /\ Pure!ConversionsRight

(* It holds before the call.                                               *)
LEMMA ConversionsBegin ==
  ASSUME Pure!Init
  PROVE  ConversionsInv
<1>1. Pure!ListCall => call.op \in {"diff", "intersect", "duplicates", "excel", "pages"}
  BY DEF Pure!ListCall
<1>2. Pure!AccountCall => call.op \in {"password", "again", "account", "dberror"}
  BY AccountOps
<1>3. Pure!Conversions => Pure!ConversionCall
  BY <1>1, <1>2, FormatOps DEF Pure!Init, Pure!Conversions
<1> QED
  BY <1>3, ConversionCallsAre DEF ConversionsInv, Pure!ConversionsRight, Pure!Init

(* A call that returns keeps it.                                           *)
LEMMA ConversionsStep ==
  ASSUME ConversionsInv, [Pure!Next]_Pure!pureVars, Octet \in Nat \ {0}
  PROVE  ConversionsInv'
<1>1. CASE UNCHANGED Pure!pureVars
  BY <1>1 DEF ConversionsInv, Pure!pureVars, Pure!Conversions, Pure!ConversionsRight
<1>2. CASE Pure!Next
  <2>1. call' = call /\ (Pure!Conversions' <=> Pure!Conversions)
    BY <1>2 DEF Pure!Next, Pure!Conversions
  <2>2. ASSUME Pure!Conversions PROVE Pure!C!Right(call, returned'[1])
    <3>1. ~Pure!Lists /\ ~Pure!Formats /\ ~Pure!Accounts
      BY <2>2 DEF Pure!Accounts, Pure!Lists, Pure!Formats, Pure!Conversions
    <3>2. PICK r \in Pure!C!Results(call) : returned' = <<r>>
      BY <1>2, <3>1, Zenon DEF Pure!Next, Pure!Returns
    <3>3. IsConversionCall(call)
      BY <2>2 DEF ConversionsInv
    <3>4. Pure!C!Right(call, r)
      BY <3>2, <3>3, AnswersAboutConversions
    <3>5. <<r>>[1] = r
      OBVIOUS
    <3> QED
      BY <3>2, <3>4, <3>5, Zenon
  <2>3. Pure!ConversionsRight'
    BY <2>1, <2>2, Zenon DEF Pure!ConversionsRight
  <2>4. (Pure!Conversions => IsConversionCall(call))'
    BY <2>1 DEF ConversionsInv
  <2> QED
    BY <2>3, <2>4 DEF ConversionsInv
<1> QED
  BY <1>1, <1>2

(* What is converted there and back comes back, texts have their coding    *)
(* and codes their time: src/utils/utils.go, src/utils/format/format.go,   *)
(* src/bbtty/guac/status.go and src/bbGoogleAuth/auth.go.                  *)
THEOREM ConversionsAnswered == Pure!Spec => []Pure!ConversionsRight
<1>1. Octet \in Nat \ {0}
  BY OctetAssumption
<1>2. Pure!Init => ConversionsInv
  BY ConversionsBegin
<1>3. ConversionsInv /\ [Pure!Next]_Pure!pureVars => ConversionsInv'
  BY <1>1, ConversionsStep
<1>4. ConversionsInv => Pure!ConversionsRight
  BY DEF ConversionsInv
<1> QED
  BY <1>2, <1>3, <1>4, PTL DEF Pure!Spec

-----------------------------------------------------------------------------
(* EsLog.  A log is on its way to the channel, in it, posted or done.      *)

EsTypes ==
  /\ logChan \in Seq(Log) /\ stored \in Seq(Log)
  /\ push \in [Log -> {"out", "probe", "send", "returned"}]
  /\ post \in [Log -> {"none", "client", "do", "done"}]

(* The inductive invariant: no log is in the channel twice, or while it is *)
(* posted, and none that is still to be posted has been stored.            *)
EsInv ==
  /\ EsTypes
  /\ \A l \in Log : push[l] # "returned" => post[l] = "none"
  /\ \A n \in 1..Len(logChan) : push[logChan[n]] = "returned" /\ post[logChan[n]] = "none"
  /\ \A m, n \in 1..Len(logChan) : logChan[m] = logChan[n] => m = n
  /\ \A i \in 1..Len(stored) : post[stored[i]] \in {"do", "done"}
  /\ \A i \in 1..Len(stored) : post[stored[i]] = "do" => crashed
  /\ \A i, j \in 1..Len(stored) : stored[i] = stored[j] => i = j

(* A sequence keeps its elements when one is appended.                     *)
LEMMA SeqAppended ==
  ASSUME NEW S, NEW s \in Seq(S), NEW x \in S
  PROVE  /\ Append(s, x) \in Seq(S) /\ Len(Append(s, x)) = Len(s) + 1 /\ Len(s) \in Nat
         /\ Append(s, x)[Len(s) + 1] = x
         /\ \A i \in 1..Len(s) : Append(s, x)[i] = s[i]
BY AppendProperties, LenProperties

(* What is behind the head of a sequence.                                  *)
LEMMA Behind ==
  ASSUME NEW S, NEW s \in Seq(S), s # <<>>
  PROVE  /\ Tail(s) \in Seq(S) /\ Len(Tail(s)) = Len(s) - 1 /\ Len(s) \in Nat \ {0}
         /\ Head(s) = s[1] /\ Head(s) \in S
         /\ \A i \in 1..(Len(s) - 1) : Tail(s)[i] = s[i + 1]
<1>1. Len(s) \in Nat \ {0}
  BY EmptySeq, LenProperties
<1> QED
  BY <1>1, HeadTailProperties

(* Every step keeps the invariant.                                         *)
LEMMA EsStep == EsInv /\ [Es!Next]_Es!logVars => EsInv'
<1> SUFFICES ASSUME EsInv, [Es!Next]_Es!logVars
             PROVE  EsInv'
  OBVIOUS
<1>1. CASE UNCHANGED Es!logVars
  BY <1>1 DEF EsInv, EsTypes, Es!logVars
<1>2. ASSUME ~crashed, NEW l \in Log, Es!Push(l) \/ Es!Probe(l)
      PROVE  EsInv'
  <2>1. /\ UNCHANGED <<logChan, post, stored, crashed>> /\ push[l] # "returned"
        /\ \E p \in {"probe", "send", "returned"} : push' = [push EXCEPT ![l] = p]
    BY <1>2 DEF Es!Push, Es!Probe
  <2>2. PICK p \in {"probe", "send", "returned"} : push' = [push EXCEPT ![l] = p]
    BY <2>1
  <2>3. EsTypes'
    BY <2>1, <2>2 DEF EsInv, EsTypes
  <2>4. \A k \in Log : k # l => push'[k] = push[k]
    BY <2>2 DEF EsInv, EsTypes
  <2>5. post[l] = "none"
    BY <2>1 DEF EsInv
  <2>6. \A n \in 1..Len(logChan) : logChan[n] # l /\ logChan[n] \in Log
    BY <2>1 DEF EsInv, EsTypes
  <2> QED
    BY <2>1, <2>3, <2>4, <2>5, <2>6 DEF EsInv
<1>3. ASSUME ~crashed, NEW l \in Log, Es!Send(l)
      PROVE  EsInv'
  <2> DEFINE L == Len(logChan)
  <2>1. /\ UNCHANGED <<post, stored, crashed>> /\ push[l] = "send"
        /\ logChan' = Append(logChan, l) /\ push' = [push EXCEPT ![l] = "returned"]
    BY <1>3 DEF Es!Send
  <2>2. /\ logChan' \in Seq(Log) /\ Len(logChan') = L + 1 /\ L \in Nat /\ logChan'[L + 1] = l
        /\ \A n \in 1..L : logChan'[n] = logChan[n]
    <3>1. logChan \in Seq(Log)
      BY DEF EsInv, EsTypes
    <3> QED
      BY <2>1, <3>1, SeqAppended
  <2>3. EsTypes'
    BY <2>1, <2>2 DEF EsInv, EsTypes
  <2>4. push'[l] = "returned" /\ \A k \in Log : k # l => push'[k] = push[k]
    BY <2>1 DEF EsInv, EsTypes
  <2>5. post[l] = "none"
    BY <2>1 DEF EsInv
  <2>6. \A n \in 1..L : logChan[n] # l /\ logChan[n] \in Log
    BY <2>1 DEF EsInv, EsTypes
  <2>7. \A n \in 1..(L + 1) : n = L + 1 \/ n \in 1..L
    BY <2>2
  <2>8. (\A k \in Log : push[k] # "returned" => post[k] = "none")'
    BY <2>1, <2>4 DEF EsInv
  <2>9. (\A n \in 1..Len(logChan) : push[logChan[n]] = "returned" /\ post[logChan[n]] = "none")'
    <3> SUFFICES ASSUME NEW n \in 1..(L + 1)
                 PROVE  push'[logChan'[n]] = "returned" /\ post'[logChan'[n]] = "none"
      BY <2>2
    <3>1. CASE n = L + 1
      BY <2>1, <2>2, <2>4, <2>5, <3>1
    <3>2. CASE n \in 1..L
      BY <2>1, <2>2, <2>4, <2>6, <3>2 DEF EsInv
    <3> QED
      BY <2>7, <3>1, <3>2
  <2>10. (\A m, n \in 1..Len(logChan) : logChan[m] = logChan[n] => m = n)'
    <3> SUFFICES ASSUME NEW m \in 1..(L + 1), NEW n \in 1..(L + 1), logChan'[m] = logChan'[n]
                 PROVE  m = n
      BY <2>2
    <3> QED
      BY <2>2, <2>6, <2>7 DEF EsInv
  <2> QED
    BY <2>1, <2>3, <2>8, <2>9, <2>10 DEF EsInv
<1>4. ASSUME ~crashed, Es!Dispatch
      PROVE  EsInv'
  <2> DEFINE h == Head(logChan)
             L == Len(logChan)
  <2>1. /\ UNCHANGED <<push, stored, crashed>> /\ logChan # <<>>
        /\ logChan' = Tail(logChan) /\ post' = [post EXCEPT ![h] = "client"]
    BY <1>4 DEF Es!Dispatch
  <2>2. /\ logChan' \in Seq(Log) /\ Len(logChan') = L - 1 /\ L \in Nat \ {0}
        /\ h = logChan[1] /\ h \in Log
        /\ \A n \in 1..(L - 1) : logChan'[n] = logChan[n + 1]
    <3>1. logChan \in Seq(Log)
      BY DEF EsInv, EsTypes
    <3> QED
      BY <2>1, <3>1, Behind
  <2> HIDE DEF h, L
  <2>3. EsTypes'
    BY <2>1, <2>2 DEF EsInv, EsTypes
  <2>4. post'[h] = "client" /\ \A k \in Log : k # h => post'[k] = post[k]
    BY <2>1, <2>2 DEF EsInv, EsTypes
  <2>5. 1 \in 1..L /\ push[h] = "returned" /\ post[h] = "none"
    BY <2>2 DEF EsInv, L
  <2>6. \A n \in 1..(L - 1) : n + 1 \in 1..L /\ logChan[n + 1] # h /\ logChan[n + 1] \in Log
    <3> SUFFICES ASSUME NEW n \in 1..(L - 1)
                 PROVE  n + 1 \in 1..L /\ logChan[n + 1] # h /\ logChan[n + 1] \in Log
      OBVIOUS
    <3>1. n + 1 \in 1..L /\ n + 1 # 1
      BY <2>2
    <3>2. logChan[n + 1] # logChan[1]
      BY <2>5, <3>1 DEF EsInv, L
    <3>3. logChan[n + 1] \in Log
      BY <3>1 DEF EsInv, EsTypes, L
    <3> QED
      BY <2>2, <3>1, <3>2, <3>3
  <2>7. (\A n \in 1..Len(logChan) : push[logChan[n]] = "returned" /\ post[logChan[n]] = "none")'
    <3> SUFFICES ASSUME NEW n \in 1..(L - 1)
                 PROVE  push'[logChan'[n]] = "returned" /\ post'[logChan'[n]] = "none"
      BY <2>2
    <3> QED
      BY <2>1, <2>2, <2>4, <2>6 DEF EsInv, L
  <2>8. (\A m, n \in 1..Len(logChan) : logChan[m] = logChan[n] => m = n)'
    <3> SUFFICES ASSUME NEW m \in 1..(L - 1), NEW n \in 1..(L - 1), logChan'[m] = logChan'[n]
                 PROVE  m = n
      BY <2>2
    <3>1. m + 1 \in 1..L /\ n + 1 \in 1..L /\ logChan[m + 1] = logChan[n + 1]
      BY <2>2, <2>6
    <3>2. m + 1 = n + 1
      BY <3>1 DEF EsInv, L
    <3> QED
      BY <3>2
  <2>9. \A i \in 1..Len(stored) : stored[i] # h /\ stored[i] \in Log
    <3>1. \A i \in 1..Len(stored) : stored[i] \in Log
      BY DEF EsInv, EsTypes
    <3>2. \A i \in 1..Len(stored) : post[stored[i]] # "none"
      BY DEF EsInv
    <3> QED
      BY <2>5, <3>1, <3>2
  <2>10. (\A l \in Log : push[l] # "returned" => post[l] = "none")'
    BY <2>1, <2>4, <2>5 DEF EsInv
  <2>11. /\ (\A i \in 1..Len(stored) : post[stored[i]] \in {"do", "done"})'
         /\ (\A i \in 1..Len(stored) : post[stored[i]] = "do" => crashed)'
    BY <2>1, <2>4, <2>9 DEF EsInv
  <2> QED
    BY <2>1, <2>3, <2>7, <2>8, <2>10, <2>11 DEF EsInv
<1>5. ASSUME ~crashed, NEW l \in Log, Es!NewClient(l)
      PROVE  EsInv'
  <2>1. /\ UNCHANGED <<logChan, push, stored>> /\ post[l] = "client"
        /\ \/ UNCHANGED post
           \/ UNCHANGED crashed /\ \E end \in {"do", "done"} : post' = [post EXCEPT ![l] = end]
    BY <1>5 DEF Es!NewClient
  <2>2. \A i \in 1..Len(stored) : stored[i] # l /\ stored[i] \in Log
    BY <2>1 DEF EsInv, EsTypes
  <2>3. \A n \in 1..Len(logChan) : logChan[n] # l /\ logChan[n] \in Log
    BY <2>1 DEF EsInv, EsTypes
  <2>4. CASE UNCHANGED post
    <3>1. \A i \in 1..Len(stored) : post[stored[i]] # "do"
      BY <1>5 DEF EsInv
    <3> QED
      BY <2>1, <2>4, <3>1 DEF EsInv, EsTypes
  <2>5. CASE UNCHANGED crashed /\ \E end \in {"do", "done"} : post' = [post EXCEPT ![l] = end]
    <3>1. PICK end \in {"do", "done"} : post' = [post EXCEPT ![l] = end]
      BY <2>5
    <3>2. EsTypes'
      BY <2>1, <3>1 DEF EsInv, EsTypes
    <3>3. \A k \in Log : k # l => post'[k] = post[k]
      BY <3>1 DEF EsInv, EsTypes
    <3>4. push[l] = "returned"
      BY <2>1 DEF EsInv
    <3>5. (\A k \in Log : push[k] # "returned" => post[k] = "none")'
      BY <2>1, <3>3, <3>4 DEF EsInv
    <3>6. (\A n \in 1..Len(logChan) : push[logChan[n]] = "returned" /\ post[logChan[n]] = "none")'
      BY <2>1, <2>3, <3>3 DEF EsInv
    <3>7. /\ (\A i \in 1..Len(stored) : post[stored[i]] \in {"do", "done"})'
          /\ (\A i \in 1..Len(stored) : post[stored[i]] = "do" => crashed)'
      BY <2>1, <2>2, <2>5, <3>3 DEF EsInv
    <3> QED
      BY <2>1, <3>2, <3>5, <3>6, <3>7 DEF EsInv
  <2> QED
    BY <2>1, <2>4, <2>5
<1>6. ASSUME ~crashed, NEW l \in Log, Es!Do(l)
      PROVE  EsInv'
  <2> DEFINE M == Len(stored)
  <2>1. /\ UNCHANGED <<logChan, push>> /\ post[l] = "do" /\ stored' \in {stored, Append(stored, l)}
        /\ \/ UNCHANGED post /\ crashed' = TRUE
           \/ UNCHANGED crashed /\ post' = [post EXCEPT ![l] = "done"]
    BY <1>6 DEF Es!Do
  <2>2. \A i \in 1..M : stored[i] # l /\ stored[i] \in Log /\ post[stored[i]] = "done"
    BY <1>6, <2>1 DEF EsInv, EsTypes
  <2>3. \A n \in 1..Len(logChan) : logChan[n] # l /\ logChan[n] \in Log
    BY <2>1 DEF EsInv, EsTypes
  <2>4. /\ post' \in [Log -> {"none", "client", "do", "done"}]
        /\ post'[l] \in {"do", "done"} /\ (post'[l] = "do" => crashed')
        /\ \A k \in Log : k # l => post'[k] = post[k]
    BY <2>1 DEF EsInv, EsTypes
  <2>5. /\ stored' \in Seq(Log)
        /\ \A i \in 1..Len(stored') : stored'[i] = l \/ (i \in 1..M /\ stored'[i] = stored[i])
        /\ \A i, j \in 1..Len(stored') : (stored'[i] = l /\ stored'[j] = l) => i = j
    <3>1. CASE stored' = stored
      BY <2>2, <3>1 DEF EsInv, EsTypes
    <3>2. CASE stored' = Append(stored, l)
      <4>1. /\ stored' \in Seq(Log) /\ Len(stored') = M + 1 /\ M \in Nat /\ stored'[M + 1] = l
            /\ \A i \in 1..M : stored'[i] = stored[i]
        <5>1. stored \in Seq(Log)
          BY DEF EsInv, EsTypes
        <5> QED
          BY <3>2, <5>1, SeqAppended
      <4>2. \A i \in 1..(M + 1) : i = M + 1 \/ i \in 1..M
        BY <4>1
      <4> HIDE DEF M
      <4> QED
        BY <2>2, <4>1, <4>2
    <3> QED
      BY <2>1, <3>1, <3>2
  <2>6. EsTypes'
    BY <2>1, <2>4, <2>5 DEF EsInv, EsTypes
  <2>7. push[l] = "returned"
    BY <2>1 DEF EsInv
  <2>8. (\A k \in Log : push[k] # "returned" => post[k] = "none")'
    BY <2>1, <2>4, <2>7 DEF EsInv
  <2>9. (\A n \in 1..Len(logChan) : push[logChan[n]] = "returned" /\ post[logChan[n]] = "none")'
    BY <2>1, <2>3, <2>4 DEF EsInv
  <2>10. (\A m, n \in 1..Len(logChan) : logChan[m] = logChan[n] => m = n)'
    BY <2>1 DEF EsInv
  <2>11. /\ (\A i \in 1..Len(stored) : post[stored[i]] \in {"do", "done"})'
         /\ (\A i \in 1..Len(stored) : post[stored[i]] = "do" => crashed)'
    BY <2>2, <2>4, <2>5
  <2>12. (\A i, j \in 1..Len(stored) : stored[i] = stored[j] => i = j)'
    <3> SUFFICES ASSUME NEW i \in 1..Len(stored'), NEW j \in 1..Len(stored'), stored'[i] = stored'[j]
                 PROVE  i = j
      OBVIOUS
    <3>1. CASE stored'[i] = l
      BY <2>5, <3>1
    <3>2. CASE stored'[i] # l
      <4>1. i \in 1..M /\ j \in 1..M /\ stored[i] = stored[j]
        BY <2>5, <3>2
      <4> QED
        BY <4>1 DEF EsInv
    <3> QED
      BY <3>1, <3>2
  <2> QED
    BY <2>6, <2>8, <2>9, <2>10, <2>11, <2>12 DEF EsInv
<1>7. CASE Es!Next
  BY <1>2, <1>3, <1>4, <1>5, <1>6, <1>7, Zenon DEF Es!Next
<1> QED
  BY <1>1, <1>7

(* It holds at the beginning.                                              *)
LEMMA EsBegins == Es!Init => EsInv
<1> SUFFICES ASSUME Es!Init PROVE EsInv
  OBVIOUS
<1>1. Len(logChan) = 0 /\ Len(stored) = 0 /\ logChan \in Seq(Log) /\ stored \in Seq(Log)
  BY EmptySeq DEF Es!Init
<1> QED
  BY <1>1 DEF Es!Init, EsInv, EsTypes

(* And says that a log is stored once at most.                             *)
LEMMA EsStores == EsInv => Es!StoredOnce
<1> SUFFICES ASSUME EsInv PROVE Es!StoredOnce
  OBVIOUS
<1>1. /\ DOMAIN stored = 1..Len(stored) /\ DOMAIN logChan = 1..Len(logChan)
      /\ \A i \in 1..Len(stored) : stored[i] \in Log
  BY LenProperties DEF EsInv, EsTypes
<1>2. ASSUME NEW i \in 1..Len(stored)
      PROVE  push[stored[i]] = "returned" /\ \A n \in 1..Len(logChan) : logChan[n] # stored[i]
  <2>1. post[stored[i]] # "none" /\ stored[i] \in Log
    BY <1>1 DEF EsInv
  <2> QED
    BY <2>1 DEF EsInv
<1>3. \A i, j \in 1..Len(stored) : stored[i] = stored[j] => i = j
  BY DEF EsInv
<1> QED
  BY <1>1, <1>2, <1>3 DEF Es!StoredOnce

(* A log that is pushed is stored once at most, whatever requests fail:    *)
(* PushLogs and pushLogEs of src/bbeslog/eslog.go.                         *)
THEOREM StoredOnceAtMost == Es!Spec => []Es!StoredOnce
BY EsBegins, EsStep, EsStores, PTL DEF Es!Spec

-----------------------------------------------------------------------------
(* The composition that is model-checked: a behaviour of it is one of      *)
(* every component, which takes the steps or stays as it begins.           *)

(* The composition begins as every component does.                          *)
LEMMA ComponentsBegin ==
  Init => /\ Progress!Init /\ Es!Init /\ Bbc!Init /\ Helper!Init /\ Clients!Init
          /\ Local!Init /\ Shell!Init
BY DEF Init

allVars ==
  <<which, mapVars, logVars, bbcVars, sshVars, registryVars, process, channels, pureVars>>

(* In the composition a behaviour makes a call of PureCalls or stays at the *)
(* call that is none of them.                                              *)
LEMMA CallsBegin ==
  ASSUME Init, Pure!CodingIsSound
  PROVE  AccountsInv
<1>1. CASE Pure!Init
  BY <1>1, AccountsBegin
<1>2. CASE call = [op |-> "none"]
  <2>1. ~Pure!Accounts
    BY <1>2 DEF Pure!Accounts
  <2> QED
    BY <2>1 DEF AccountsInv, Pure!AccountsRight
<1> QED
  BY <1>1, <1>2 DEF Init

(* A step of it is a step of each component, or leaves it alone.            *)
LEMMA ComponentsStep ==
  ASSUME [Next]_allVars
  PROVE  /\ [Progress!Next]_Progress!mapVars /\ [Es!Next]_Es!logVars
         /\ [Bbc!Next]_Bbc!bbcVars /\ [Helper!Next]_Helper!sshVars
         /\ [Clients!Next]_Clients!registryVars /\ [Local!Next]_Local!vars /\ [Shell!Next]_Shell!vars
<1>1. UNCHANGED mapVars => UNCHANGED Progress!mapVars
  BY DEF Progress!mapVars, Progress!shared, mapVars
<1>2. UNCHANGED bbcVars => UNCHANGED Bbc!bbcVars
  BY DEF Bbc!bbcVars, bbcVars
<1>3. UNCHANGED sshVars => UNCHANGED Helper!sshVars
  BY DEF Helper!sshVars, sshVars
<1>4. UNCHANGED registryVars => UNCHANGED Clients!registryVars
  BY DEF Clients!registryVars, registryVars
<1>5. UNCHANGED process => UNCHANGED Local!vars
  BY DEF Local!vars, Local!proc, Local!pty, Local!closers, process
<1>6. UNCHANGED channels => UNCHANGED Shell!vars
  BY DEF Shell!vars, Shell!buffer, Shell!chans, channels
<1>7. UNCHANGED logVars => UNCHANGED Es!logVars
  BY DEF Es!logVars, logVars
<1> QED
  BY <1>1, <1>2, <1>3, <1>4, <1>5, <1>6, <1>7, Zenon DEF Next, allVars

(* The slices of the progress map count what is reported to them: Progress of src/utils/safe_map. *)
THEOREM MapsCount == Spec => []CountsKept
<1>1. Init => Progress!Init
  BY ComponentsBegin
<1>2. [Next]_allVars => [Progress!Next]_Progress!mapVars
  BY ComponentsStep
<1> QED
  BY <1>1, <1>2, ReportsKept, PTL DEF Spec, allVars, Progress!Spec, CountsKept

(* No log is stored twice: PushLogs and pushLogEs of src/bbeslog/eslog.go. *)
THEOREM LogsStoredOnce == Spec => []StoredOnce
<1>1. Init => Es!Init
  BY ComponentsBegin
<1>2. [Next]_allVars => [Es!Next]_Es!logVars
  BY ComponentsStep
<1> QED
  BY <1>1, <1>2, EsBegins, EsStep, EsStores, PTL DEF Spec, allVars, StoredOnce

(* A bbc object tells answers given since CleanData, and texts go to the   *)
(* service formatted: CommonBBC of src/bbc/bbc.go.                         *)
THEOREM BbcIsSafe == Spec => []BbcSafe
<1>1. Init => Bbc!Init
  BY ComponentsBegin
<1>2. [Next]_allVars => [Bbc!Next]_Bbc!bbcVars
  BY ComponentsStep
<1> QED
  BY <1>1, <1>2, ToldAnswers, TextsStayWhole, PTL DEF Spec, allVars, Bbc!Spec, BbcSafe

(* SetConnect makes one connection: CommonSSH of src/ssh/ssh.go. *)
THEOREM HelperRetries == Spec => []RetriesKeepOne
<1>1. Init => Helper!Init
  BY ComponentsBegin
<1>2. [Next]_allVars => [Helper!Next]_Helper!sshVars
  BY ComponentsStep
<1> QED
  BY <1>1, <1>2, OneConnectionEach, PTL DEF Spec, allVars, Helper!Spec, RetriesKeepOne

(* Only a registered ssh session is shared, by callers that asked for its  *)
(* key: AllClients of src/bbtty/ssh_client.go, NewLogicSshWsSession of     *)
(* src/bbtty/ssh_session.go.                                               *)
THEOREM SharedSessions == Spec => []SharedAreRegistered
<1>1. Init => Clients!Init
  BY ComponentsBegin
<1>2. [Next]_allVars => [Clients!Next]_Clients!registryVars
  BY ComponentsStep
<1> QED
  BY <1>1, <1>2, SharedByKey, PTL DEF Spec, allVars, Clients!Spec, SharedAreRegistered

(* A Close that has returned has left no program: LocalCommand of src/bbtty/local_command.go. *)
THEOREM ProcessReturns == Spec => []ReturnsWhenGone
<1>1. Init => Local!Init
  BY ComponentsBegin
<1>2. [Next]_allVars => [Local!Next]_Local!vars
  BY ComponentsStep
<1> QED
  BY <1>1, <1>2, ClosesWhenGone, PTL DEF Spec, allVars, Local!Spec, ReturnsWhenGone

(* The output of shells comes in order: src/bbtty/shell and src/bbtty/ws_ssh. *)
THEOREM ShellOrders == Spec => []OutputInOrder
<1>1. Init => Shell!Init
  BY ComponentsBegin
<1>2. [Next]_allVars => [Shell!Next]_Shell!vars
  BY ComponentsStep
<1> QED
  BY <1>1, <1>2, ShellOutputInOrder, PTL DEF Spec, allVars, Shell!Spec, OutputInOrder

(* And so for the calls of PureCalls.                                       *)
LEMMA CallsStep ==
  ASSUME [Next]_allVars
  PROVE  [Pure!Next]_Pure!pureVars
<1>1. UNCHANGED pureVars => UNCHANGED Pure!pureVars
  BY DEF Pure!pureVars, pureVars
<1> QED
  BY <1>1, Zenon DEF Next, allVars

(* Accounts are answered right: src/bbc/bbc.go, src/bbc/jdbc_url.go and     *)
(* src/utils/encryption/encryption.go.                                     *)
THEOREM AccountsAreRight == Spec => []AccountsRight
<1>1. Pure!CodingIsSound
  BY CodingAssumption
<1>2. Init => AccountsInv
  BY <1>1, CallsBegin
<1>3. AccountsInv /\ [Next]_allVars => AccountsInv'
  BY <1>1, AccountsStep, CallsStep
<1>4. AccountsInv => AccountsRight
  BY DEF AccountsInv, AccountsRight
<1> QED
  BY <1>2, <1>3, <1>4, PTL DEF Spec, allVars

(* In the composition too.                                                *)
LEMMA ListCallsBegin == Init => ListsInv
<1>1. CASE Pure!Init
  BY <1>1, ListsBegin
<1>2. CASE call = [op |-> "none"]
  <2>1. ~Pure!Lists
    BY <1>2 DEF Pure!Lists
  <2> QED
    BY <2>1 DEF ListsInv, Pure!ListsRight
<1> QED
  BY <1>1, <1>2 DEF Init

(* The helpers on lists are right: src/utils/utils.go.                     *)
THEOREM ListsAreRight == Spec => []ListsRight
<1>1. Init => ListsInv
  BY ListCallsBegin
<1>2. ListsInv /\ [Next]_allVars => ListsInv'
  BY FloatAssumption, ListsStep, CallsStep
<1>3. ListsInv => ListsRight
  BY DEF ListsInv, ListsRight
<1> QED
  BY <1>1, <1>2, <1>3, PTL DEF Spec, allVars

(* In the composition too.                                                  *)
LEMMA ConversionCallsBegin == Init => ConversionsInv
<1>1. CASE Pure!Init
  BY <1>1, ConversionsBegin
<1>2. CASE call = [op |-> "none"]
  <2>1. ~Pure!Conversions
    BY <1>2 DEF Pure!Conversions
  <2> QED
    BY <2>1 DEF ConversionsInv, Pure!ConversionsRight
<1> QED
  BY <1>1, <1>2 DEF Init

(* Conversions are right: src/utils/utils.go, src/utils/format/format.go,  *)
(* src/bbtty/guac/status.go and src/bbGoogleAuth/auth.go.                  *)
THEOREM ConversionsAreRight == Spec => []ConversionsRight
<1>1. Octet \in Nat \ {0}
  BY OctetAssumption
<1>2. Init => ConversionsInv
  BY ConversionCallsBegin
<1>3. ConversionsInv /\ [Next]_allVars => ConversionsInv'
  BY <1>1, ConversionsStep, CallsStep
<1>4. ConversionsInv => ConversionsRight
  BY DEF ConversionsInv, ConversionsRight
<1> QED
  BY <1>2, <1>3, <1>4, PTL DEF Spec, allVars
=============================================================================
