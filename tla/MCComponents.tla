---------------------------- MODULE MCComponents ----------------------------
(* Model checking of the components that stand alone: ProgressMap, EsLog,  *)
(* BbcSession, SshHelper, SshClients, LocalProcess, ChannelShell and the   *)
(* functions of PureCalls do not interact, so that a behaviour has one of  *)
(* them and the others stay as they begin.                                 *)
EXTENDS Integers, Sequences

CONSTANTS Worker, MaxCells, MaxCount, Log, LogCap, BbcCalls, SshCalls, Caller, Key, MaxMade,
          Closer, Timeouts, Portions, Octet, Mantissa, Scales,
          BlockSize, HexDigit, HexValue, EncryptBlock, DecryptBlock

VARIABLES
  which,
  entry, cells, added, mux, worker,
  logChan, push, post, stored, crashed,
  bbc, calls, cleaned, told, text,
  client, session, used, made, openConns, connects, at, tries, result, answer,
  sessions, recyclers, opened, caller,
  program, killed, ptyOpen, ptyClosed, waits, closer, timer, closeTimeout,
  kind, shell, produced, array, len, isClose, in, out, waiter, message, got, failure, late,
  call, returned

mapVars == <<entry, cells, added, mux, worker>>
logVars == <<logChan, push, post, stored, crashed>>
bbcVars == <<bbc, calls, cleaned, told, text>>
sshVars == <<client, session, used, made, openConns, connects, at, tries, result, answer>>
registryVars == <<sessions, recyclers, opened, caller>>
process == <<program, killed, ptyOpen, ptyClosed, waits, closer, timer, closeTimeout>>
channels ==
  <<kind, shell, produced, array, len, isClose, in, out, waiter, message, got, failure, late>>
pureVars == <<call, returned>>

Progress == INSTANCE ProgressMap
Es == INSTANCE EsLog
Bbc == INSTANCE BbcSession WITH MaxCalls <- BbcCalls
Helper == INSTANCE SshHelper WITH MaxCalls <- SshCalls, calls <- connects
Clients == INSTANCE SshClients
Local == INSTANCE LocalProcess
Shell == INSTANCE ChannelShell WITH told <- failure
Pure == INSTANCE PureCalls

ASSUME CodingAssumption == Pure!CodingIsSound
ASSUME OctetAssumption == Octet \in Nat \ {0}
ASSUME FloatAssumption == Pure!L!FloatIsSound

Init ==
  /\ which \in {"progress", "log", "bbc", "helper", "clients", "process", "shell", "pure"}
  /\ Progress!Init /\ Es!Init /\ Bbc!Init /\ Helper!Init /\ Clients!Init
  /\ Local!Init /\ Shell!Init
  /\ which # "bbc" =>
       bbc.Type = "db2" /\ bbc.Class = "dql" /\ bbc.SQL.block = "none" /\ bbc.SQL.update
  /\ which # "process" => closeTimeout = 0
  /\ which # "shell" => kind = "pty"
  /\ IF which = "pure" THEN Pure!Init ELSE call = [op |-> "none"] /\ returned = <<>>

Next ==
  \/ /\ which = "progress" /\ Progress!Next
     /\ UNCHANGED <<which, logVars, bbcVars, sshVars, registryVars, process, channels, pureVars>>
  \/ /\ which = "log" /\ Es!Next
     /\ UNCHANGED <<which, mapVars, bbcVars, sshVars, registryVars, process, channels, pureVars>>
  \/ /\ which = "bbc" /\ Bbc!Next
     /\ UNCHANGED <<which, mapVars, logVars, sshVars, registryVars, process, channels, pureVars>>
  \/ /\ which = "helper" /\ Helper!Next
     /\ UNCHANGED <<which, mapVars, logVars, bbcVars, registryVars, process, channels, pureVars>>
  \/ /\ which = "clients" /\ Clients!Next
     /\ UNCHANGED <<which, mapVars, logVars, bbcVars, sshVars, process, channels, pureVars>>
  \/ /\ which = "process" /\ Local!Next
     /\ UNCHANGED <<which, mapVars, logVars, bbcVars, sshVars, registryVars, channels, pureVars>>
  \/ /\ which = "shell" /\ Shell!Next
     /\ UNCHANGED <<which, mapVars, logVars, bbcVars, sshVars, registryVars, process, pureVars>>
  \/ /\ which = "pure" /\ Pure!Next
     /\ UNCHANGED <<which, mapVars, logVars, bbcVars, sshVars, registryVars, process, channels>>

(* Nothing that has to happen is enabled in the initial state of one that  *)
(* stays in it.                                                            *)
Spec ==
  /\ Init
  /\ [][Next]_<<which, mapVars, logVars, bbcVars, sshVars, registryVars, process, channels,
                pureVars>>
  /\ Es!Fairness /\ Local!Fairness /\ Shell!Fairness

-----------------------------------------------------------------------------
(* The properties of the modules; each is about its own behaviours.        *)

(* No report of progress is lost.                                          *)
CountsKept == Progress!CountsKept

(* What a bbc call tells was answered since CleanData, and no text goes to *)
(* the service half formatted, or formatted twice.                         *)
BbcSafe == Bbc!ToldSinceClean /\ Bbc!TextsAreWhole

(* SetConnect makes one connection, and its session belongs to it.         *)
RetriesKeepOne == Helper!RetriesKeepOne

(* Only a registered ssh session is shared.                                *)
SharedAreRegistered == Clients!SharedAreRegistered

(* A log is stored once at most.                                           *)
StoredOnce == Es!StoredOnce

(* No log waits for the requests of others.                                *)
LogsTakenUp == Es!LogsTakenUp

(* A Close returns only when the program is gone.                          *)
ReturnsWhenGone == Local!ReturnsWhenGone

(* A Close with a timeout returns.                                         *)
CloseReturns == Local!CloseReturns

(* The consumer gets output in order, from a pty all of it.                *)
OutputInOrder == Shell!OutputInOrder

(* The failure of a shell is reported, and its goroutines end.             *)
ShellTells == Shell!FailureTold /\ Shell!GoroutinesEnd

(* The helpers for lists give what they are to give; the intersection of   *)
(* three lists or more may have too much, see Right of Lists.              *)
ListsRight == Pure!ListsRight

(* Marks of a text are replaced once, in whatever order.                   *)
FormatRight == Pure!FormatRight

(* Addresses, emoji, codings, statuses and one-time codes come back.       *)
ConversionsRight == Pure!ConversionsRight

(* Stored passwords come back, and the two ways to make a URL agree.       *)
AccountsRight == Pure!AccountsRight

MCTimeouts == {-1, 0, 2}

(* Bytes 0..3, two of them digits; some permutation of the blocks.         *)
MCHexDigit == <<1, 2>>
MCHexValue == [b \in {1, 2} |-> b - 1]
MCBlock == [1..2 -> 0..3]
MCEncryptBlock == [b \in MCBlock |-> <<(b[2] + 1) % 4, (b[1] + b[2]) % 4>>]
MCDecryptBlock == [b \in MCBlock |-> LET y == (b[1] + 3) % 4 IN <<(b[2] + 4 - y) % 4, y>>]
=============================================================================
