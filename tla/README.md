# Formal models of bbm-lib

TLA+ models of `bbm-lib`, a Go library: browser terminals over websockets and
their ssh sessions (`src/bbtty`), the Guacamole tunnel (`src/bbtty/guac`),
service registration and discovery over etcd (`src/bbetcd`), and the clients and
helpers around them (`src/bbc`, `src/bbeslog`, `src/ssh`, `src/utils`). TLC checks the
models on small instances; TLAPS proves the theorems of the modules named
`...Proofs` for every value of the constants.
`PROJECT.json` lists the runs, which lines each definition models, the hazards
with the properties that cover them, the mutants that show each property can
fail, and the theorems.

## 1. The system

| component | code | state | operations |
|---|---|---|---|
| slave registry | `bbtty/local_command.go` (`AllSlaves`, `NewLocalCommand`) | three maps by unique key: slave, last activity, close callback; one mutex | `GetSlave`, `AddSlave`, `UpdateLastActiveTime`, `DelSlave`, a goroutine `AutoRecycle` per registration |
| slave process | `bbtty/local_command.go` (`LocalCommand`) | child process, pseudo terminal, `ptyClosed` | `Read`, `Write`, `Close`, `ResizeTerminal`, a goroutine that waits for the child |
| WebTTY registry | `bbtty/webtty.go` (`AllWebTTY`, `NewWebTTY`) | two maps by unique key; one mutex, in which the slave registry's is nested | `getWebTTY`, `addWebTTY`, `DelWebTTY`, `UpdateLastActiveTime`, `AutoRecycle` |
| WebTTY bridge | `bbtty/webtty.go` (`Run`) | the current connection, the gate (`StartFlag`), the channel `errs` of each `Run` | two goroutines per `Run`: slave to master, master to slave |
| guac stream | `bbtty/guac/stream_conn.go`, `guac_instruction.go` | a window on an array, `parseStart` | `ReadSome`, `Flush`, `Close`, `ReadOne`, `Parse`, `String` |
| guac handshake | `stream_conn.go`, `guac.go`, `config.go` | a position in the protocol | `AssertOpcode`, `Handshake` |
| tunnel locks | `counted_lock.go`, `tunnel_pipe.go` | a counter beside a mutex | `Lock`, `Unlock`, `HasQueued` |
| ssh session | `bbtty/ssh_session.go`, `safe_buffer.go`, `ws.go` | `comboOutput`, `logBuff`, the caller's `quitChan` | `Start`, `Wait`, `Close`, two goroutines per `Start`, the filter of commands |
| ssh client registry | `bbtty/ssh_client.go` | maps of clients and sessions with their times | `AddClient`, `GetClient`, recyclers |
| ws_ssh, shell | `bbtty/ws_ssh`, `bbtty/shell` | channels, `isClose` | three goroutines each, `Close` |
| etcd registration | `bbetcd/registry/registry.go` | lease, key, channel of renewals | `Register`, `ListenLeaseRespChan`, `Revoke` |
| etcd discovery | `bbetcd/discovery/discovery.go` | `serverList` | Get, Watch, `setServiceList`, `deleteServiceList`, `GetServer` |
| safe map | `utils/safe_map` | a map of progress counters | some methods locked, some not |
| elastic log | `bbeslog` | a bounded channel of log entries | `PushLogs`, a goroutine per log that posts it |
| bbc session | `bbc` | request, `Response`, `Error` | calls of the service, formatting of texts, URLs and accounts |
| ssh helper | `ssh` | a connection and its session | `SetConnect` with retries, commands, `Close` |
| pure helpers | `utils/*`, `bbGoogleAuth` | none | array operations, padding, encodings, TOTP |

How they interact: the goroutine of a browser's connection calls
`NewLocalCommand` and then `NewWebTTY` under the same unique key, and `Run` on
the result. `Run`'s goroutines call `AllWebTTY.DelWebTTY` (when a root prompt
is shown) and `UpdateLastActiveTime`. The recyclers of the WebTTY registry and
`DelWebTTY` call `AllSlaves.DelSlave` with the WebTTY registry's mutex held.
A `SimpleTunnel` lends its `Stream` to one reader and one writer at a time,
through two counted locks, once `NewGuacamoleTunnel` has shaken hands over that
`Stream`. A constructor of ssh sessions looks in the ssh client registry and hands
out a session that is there already, on which `Start` is called again.
Registration and discovery interact through etcd only. The other components
stand alone.

What is hard here: a recycler goroutine outlives its registration and meets the
next one of the same key; look-up and registration are two critical sections;
`DelWebTTY` decides before it locks; a new browser replaces a connection under
running goroutines; reads time out in the middle of an instruction while the
array wraps; websockets are written without a lock, so that messages tear each
other; the buffer of an ssh session is copied and reset in two steps; Get
and Watch of etcd are two calls; processes crash and leases run out between
any two calls. What makes each part correct:

- a registry drops what is unused, in bounded time, and never what is in use;
  its maps describe the same entries; callbacks run at most once; what is shared is
  what is registered;
- a bridge shows each line of output at most once, in order, and not before the
  gate opens; its goroutines end;
- a stream returns the peer's instructions whole, in order, none lost;
- the tunnel's locks exclude, count exactly and pass nobody over;
- a handshake ends, and leaves both ends in agreement and the stream at the next
  instruction;
- a session sends what its shell writes, asks before a line that it has seen to hold a
  forbidden word, and its goroutines end together;
- a program that is closed is gone when `Close` returns; the goroutines of a shell end;
- no report of progress is lost; a log waits for no other log and is stored once at most;
- a client tells no answer that is older than the last clean-up, and hands no
  text to the service half formatted;
- a helper returns what its name, its comment or its inverse says;
- a service's key lives no longer than its lease, and clients follow the store.

## 2. The modules

| module | models | run from |
|---|---|---|
| `KeepAliveMap` | abstract: what a keep-alive registry promises its users | as a property |
| `SlaveRegistry` | slave registry; implements `KeepAliveMap` | `MCSlaveRegistry` |
| `SlaveRegistryProofs` | theorems about it | |
| `TtyRegistry` | WebTTY registry, composed with `SlaveRegistry` (`Slaves == INSTANCE`) | `MCTtyRegistry` |
| `TtyRegistryProofs` | theorems about it | |
| `WebTTYBridge` | `Run` and its goroutines | `MCWebTTYBridge` |
| `WebTTYBridgeProofs` | theorems about it | |
| `GuacProtocol` | instructions on the wire, `String` and `Parse` (operators only) | through `GuacStream` |
| `InstructionStream` | abstract: what a stream promises its reader | as a property |
| `GuacStream` | the buffer of a `Stream`; implements `InstructionStream` | `MCGuacStream` |
| `GuacStreamProofs` | theorems about it and `GuacProtocol` | |
| `CountedLock` | the locks of a tunnel | through `Tunnel` |
| `Tunnel` | the handshake with guacd, and the tunnel's readers under a `CountedLock`, which it extends | `MCTunnel` |
| `TunnelProofs` | theorems about both | |
| `SshSession` | the runs of an ssh session and the filter of commands | `MCSshSession` |
| `SshSessionProofs` | theorems about it | |
| `EtcdServices` | registration and discovery over an external etcd | `MCEtcdServices` |
| `EtcdServicesProofs` | theorems about it | |
| `LocalProcess` | closing the slave's program | `MCComponents` |
| `ChannelShell` | ws_ssh and shell | `MCComponents` |
| `SshClients` | ssh client registry and its constructors | `MCComponents` |
| `SshHelper` | ssh helper | `MCComponents` |
| `ProgressMap` | safe map | `MCComponents` |
| `EsLog` | elastic log | `MCComponents` |
| `BbcSession` | bbc session | `MCComponents` |
| `Lists`, `Conversions`, `DbAccounts` | pure functions and the reference definitions they are checked against | through `PureCalls` |
| `PureCalls` | one call of a pure function on some input | `MCComponents` |
| `ComponentProofs` | theorems about the components above, from `LocalProcess` | |

`MCComponents` has the components that do not interact: the variable `which`
picks one of them for a behaviour, and the others stay as they begin.
The other `MC` modules give the constants and bounds that a `.cfg` cannot express.

Operators named `Bug...` are mutated forms of the definition that follows them.
They are used by no specification; `PROJECT.json` says which property each breaks.

### State and actions

A code section under one mutex is one action, everything between two sections
is interleaved with the other goroutines.

**Time** (both registries). `lastActiveTime[k]` is kept as the seconds since
(`idle`, `ttyIdle`), a sleeping goroutine as the seconds left to sleep. `Tick`
lets a second pass for all. A goroutine whose sleep is over runs within `Slack`
seconds: `Tick` waits for one that is later. Within a second a look and a touch
come in either order. A keepAlive of 0 is a goroutine
that does not sleep between looks.

**SlaveRegistry.** `GetSlave(c, k)` and `StartAndAdd(c)` are the two critical
sections of `NewLocalCommand`; in between the caller's `call` is at "start".
`StartFails` is the error return of `pty.Start`. `AddSlave` of a key that has
been taken in between leaves the entry alone and still returns the new,
unregistered slave. `AutoRecycle(r)` is one look of a goroutine: it returns if
the key is gone (`RecyclerExits`), drops an idle slave after its callback
(`RecyclerDrops`), or sleeps for another interval (`RecyclerWaits`). `DelSlave` removes an entry without
running the callback, as the code does. The close callback, which the code runs
with the mutex held, is external and taken to return.

**TtyRegistry.** A caller that has its slave looks the key up (`Reattach`,
`Miss`), makes a WebTTY and registers it if the key is still free
(`MakeWebTTY`), and goes away (`Detach`). `DelWebTTY` is three steps: the
unlocked look at the map, the maps (`DelMaps`), the slave (`DelSlave`).
`AutoRecycle` is two: the maps, the slave. `Locked` is AllWebTTY.mu held between
the last two; the slave registry goes on meanwhile. Every step of
`SlaveRegistry` is a step here or part of one (`DelSlave` of the two deletions,
`Release` of `Detach`).

**WebTTYBridge.** `out[i]` and `in[i]` are the goroutines of the `i`-th `Run`:
their place in the code and what they carry. A portion of output is one call of
`Slave.Read`, a sequence of lines (`strings.Split`), and of a line the model knows whether it begins with
`StartFlag` or "ORA-" and whether it has "root@". `Gate` is the loop over the lines
while nothing is shown: the first marked line decides, and of its portion only the last line or only the line with "ORA-"
is passed on, the others are kept back for good (`withheld`). `masterWrite` replaces text with
"root@" as a whole (`Message`). `errs[i]` is the channel with its capacity.
A write to a websocket is two steps, `BeginWrite`, which looks `wt.MasterConn` up, and
`EndWrite`, for output, pongs and the messages that begin a `Run` alike; nothing keeps
two of them apart. Writes that overlap (`met`) may each arrive, be reported written and not arrive
(`torn`), or fail, and gorilla's library may stop the program (`ConcurrentWrite`, `panicked`).
A message to a closed connection may be reported written too: `WsWrapper.Write` drops
the error of `writer.Close`, which sends the text. Two goroutines that read one connection spoil it for
each other (`ReadsMeet`). A goroutine that reads loads `wt.MasterConn` first, so that a browser that
attaches in between (`Attach`) leaves it with the earlier one.

**GuacStream.** One step per turn of `ReadSome`'s loop. The array is explicit,
`start`, `length` and `parseStart` are the code's slice, and the invariant
`WindowIsUnread` compares the window with what was sent. `Receive(n)` delivers
any number of bytes, `ReadFails` is a timeout or an error at any read.
`last` holds the bytes that `ReadOne` hands to `Parse`; `Parse`
(`GuacProtocol`) is the loop of the code, `elementStart` its variable turn by turn.
What `ReadSome` returns is a slice of the array and is overwritten by later reads. The model takes it as a copy,
which is right of `ReadOne`, as that makes strings of it before anything else is read, and not
of a caller that keeps the slice.
The digits are a constant. TLC runs with two, so that a length of two digits goes
with a value of two bytes; the code has ten, and the proofs are about any.

**CountedLock.** `Lock`: the counter, then the mutex (`LockCore`); `Unlock`: the
counter, then the mutex (`UnlockCore`); `HasQueued` reads the counter.

**Tunnel.** `Dial` is the resolution of guacd's address and the connection, either of which
may fail. `hs` is then the instruction that `Handshake` sends (`Send`) or waits for
next (`ReceiveArgs`, `ReceiveReady`, `ReceiveOther`); each of them may fail at its
deadline. The stream is taken as what `GuacStream` implements: whole instructions
in order. guacd is outside; it may refuse, stop or hang up at every point.
A reader acquires the lock, reads one instruction in two steps (`Begin`, `End`) or
gives up at the deadline (`GiveUp`), and releases. `SimpleTunnel`'s second lock,
for writers, is the same code.

**SshSession.** Run `r` is the `r`-th call of `Start` with a websocket and a `quitChan`:
`sender[r]` and `receiver[r]` are its goroutines, `wait[r]` its call of `Wait`.
`GetLogicSshWsSession` replaces the websocket of a session that is reused,
under the goroutines of earlier runs; a receiver keeps the websocket it has begun to read.
One step per call of `sendComboOutput` on the buffer, the
websocket and the log, with `Produce` (the shell's output) between any two of
them. `Reset` takes no lock: `ResetRaces` is the outcome in which it meets a
`Write` and the buffer keeps what it had. A message is a command of any bytes, a
confirmation (`Confirms`) or something else (`Resizes`). A byte is a return, an interrupt or any other; a
command may be one typed key or pasted text with returns in it. `Handles` adds
the command to `filter` (`inputFilterBuff`) and does with it what the code does: only a command that
is an interrupt and nothing else resets it (`ssh_session.go:138`), and only the last byte of a command
ends a line (`:141`). `line` is the shell's line, as the terminal on the other side makes it of what it is handed (`After`),
and `refused` is what is left in it of a line whose return was held back. A word is a sequence of bytes
somewhere in the line (`Mentions`). Keys that edit a line (backspace, arrows) are
not told from others, so that `line` is what was typed. A use of a nil buffer after
`Close`, an empty command and two concurrent writes stop the program
(`panicked`). `quit` counts the tokens in the callers' channels.

**EtcdServices.** etcd is a log of events with a revision, leases and the keys
attached to them. `Register` is three calls (`Grant`, `Put`, `KeepAlive`), `Put` and `KeepAlive`
may return an error without an effect (`CallFails`), and `Put` also one after the key has been
set, when only the answer is lost; `Crash` ends a process between any two. A client puts
the keys it has read into its list one by one, then watches: `pos` is the
revision up to which it has applied events. A watch that ends leaves the list as it is.

**LocalProcess.** `Close` is three steps: the pty, the signal, and the loop that
selects between `ptyClosed` and the timer (`Return`, `TimeOut`), whose timer
starts anew each time round. `WaitReturns` and `CloseChan` are the goroutine that waits
for the program. The program may ignore signals, not SIGKILL.

**ChannelShell.** `in`, `out` and `waiter` are the three goroutines. For a pty,
`ReadPty` takes any part of the output. For ssh, `TakeBytes` is a message that
aliases the buffer's `array`; `Reset` sets only `len` back, and `Append1` writes
in place or to a larger array, so that a message may change under its receiver (`late`).

**SshClients.** Each section under the registry's mutex is one step, and what
is made between two of them is not in the registry yet. `keepAliveTime` is a
nil map: registering a client panics, a recycler finds nothing and ends, so that a
session once registered stays. A caller that finds another session registered under its key keeps its
own, unregistered.

**SshHelper.** `SetConnect`'s two loops are the steps of `at` ("dial", "session")
with `tries`; connections are numbered, and `openConns` are those that nobody
has closed.

**ProgressMap.** The map refers to slices (`cells`). An add under the mutex is
load, read, write and store; `Reset`, `Store` and `Delete`, which take no lock, come between any two.

**EsLog.** `push[l]` and `post[l]` are the places of `PushLogs` and of the goroutine
of log `l`. A request may never return; `crashed` is the nil response or the nil map.
`stored` is what Elasticsearch has: a request that fails may be among it.

**BbcSession.** Calls are numbered, `Response` and `Error` hold the numbers of the
calls they have content of, and a text is a record of what formatting has done
to it. An answer sets any part of what it may set, because JSON leaves the
fields that an answer does not name.

**Lists, Conversions, DbAccounts.** `Results(call)` is the set of results of a call,
a set because Go iterates over maps in any order, with "panic" where an index is out of range;
`Right(call, r)` is the reference: a definition of its own, an inverse, or the
other function that must agree. A loop that appends is the set of its turns that
do, taken in order (`Ascending`); a loop over bytes is a walk that stops where a
character is not recognised (`Stops`); the counts of `tmp` are the numbers of
occurrences. None of it recurs through an operator, so that it can be proved about.
`StringsFormat` replaces in the text as it stands, character by character, for every order in which
the map may be walked; a value may make a mark with the braces around it. `GetPages` divides in
floating point: a number is rounded to the nearest one with a `Mantissa` (`Float`), and so is the
quotient before its ceiling is taken (`CeilOfQuotient`); `Scales` are the powers of two there are.
A type of database is a name in some spelling: `lower` says whether it is in small letters, `ToLower` forgets it, as
`getQueryURL` and `getJDBCUrl` do (`bbc.go:126`, `jdbc_url.go:33`), and the switches that do
not (`bbc.go:46`) compare it. A one-time code (`oneTimePassword`) is the number of its
interval: two intervals are taken to have different codes, which six digits of an HMAC have only almost always.
The cipher is external (`EncryptBlock`, `DecryptBlock`); the size of its
blocks and the hexadecimal digits with their values are constants. `Octet`, 256 in the code,
is what an address has of values in each place.

## 3. The runs

| run | instance | shows | kind |
|---|---|---|---|
| `slaves` | 2 keys, 2 callers, 2 slaves, 2 recyclers, keepAlive 0 or 2, Slack 1 | slaves are dropped in time and closed at most once and only when idle; the maps stay in step; refinement; recyclers of free keys return | safety, liveness |
| `ttys` | 2 keys, 2 callers, 1 reader, 2 of each object, keepAlive 1 | isolation of the nested deletion; `SlaveRegistry` and `KeepAliveMap` are implemented | safety |
| `ttys_live` | 1 key, 1 caller, keepAlive 2 for WebTTYs | unused WebTTYs are dropped in time, the lock is always released | safety, liveness |
| `bridge` | 1 browser, outputs of up to 3 portions of up to 3 lines, 1 message; or 2 browsers, 2 portions | each line in one place, once, however writes overlap; for a lone browser in order and behind the gate; root prompts delete; goroutines end, and the `Run` of a lone browser's closed connection returns | safety, liveness |
| `bridge_returns` | 2 browsers, 1 portion | the `Run` of a closed connection goes on | violation |
| `guac` | 5 peers, array of 12, messages up to 8 bytes | the window holds the unread bytes, room to read, instructions in order, and all of them if reads are repeated | safety, liveness |
| `guac_chars` | the same | lengths in characters are refused, though the documentation asks for them | violation |
| `tunnel` | 3 readers, 3 instructions, 3 sets of names asked for | both ends agree after a handshake, which ends; nothing behind `ready` is lost; exclusion, exact counter, `HasQueued` never a false alarm, nobody passed over | safety, liveness |
| `ssh` | 1 run with 3 messages, or a question and output, or 3 portions and Close, or 2 runs | browser and log get new output in order, the log what the browser got; the filter's copy is the shell's line, and no line that is checked has a forbidden word; all goroutines end when the websockets fail | safety, liveness |
| `ssh_loss` | 1 run, 2 portions | output between copy and reset is never sent | violation |
| `etcd` | 1 service, 3 registrations | keys live no longer than their lease, the list follows the watch, crashed instances go away | safety, liveness |
| `components` | see below | what each component that stands alone promises | safety, liveness |

**Bounds and why they are enough.** Every bound is a constant, given by the
`.cfg`. Registries: two keys show that keys do not interfere, two callers the
race of look-up and registration, and as many slaves and recyclers as a key
needs to be registered, dropped and registered again while the first goroutine
is still around. A keepAlive of 2 is the shortest with a second between two
looks in which a touch may fall, and 0 is the goroutine that never sleeps; two slaves make
two registrations, so that two recyclers are all that can be about: of two keys, or of one
key's earlier registration beside the current one. `SlaveRegistry`'s safety is proved for any number. Bridge: the portions are the gate
closed, opening and passing, with lines before, at and after the one that decides, in one portion and in several; one message
from the browser is a pong that meets output; two browsers are one replacement of the
connection, in behaviours with short output that is shown from the start, no
input, and a second `Run` that is not canceled (`MCWebTTYBridge`; what is proved has no such bounds);
`errs` has its real capacity of two. Stream: the array is one and a
half messages (three in the code), so that windows wrap within four
instructions; one peer sends an instruction that does not fit the array, one counts characters; the values contain every separator, a digit, the empty value and
a character of two bytes. Tunnel: one name that guacd asks for has no value,
one has an empty one between two others; three readers are one with the lock, one
that waits and one that may pass it. Session: `MCSshSession` has four instances, between which the bounds are divided
(`focus`): "typing" is one run whose three messages are any commands of up to two bytes and a pasted forbidden word with a
return and what may follow it, "asking" the question meeting output, "output" three portions, Close and one key, "two" one
reuse. `quitChan` holds three tokens; the goroutines end together only if the caller
gives it room for all that a run puts into it. In an etcd run three registrations let an old lease run
out after the key has been put under a new one, and a third one follow.

In `components`: two workers and two slices, with counters up to 2, are an add
under way while the map's slice is replaced; three logs in a channel of one are
one posted, one queued and one that waits; two calls of a bbc object and three
of `SetConnect` are an answer and a connection that outlive the next one; three callers, two keys and
two sessions are two callers that race to register and one that finds a session; three closers with timeouts never, at
once and later; four portions are one taken, one written over it in place, and
two in a larger array. Octets have 2 bits instead of 8, passwords up to 4
bytes of 2 bits and blocks of 2 bytes, and most lists two or three elements: the
definitions work on them one by one, and every boundary (empty, last, one
past a block, one over a page) occurs. Duplicates are removed from up to five elements, so that
one can come back behind two others; a text whose coding is asked for is up to four
characters of one to four bytes, or cut off; a text to format has up to three
marks, braces or letters, and what is put in may be a mark again or make one. A float has a mantissa
of 3 bits instead of 53: pages are counted of up to 40 items, most of which such a float does not represent.
The functions are proved for all sizes, but for `StringsFormat` (section 5).

**Deadlock** is checked for the registries and the streams. The bridge, the
tunnel, the ssh session, etcd and the components do stop: browsers, guacd, shells,
programs and instances go away for good, and their number is bounded.

**Symmetry** is used in `ttys`, which checks no liveness.

## 4. Fairness

- `Tick` and each `AutoRecycle` are weakly fair: Go's scheduler runs runnable
  goroutines and sleeps end. A recycler of the WebTTY registry and
  `DelWebTTY` wait for a mutex that others take again and again; they are
  strongly fair, because a `sync.Mutex` hands itself to a goroutine that has
  waited for a millisecond. `LockCore` of the counted lock is strongly fair for the same reason.
- Bridge: the goroutines of `Run` go on when they can, and a write ends, unless the library has stopped the program. Slaves and browsers need
  not produce, close or reconnect. A blocked read returns when its end is closed.
- Stream: the reader calls again after a timeout, and bytes arrive before the
  deadline now and then (strong fairness of `Receive`): without that every read
  may time out and nothing could be promised.
- Tunnel: every read and write of the handshake has a deadline, and so has the
  read of a goroutine that holds the lock, which then releases it. guacd need do nothing.
- Session: the caller starts what it asked for and its goroutines run. Go's
  `select` chooses at random among what is ready, so a goroutine
  that again and again finds both a tick and a token takes the token at some time (strong
  fairness of `SenderQuits`). Shell and browsers need do nothing.
- Program: time passes, the goroutines run, and a program that is killed ends.
- Shells behind channels: the goroutines run; the caller takes what is sent, is
  told of the end, and sends something now and then, without which a goroutine
  that blocks on the receive channel never looks at `isClose`.
- Logs: the goroutines run and a dial ends; a request need not. A caller that waits at a
  channel others fill gets its turn (strong fairness of `Send`: a Go channel queues its senders).
- etcd: calls of a running process are answered, events arrive, and a lease that
  nobody renews ends. Nothing makes an instance start or a running one lose its lease.

Beyond that, callers, browsers and instances are never assumed to do anything.

## 5. What is proved

`SlaveRegistryProofs`, from the assumptions that keepAlive values and `Slack`
are natural numbers and `None` is no key and no slave; any sets of keys,
callers, slaves and goroutines:

- `RegistryIsSafe`: the invariant of run `slaves`, `Safe`, whose parts are the
  lemmas' `MapsAgree`, `IdleBound` and `ClosedOnce` beside the types;
- `CloseOnlyIdle`: the action property of that run;
- `RegistryImplements`: `Spec => Abstract!Spec`, every step of the registry is
  one of `KeepAliveMap` or changes nothing its users see.

The argument is the inductive invariant `Inv`. `IdleBound` is not inductive: it
does not say why the next `Tick` cannot break it. `Covered` does: for every
registered key there is some goroutine, perhaps of an earlier registration, that
comes back before the window ends (`idle[k] + left <= Window`), and `Punctual`
says that it is at most `Slack` seconds late. A touch makes `idle` smaller and
keeps `Covered`; a look that finds the key not yet idle (`idle[k] < K`) sleeps for `K`
and gives `idle[k] + K <= 2K - 1`, which is `Window(K)`; a new registration starts a goroutine of
its own; a `Tick` raises `idle` and lowers `left` by the same second. `OneKey` and `ClosedOnce` say that a
slave is under one key at most and a closed one under none, from which no
callback can run twice. `MapsAgree` connects the maps. One lemma per action
carries `Inv` over a step; the refinement uses `Covered` and `Punctual` for the
bound in the abstract `Tick`.

`GuacStreamProofs`, for any digits, at least two of them, any sizes with `0 < MaxGuacMessage
<= Capacity`, and any peers, those included that count characters.
`StreamIsSafe` is `Safe`, the invariant of run `guac`, and `StreamInOrder` its refinement of
`InstructionStream`. Where an instruction ends is computed from the digits in front
of each element, by recursion along the data, so that the proof is in three parts:

- induction. The theorems of the library that give it cannot be used here, because
  their argument is an operator. `Induction` states it of a set of numbers, and follows from the
  pigeonhole principle: if a successor-closed set with 0 missed `n`, then `i |-> i + 1` would be an injection
  of what it has below `n` into the same without 0. `StrongInduction` and `Least` come from it;
- data. `Flattened` says where the parts of `FlattenSeq` begin (`Offset`), `NumberOfDecimal` that
  `Number` reads what `Decimal` writes, `ElementForm` what is at which place of an element, and
  `ElementRead` that `Parse` finds there what `String` has put there.
  `ParseInvertsString`: `Parse` gives back the values of every instruction;
- the stream. Its inductive invariant `IInv` adds to `Safe` that for a peer that counts bytes the window
  begins where an instruction begins, and `parseStart` is where an element of it does (`InFront`). From that
  `ElementInWindow` follows: the element in front is complete exactly when its end is in the window,
  and what follows it there is its own terminator. So an instruction ends where it ends on the wire
  (`EndKeeps`), and `NeedMore` asks for more only while less than `MaxGuacMessage` bytes are held (`NeedMoreKeeps`),
  which is why there is room to read. Of a peer that counts characters only the window is claimed.

`TunnelProofs`, about `CountedLock`, for any finite set of goroutines: `LockIsSafe`, that
`LockInv` is an invariant, from the inductive one that the mutex belongs
to the goroutines past `LockCore`, at most one, and the counter is the
number of goroutines between the start of `Lock` and the start of `Unlock`, from
which it follows that `HasQueued` is true only if somebody waits.

About `Tunnel`, for any configurations, any lists of names guacd may ask for
(`Asks \subseteq Seq(STRING)`) and any finite set of readers. `TunnelLockIsSafe`
carries `LockInv` over: a step of the tunnel is a step of the lock or leaves its
variables alone. `HandshakeAgrees` (`Agreed`) and `ReadersGetAll` (`HandedOver`)
follow from `TunnelInv`. Its part `InTransit` says that what guacd has got and
what is on its way to it are together a beginning of the six instructions of
`Handshake`, as long as `SentAt[hs]`; `Answered` that guacd answers the first
and the last of them and nothing else, so that `hs = "args"` leaves one
instruction to read at most; `Stream` and `ReadsNext` that the instructions
behind `ready` are numbered on from those delivered, and that a reader that has
one in its hands holds the lock, which is where exclusion comes in. After a failed handshake
nothing is claimed.

`TtyRegistryProofs`, from the assumptions on both registries' constants.
`WebTtysAreSafe` (the two maps have the same keys, `TtyMapsAgree`, and deletions are isolated) and `WebTtysGoInTime` are the invariants of the runs `ttys` and `ttys_live`;
`WebTtysImplement` is the refinement: the steps below the WebTTY registry are
steps of `SlaveRegistry` (`SlavesNext`), its own are steps of `KeepAliveMap`.
`SlavesStaySafe` then needs no argument of its own: `RegistryIsSafe` holds of
the slave registry wherever it is used. The inductive `TtyInv` is the one of
the slave registry (`TtyCovered`, `TtyPunctual`) with two more parts:
`DeletionIsolated`, which holds because `Locked` keeps everyone else from the maps
between the two halves of a deletion, and `Placed`, that whoever is in the middle of one has a key.

`EtcdServicesProofs`, for any services and any number of leases. `KeysHaveLeases`:
a put needs the lease it names alive, and the end of a lease, by time or by
`Revoke`, removes the key attached to it unless a later registration has
attached the key to a newer lease; `KeyHasLease` with the types of the store is inductive.
`ListsFollow` is `Safe`, from one watcher, as the model assumes of the code. `ListFollows`
speaks of `watcher[w].pos` only once the watch has begun; `Follows` says
what leads there: before the Get the list is empty, while it is filled each key
is either still to be set or as the log says at the Get's revision, and then
every event applied sets its key to the value at its own revision. `HistoryOK`,
that the store holds the last values of its log, connects the Get to the log.

`WebTTYBridgeProofs`, for any number of browsers, any outputs in portions of any lines
(`Outputs \subseteq Seq(Seq(Line))`), any number of messages and any capacity of `errs`:
`BridgeIsSafe`, the invariant of run `bridge`. `EachPortionOnce` is that the
contents of all places (kept back, torn, failed, in the hands of the `i`-th goroutine, shown to the
`i`-th browser) are a partition of the lines read, and that no browser is shown one twice; each step of a
goroutine brings the lines of one portion to two places or moves the lines it holds to one
(`PiecesCome`, `PiecesMove`). `RootDeletes` counts portions, and needs the partition: a root prompt
that is written was not written before (`Fresh`). `InOrder` and `GateHolds` are not inductive;
`FlowBy` adds that what the only goroutine holds is from the portion read last, that all between the last message shown and
it has been torn, that nothing has been shown behind a closed gate, where a write is the database's refusal and the last one, and
that an open gate has seen its line. `Attached` says that a `Run` that has not begun has been shown nothing and that a write is to
the connection of one that has, which makes `Alone` mean one goroutine.

`SshSessionProofs`, for any numbers of runs, portions and messages, and any commands and words:
`SessionInOrder` (`Inv`) and `FilterIsRight` (`FilterSeesLine`). `OutInv`
describes the buffer as the latest portions up to `produced` (`Latest`), the
copy a sender has taken as a beginning of it (`Begins`), and
what was sent and logged as new in order and older than what is in the buffer and new (`Fresh`), which is why a
repetition, when `Reset` meets a `Write`, does no harm to the order. `InInv` relates the filter's line and the
shell's at every place of the receiver (`SameLine`): while a command is on its way to the shell, the line with its bytes after it
is what the filter has, after what a refused line left. It rests on `AfterAfter`, that a line does not depend on how its bytes are cut
into commands, and on `MentionsAfter`, that a word without returns in the line is one in the buffer: which is why a buffer in which no word is found
hands on a line without one, though the line forgets at an interrupt what the buffer keeps.

`ComponentProofs`. The components with a state, from no assumption on their
constants, each for its own
`Spec` (`ClosesWhenGone`, `OneConnectionEach`, `SharedByKey`, `ToldAnswers`,
`TextsStayWhole`, `ReportsKept`, `ShellOutputInOrder`, `StoredOnceAtMost`), and from it the
property of run `components`: `ProcessReturns` (`ReturnsWhenGone`), `HelperRetries`
(`RetriesKeepOne`), `SharedSessions` (`SharedAreRegistered`), `BbcIsSafe` (`BbcSafe`, which is both of
`ToldSinceClean` and `TextsAreWhole`), `MapsCount` (`CountsKept`), `ShellOrders`
(`OutputInOrder`) and `LogsStoredOnce` (`StoredOnce`). The composition begins where every component does, and a step of it is one
of each component or leaves its variables alone (`ComponentsStep`). Some of the inductive invariants say more than the
property: `ProgressInv` that at most the one worker with the mutex has read a counter, that
what it has read is still there when it writes, and which of its two steps it is between; `BbcInv`
that a text in an object may be half formatted but keeps to what `formatViews` makes whole
in one call (`Formatted`); `ShellInv` that what can be read in the array is the latest output
and that what the consumer has seen precedes it (`Shows`), for a message that
is a copy and for one that lies in the array, whether that is written to in place or replaced (`ShowsAppended`);
`EsInv` that a log in the channel is there once, sent by a caller that has returned and not yet posted, and that
one that is stored and still at its request has stopped the program.

The pure functions, from `CodingAssumption` (the cipher's inverse undoes it, each digit has its
value, blocks and digits are not empty: what DES and hexadecimal digits are), `FloatAssumption` (the scales
double from 1 to the square of the mantissa) and `OctetAssumption`:
`AccountsAreRight`, `ListsAreRight` and `ConversionsAreRight` are the three properties of the run.
A call does not change when it returns, so that the inductive invariants (`AccountsInv`, `ListsInv`,
`ConversionsInv`) say that its arguments have the form the lemmas ask for, of any size, and that an answer is right.
What carries them is proved for lists, texts and numbers of any size:

- of accounts: `DecryptEncrypt`, block by block; `UnPadding`, that zeros are taken off up to
  the text; `FromHexToHex`, from the quotient and the remainder of a byte; `EncodedForm`, that what is
  encoded is whole blocks of digits, which is why it is recognised;
- of lists: `TmpForm`, `SetsRight` and `EveryRight` (the counts and the sets), `DuplicatesRight` (each element once, in
  the order of first occurrence), `RowsRight` (the turns of two nested loops go through the columns in the
  order of the wanted names), `PagesRight` (numbers below `Mantissa` are their own floats, `FloatExact`; the nearest float is the
  quotient itself if that is whole, `NearestIs`, and otherwise stays between the whole numbers around it, because its
  steps are finer than one part of the limit, `StepsAreFine`);
- of conversions: `FourDigits` (a number below `Octet^4` has its four digits), `CodesDiffer` (no two
  statuses have one code), `Walks` and `WalkEnds` (a walk over a text of whole characters
  comes to its end and to no place within a character), `Utf8Right`, `GbkIsNoUtf8` and `GbkRight`.

`Induction` is stated and proved here as for the stream; `Ranks` says of any finite set of
numbers that its elements can be counted through in ascending order, `QuotientRemainder` what division gives.

Only model-checked, and why:

- liveness under fairness, and `ENABLED`: beyond the prover;
- `CloseReturns`, `LogsTakenUp`, `ShellTells` and the other properties with "eventually" of section 3 are liveness;
- `FormatRight`: `Replace` recurs along a text, and that it comes to the same as replacing all marks at once
  is an induction over the text for each order of the keys, which has not been done.

## 6. Where the code and what is said of it differ

Three runs end in a counterexample on purpose; each states what a comment says
(quoted in `PROJECT.json`, `findings`):

- `bridge_returns`: `Run` is said to return when the connection to one end is
  closed; once another browser has attached to its WebTTY it does not.
- `guac_chars`: lengths are said to count characters; the code counts bytes. What such a
  peer sends may be refused, and may also be cut into more instructions than it sent, which
  is why the proofs claim only the window of it.
- `ssh_loss`: output is said to be written to the websocket every 120 ms; what
  arrives between `Bytes` and `Reset` is lost.

Met while modelling, visible in the models, and not stated as runs: two callers that miss
a key together run two WebTTYs under it (`MakeWebTTY` when the key is taken);
`DelSlave` drops a close callback without running it; `Run` returns the wrapped
error of a write for a connection closed meanwhile, or goes on because `WsWrapper.Write` drops the error; output and
pongs are written to a websocket at the same time, which tears them or stops the program; of a portion with `StartFlag` or "ORA-" the
bridge shows one line and drops the others; `HasQueued` is false for a
moment while a goroutine waits, between the two steps of `Unlock`; a
registration between Get and Watch is in neither, which is why `ListFollows`
leaves out keys touched in between; the functions given to `Register` run only on a nil
message, which a closed channel does not yield to a `range`.

The filter of commands looks at the last byte of a command: a return in front of it is handed to the shell with what
precedes it unchecked (`ssh_session.go:141`), an interrupt that is pasted together with something else does not reset
the copy (`:138`), which then holds what the shell has forgotten, and after a refusal the shell still has the line, which
the next return that it gets ends. `LineChecked` is about commands that end in a return
and lines that were not refused.

In the helpers and the components around them: `ArrayIntersect` is said to imitate PHP's `array_intersect`
(`utils.go:500`), which gives what every list has; the code counts occurrences in all the other lists together
(`:512` to `524`) and gives what any of them has, so that (1), () and (1) intersect in 1. `ListsRight` therefore claims
of it only that nothing that every list has is lost, that nothing is added to the first list, and that with one other list it is right;
`StringsFormat` gives different texts for different orders of the map
when a value forms a mark with the braces around it (`format.go:32`); `GetPages` is off for counts that a float64 rounds;
`getQueryURL` ignores the case of a type and the rest of the request does not, so that a type "MySQL" or "TiDB"
goes out with the URL of mysql under its own name, and "OceanBase" without its node and cluster (`bbc.go:46` to `58` and `126`);
`keepAliveTime` is never made, so that no ssh client is ever registered
(`SshClients`, `ssh_client.go:73`); `getQueryURL` and `getJDBCUrl` make different URLs
for db2 and tidb (`DbAccounts`); the part of a text for global views stays if it
is on several lines (`BbcSession`, `bbc.go:357`); a log that is JSON but no object
and a request that fails stop the program (`EsLog`, `eslog.go:107` and `:128`), and so
does an empty command (`SshSession`, `ssh_session.go:141`); a handshake that fails
leaves its connection open (`Tunnel`, `guac.go:42`); `isGBK`, `isUtf8` and
`ExcelValueLoc` index past the end of some inputs; a command of an ssh helper may run in the session
of an earlier connection after a `SetConnect` that failed (`SshHelper`). Each of these is a behaviour or a
result of the model. The properties leave these cases out, by a condition that their comments state.

## 7. Not modelled, and why

External and taken from their use: gorilla's websocket connection (what writes and reads that meet may
come to), the pseudo terminal, the line discipline of the remote one (`After`), the ssh library, TCP, guacd, the service behind bbc
and etcd. Left out:

- ssh connection: calls of libraries without state or order of their own;
- keys that edit the line of an ssh session: the filter keeps them as they are typed, and so does the model;
- two watchers of one client: their writes race on a Go map, which stops the program;
- `GetServer`'s choice of a reachable server: reads `serverList` and dials;
- `WriteMaster`, `WriteSlave`, `WriteEnterToMaster`, called by other code on a running WebTTY;
- `analyzeDBProxy`, `dbPageSelect`, `getQueryDataWithAccount` of `bbc.go`: no caller;
- regular expressions, dates, captchas, tokens, files, mail, colours: formatting, I/O
  or thin calls of libraries that hold the state;
- HTTP codes of guac statuses: a third column of the table in `Conversions`.

## 8. Plan

Done, in this order: registries and their refinement, bridge, stream, locks,
session, etcd; then the tunnel, the second run of a session and its filter, the
closing of programs, shells behind channels, the ssh registries, progress, logs, bbc, the
pure functions; then the proofs of section 5. What is left to prove is
liveness, which the prover does not reach.

Next, in the model: two watchers, and `GetServer`'s choice, in `EtcdServices`;
the calls of `WebTTYBridge` that other goroutines make.
