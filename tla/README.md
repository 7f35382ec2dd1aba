# TLA+ models of the KAM-XL tools

Models, model-checking runs and proofs for the program in this repository: the
driver of a Kantronics KAM-XL TNC (`kamxl.py`), the daemon that owns its serial
port (`kamxl_daemon.py`), the REST front end (`kamxl_rest.py`) and the protocol
code they use (`packet.py`, `stations.py`, `winlink.py`, `lzhuf.py`, `pbbs.py`).

Run one with `tlc -config MCKamDaemon.cfg MCKamDaemon`, check the proofs with
`tlapm KamDaemonProofs.tla` (and `RestProofs`, `TextProofs`, `KamTerminalProofs`,
`WinlinkSessionProofs`, `LzhufProofs`, `MailTransferProofs`, `SubsequenceProofs`; the
codec's, `LzhufProofs`, take about ten minutes and `MailTransferProofs` about twenty). `PROJECT.json` lists the runs, what each definition translates (`map`), and
the hazards the properties are for.

## 1. The system

| Component | State it keeps | Operations | Talks to |
| --- | --- | --- | --- |
| Packet parser (`packet.py`) | unfinished line, packet being assembled | `feed`, `flush` | called by the monitor thread |
| Station tracker (`stations.py`, `aprs.py`) | latest position per callsign, and how many | `update`, `list_stations`, `get_station` | monitor thread writes, request threads read |
| KAM-XL driver (`kamxl.py`) | the serial port; the TNC's own mode (Command or Convers), link and parameters | commands, typed parameters, connected mode, PBBS and Winlink sessions, `read_available` | serial line; one caller at a time by the daemon's lock |
| Daemon, requests and monitor (`kamxl_daemon.py`) | `_kam_lock`, subscriber set, monitor thread, a socket and a flag per connection | requests, subscribe, unsubscribe, broadcast | driver, parser, tracker, clients |
| Daemon, life cycle | server object, `_shutdown_lock`, `_shutdown_done`, socket file | `serve_forever`, `shutdown`, signals | all threads of the daemon |
| REST layer (`kamxl_rest.py`) | the API key; one daemon connection and one timeout per call, one connection per event stream | routes, validation, relay, `stream_events`, SSE | daemon socket, HTTP clients |
| Winlink session (`kamxl.py`, `winlink.py`) | phase of the exchange, whether the gateway hung up | check mail, send messages | connected mode |
| B2 framing and LZHUF (`winlink.py`, `lzhuf.py`) | window and its search trees, adaptive Huffman tree, bit buffers | compress, frame, parse, decompress | called by the Winlink session |
| PBBS session (`kamxl.py`, `pbbs.py`) | the text collected | list, read | connected mode, to the KAM-XL's own mailbox |
| Web-service client, web pages, scripts | none | HTTPS calls, HTML, demonstrations | |

What is hard: the daemon's threads share a lock they hold through whole serial
transactions, a subscriber set that is read under its lock and used after it, and
sockets that block, close or vanish at any moment; two threads enter `shutdown()`;
MONITOR text arrives in arbitrary chunks, between and inside the answers to
commands; the driver cannot know what the KAM-XL is doing, and an answer that
comes after a timeout stays on the line; the REST layer meets the daemon's
asynchronous events on a buffered socket, and gives up on operations that go on
without it; sessions with remote stations time out, are echoed back, cut in slices
and ended by the other side; sender and receiver of a message adapt their trees
separately and must do so at the same symbol.

What makes each part correct:

* **Packet parser, station tracker**: packets and stations do not depend on how the
  text was cut; nothing is dropped at the end, counted twice or put under another name.
* **Driver**: an answer is taken for the answer to its own command; a connect or
  disconnect reports its own fate; a value is read back under the lock it was written under.
* **Daemon**: serial transactions exclude each other; a subscriber gets every packet
  once, in order, until it leaves; nobody stays in the subscriber set; the tracker
  is never behind the events; a client that stalls does not starve the others'
  requests.
* **Life cycle**: `shutdown()` is done once, and completely when it returns, by whoever calls it,
  and a signal ends the process.
* **REST relay**: nothing reaches the daemon without the key; a timeout means that
  the KAM-XL is busy with somebody else; an answer is true of the KAM-XL, unless something older
  was still to come from it; the lock is never left held by a request nobody waits for any more.
* **Event stream**: what the daemon publishes comes out in order and without gaps;
  a stream ends when its browser leaves.
* **Winlink and PBBS sessions**: what is returned is what was exchanged, each message
  with its own proposal; only the end of what was collected can be cut off; the link is down
  afterwards.
* **Codec**: what is decompressed is what was compressed, or an error; no prefix of a
  block looks like a broken one.

## 2. Modules

```
MonitorFeed      <-- refined by --  KamDaemon  <-- extended and implemented by --  DaemonLifecycle
      ^                                 ^                                               ^
      |                                 +----------------- KamDaemonProofs -------------+
      +-- composed with EventStream: the REST layer's end of the daemon's sockets <-- RestProofs

PacketParser     <-- extended by -- StationTracker: what KamDaemon abstracts to numbers <-- TextProofs
TypedParameters  <-- extended by -- RestRelay <-- RestProofs
KamTerminal      what happens inside one locked transaction of KamDaemon <-- KamTerminalProofs
WinlinkSession   one long transaction, over KamTerminal's connected mode <-- WinlinkSessionProofs
PbbsSession      another one <-- TextProofs
Lzhuf <-- B2Framing <-- MailTransfer: the message bodies of WinlinkSession, bit by bit
  ^                          ^
  +-- LzhufProofs <----------+-- MailTransferProofs

Subsequence      what PacketParser, KamTerminal, WinlinkSession, PbbsSession and Lzhuf filter
                 sequences with <-- SubsequenceProofs, which the proofs of those five use
```

**PacketParser.tla** (`packet.py`). `buffer` and `pending` are the parser's fields;
`Feed(chunk)` is `feed()` with its loop over complete lines (`FeedLines`, `ProcessLine`),
`Flush` is `flush()`. Text is a sequence of characters from a set of five, and
`HEADER_RE` is the set `Headers` of lines it matches. `Chunks` is what
`read_available()` can return. `fed` and `emitted` record what was fed and returned.

**StationTracker.tla** (`stations.py`, `aprs.py`) adds `stations` and updates it with
every packet that a step of the parser completes, as `_handle_packet()` does. A header
has a source and may or may not be a UI frame; the two regular expressions of
`parse_position()` are the set `Reports`.

**KamDaemon.tla** (`kamxl_daemon.py`). One program counter for the monitor thread
(`monPc`) and one per request-handler thread (`hpc`). A critical section that cannot
block (`_subscribers_lock`, `_stations_lock`) is one step; `_kam_lock` is the variable
`kamLock`, because it is held through serial transactions. `_send()` is split into
`MonWrite` and `MonFlush`, because a handler can close the file between the two. Packets
are numbers in the order in which the TNC prints their headers. A socket is a count of
unread lines with room for `SocketRoom`. Clients connect, ask, read and vanish as they
like. `StopMonitor` and `DisconnectKam` are what `shutdown()` does to these threads.

**MonitorFeed.tla** is the daemon's promise about packets, without threads, locks and
sockets: recorded in the tracker, then published to the members of that moment, each of
which gets the packet at most once, before any later one, and misses it only by hanging
up or by the publisher's death. `KamDaemon` maps `subscribers`, `stations`, `targets` and
`sent` to it (`Feed`, `KeepsFeedPromise`).

**DaemonLifecycle.tla** puts `main()`, the server thread and `shutdown()` around
`KamDaemon`. The main thread (after a signal) and the server thread (in the `finally` of
`serve_forever()`) run the same `ShutdownStep`s; `serverSet`, `loopEnded` and
`stopRequest` are `self._server` and the two flags of `socketserver.BaseServer`. Both threads test for the
socket file and remove it in two steps (`SeeOldSocket`, `RemoveOldSocket`, `SeeSocket`, `RemoveSocket`), the other
one may come in between, and `os.remove()` then raises: the server thread ends before it has a server,
`shutdown()` is left with its lock released and the port open, and an exception in `main()` ends the process
(`crashed`). `oldSocket` says that a file was left from before.

**EventStream.tla** (`kamxl_rest.py`). Per SSE stream: the thread that runs
`stream_events()` and `_h_monitor_stream()`, its socket to the daemon, the lines `rfile` has
read ahead, and the browser. The daemon's side is an instance of `MonitorFeed`, the specification
that `KamDaemon` is shown to implement: the handler joins the set, replies later, and the
feed publishes meanwhile.

**TypedParameters.tla** (`kamxl.py`). What `set_typed()` accepts for each type of
`COMMANDS` and what it writes (`Fits`, `Text`), and what `get_typed()` makes of the text
the KAM-XL answers (`Parsed`). Words are model values, except that `upper()`, `str()` of a
number and the words the code compares with are functions on them.

**RestRelay.tla** (`kamxl_rest.py`, `kamxl_daemon.py`, `kamxl.py`). An HTTP request from
`do_GET()` to its status. `Immediate` is everything the REST layer answers by itself:
the key, the routes, the fields of the body. The rest is a REST thread that waits for
`SocketTimeout(r)` and a handler in the daemon that waits for `_kam_lock` (`holder`) and
goes through `Steps(r)`, each with the time the driver gives it. A step ends, fails or
times out; the KAM-XL's parameters change while it runs. A step that waits for the end of a banner's line has a
`grace` above its limit (0.5 s in the code, begun again with every byte, bounded by one second here).

A command that times out is not taken back. `quiet` says that nothing is to come on the serial line but the answer
to the step that is running, `late` which writes the KAM-XL may still carry out (`LateWrite`), and while the
line is not quiet a command may end on an answer that is not its own (`StepEndsOnStray`), with a value out of
`Strays`, or be refused for somebody else's `EH?`. The line is quiet again when all of that has come (`Settle`); `clean`
are the requests that found it so when they got the lock, which is what the two properties about answers ask
for. What the KAM-XL prints of its links (`Disturbs`) leaves the line unquiet too.

Time is in seconds. `Tick` lets the longest of `Leaps` pass that nobody has to act before, so that every
deadline is met in time and TLC needs few states for it. `DaemonStops` is a signal to the daemon.
Here the monitor thread's turns with the lock take no time; KamDaemon has them.

**KamTerminal.tla** (`kamxl.py`). The driver's calls against the KAM-XL, which has a mode,
a link, unprocessed `input`, and a `job` of lines still to print. `line` is what it printed
and nobody has read; how much of that has arrived at the port is chosen when somebody
reads or resets it. `SendCommand` uses `reset_input_buffer()`, the others `_drain_input()`,
which also catches what is on its way. `CommandReturns` is the whole of the response's
treatment: `partition`, `_strip_monitor_lines()`, `_remove_command_echo()`, `EH?`. `Poll` is
the monitor thread between two calls. The KAM-XL itself is external: modelled from what
the code, its comments and its tests say it prints.

**WinlinkSession.tla** (`kamxl.py`, `winlink.py`). `check_winlink_mail()` and
`send_winlink_message()`: `Slice` and `PollTimesOut` are `_poll_until()`, `stage` says whose
`done()` it evaluates, and each stage's code up to the next poll is one action. The text
is a sequence of tokens, one per line, except where the code can see part of a line:
`F>` and its line end, `FS` and its answers, the two parts of a message. The gateway, the
echo of the KAM-XL and the moment the link ends are external and nondeterministic.

**PbbsSession.tla** (`kamxl.py`, `pbbs.py`). `list_pbbs_messages()` and
`read_pbbs_message()`: connect, command, poll for a prompt, `disconnect_station()` in the
`finally`, and the two parsers. The mailbox prints a prompt with its sign-on and another
after its answer; the code cannot tell them apart, the properties can (`Prompt(k)`). What it prints are
lines, but `read_connected()` returns at any byte: the next slice adds the rest of the line, and where the collection
ends, at a prompt or a timeout, a piece of a line may be the last of it (`cut`). `Pieces(token)` is what such a
piece looks like to the two regular expressions: a row cut in its page count or its subject is a row, and
a header cut in its last address a header.

**Lzhuf.tla** (`lzhuf.py`) translates the codec: the search trees over the window
(`InsertNode`, `DeleteNode`), the adaptive tree (`Update`, `Reconst`), the position tables,
and one turn of `compress()`'s and `decompress()`'s loop. Loops inside a turn are recursive
functions of the turn's number (`turn[k]`, `slid[k]`), each long enough for the loop to have ended.
Its constants are the code's, small: the window is a power of two of at most 4096, as many as the position tables
express, and holds the look-ahead twice, since `compress()` inserts the `F` positions before it. **B2Framing.tla** (`winlink.py`) is `compress_b2()`'s wrapper, `build_b2_block()`
and `parse_b2_blocks()`, byte for byte. **MailTransfer.tla** runs them: texts are compressed
and framed, the bytes arrive one at a time and are parsed again after each, as
the poll does, and what was found is decompressed. The link may change or exchange bytes.

**Subsequence.tla** is a loop that appends to a list the elements it wants to keep: `Pick(s, kept)`
are the elements of `s` at the positions in `kept`, `Only(text, types)` the tokens of some types. It is
written as a recursive function on the length, so that it can be proved about.

`MC*.tla` and `*.cfg` instantiate them.

## 3. Runs

| Run | Bounds | States | Shows |
| --- | --- | --- | --- |
| `packet_parser` | 5 characters, texts of up to 7, chunks of up to 3 | all cuts | `ChunkingIsIrrelevant`: the packets are those of the whole text in one piece. `FlushDropsNothing`: what follows the last header is in the last packet. `StationsMatchTheText`: the tracker knows the last report of each callsign and how many there were. |
| `kam_daemon` | 2 connections, 2 packets, 3 requests, room for 2 lines | symmetric in the connections | one transaction at a time; no leak in the subscriber set; flag and set agree; tracker never behind; `KeepsFeedPromise` |
| `kam_daemon_live` | a listener and an operator, 2 packets, 2 requests, room for 1 | liveness | a request that waits for `_kam_lock` is served although the listener never reads |
| `daemon_lifecycle` | 1 connection, 1 packet, 1 request; with and without an old socket file | 222 thousand, liveness | `self._server` is there when it is used; `shutdown()` returns only when complete, and raises only over an old socket file; a signal ends the process; the daemon inside implements `KamDaemon` |
| `event_stream` | 2 streams, 2 packets, room for 2 | liveness | only the first event of a stream can be lost, and no order changed; a stream whose browser left is closed and unsubscribed |
| `rest_relay` | 2 callers, 3 requests; every kind of request alone, with one that occupies the KAM-XL, and two writes to one parameter; every command line and key; leaps of 1 to 5 s | 370 thousand, liveness, deadlock | `TimeoutMeansBusy`, `AnswerIsInForce`, `AnsweredWriteStands`, `OnlyWithTheKey`; `OperationsEnd`: the lock is never left held |
| `kam_terminal` | 3 calls, 1 MONITOR packet, 1 line of the remote station | 5 million | a command to a quiet KAM-XL gets its own, complete answer whatever went wrong before; a connect is about itself; after `disconnect_station()` there is no link |
| `winlink_session` | 2 messages, echo on and off | 1.7 million | messages meet their proposals; no mail is lost in a call that had its time and could read the blocks; what is reported as sent is what was accepted; the link is down at the end |
| `pbbs_session` | 3 messages of 2 lines, any of them empty, echo on and off | 1.1 million | a call that returns has ended its link; a listing is the mailbox's or a first part of it, the last row perhaps cut; a message is the one asked for, and whole when its prompt came |
| `mail_transfer` | literals of 1 bit, bytes of 3, window 16, look-ahead 4, `MAX_FREQ` 8, register of 3 bits; all texts of up to 8 symbols, 14 longer ones of 40, 7 that begin and end with spaces | 259 thousand | `MatchIsLongest`: the search trees find what a look at the whole window would, some spaces before the text excepted (section 5). `TreesAreHuffman`. `PositionsDecode`, for all 4096 positions. `MailIsDelivered` and `ErrorMeansDamage` for every cut and every changed byte |
| `monitor_death`, `winlink_echo` | 1 connection; 1 message | | the findings of section 5 |

*Why the bounds are enough.* Two connections let one stall, unsubscribe or vanish while
the other is served, and no condition in the code compares more than two. Two packets
fill the parser's pending slot and complete one; three requests allow subscribe,
unsubscribe, subscribe. `SocketRoom` is at most 2, so that full sockets are common. Seven
characters hold two headers, a payload line and their line ends with one character to
spare, and a chunk of three can hold a whole line or cut a CR LF pair. Two messages are
enough to accept one and not the other, to mix the tiers and to lose the second of two;
the code's limit is five. Three calls are enough for one that leaves something behind,
one that meets it and one after that. Three requests are enough for one that holds the
lock, one that waits for it and is given up, and one that its caller sends after that; a command that times
out, one that takes its answer, and a late write between the two need no more. All limits in the scenarios
are multiples of 5 s or a grace of 1 s above one, which leaps of 1 to 5 s meet exactly. A mailbox of
three has a first row, a last one and one that is neither.
In a window of 16 with `MAX_FREQ` 8 a text of 40 wraps around more than twice and rebuilds the
tree several times; a chunk of 8 bytes of 3 bits has a length that is coded as 0.

*Symmetry* is used in `kam_daemon` only. The two connections are interchangeable in
`Init`, `Next` and every property of the run; the refinement checked there is
`Feed!Spec`, which has no liveness part.

*Deadlock* is not checked where a system may stop: all requests made, the parser
discarded, the daemon exited, the call returned. In `rest_relay` it is: time goes on.

*Fairness.* Threads run: weak fairness per thread (`Fairness`, `LifeFairness`,
`EventStream`'s `FairSpec`). `_kam_lock` needs strong fairness, since Python's locks are
not fair: it is justified because the monitor sleeps 50 ms between polls with the lock
free, and because clients send finitely many requests. Nothing is assumed of clients,
browsers or the radio: they may stall for ever. `SignalEndsProcess` needs the server's
loop to see its stop request, which `serve_forever()` does within its poll interval.
`RestRelay` assumes that time passes and that a thread with something to do does
it (`Tick`, `GiveUp`, `Operation`); nobody has to send a request, and the daemon need not stop. That its
lock needs no strong fairness is due to the finite number of requests.

Every property has a mutant of the code in the module (an operator named
`<definition>_<what is wrong>` before the definition) that makes TLC find it violated.

## 4. Proofs

**`KamDaemonProofs.tla`**, for any set of connections and any bounds, from
`DaemonAssumption` (the thread names differ, `SocketRoom > 0`) alone:

| Theorem | States |
| --- | --- |
| `TypeCorrect` | `Spec => []TypeOK` |
| `OneTransaction` | `Spec => []OneTransactionAtATime` |
| `NoLeaks` | `Spec => []NoSubscriberLeaks` |
| `FlagMatches` | `Spec => []FlagMatchesSet` |
| `StationsNeverBehind` | `Spec => []StationsKnowEverySentPacket` |
| `FeedPromise` | `Spec => KeepsFeedPromise`: the daemon implements `MonitorFeed` |

None of the invariants is inductive by itself.

* `Typed` adds `RoundInv` to `TypeOK`: `completed` is not empty from `snapshot` to `flush`.
  Without it `Head(completed)` has no type.
* `OneTransactionAtATime` is inductive relative to `Typed`: whoever enters the driver found
  the lock free.
* `NoSubscriberLeaks` and `FlagMatchesSet` need `SubscriberInv`: a handler's flag says whether it is in the set,
  except between the two halves of a request, and `finish()` trusts the flag.
* `StationsKnowEverySentPacket` and the refinement need `QueueInv`: the packets in
  `sent`, `stations`, `completed`, `pending` and `wire` are strictly increasing in that order
  (`Heard`, `InOrder`), and the tracker has the head of `completed` once a round has
  begun; outside the broadcast `completed` is empty, and there are targets only in `send`
  and `flush` (`Rounds`). The lemmas about `SubSeq`, `Append` and `Tail` of increasing sequences
  are stated once.
* `FeedPromise` maps each action to a step of `MonitorFeed` or a stutter: `MonUpdate` is
  `Record`, `MonSnapshot` is `Publish`, `MonWrite` is `Deliver`, the two ends of the monitor
  thread are `Die` or stutter, a client's close is `HangUp`.

**`KamDaemonProofs.tla`, second part**, about `DaemonLifecycle`, from the same assumption:

| Theorem | States |
| --- | --- |
| `ServerThere` | `LifeSpec => []ServerIsThereToClose` |
| `ReturnsComplete` | `LifeSpec => []ReturnedMeansComplete`, with what is left when `os.remove()` raises |
| `LifecycleImplementsDaemon` | `LifeSpec => ImplementsDaemon`, so that the theorems above hold of it |

Their invariant is `LifeInv`: the types (`LifeTyped`), that whoever is in the body of `shutdown()`
holds `_shutdown_lock` (`LockInv`), and what each of its steps has behind it
(`ProgressInv`): without the latter nothing says that the second caller, who finds
`_shutdown_done`, comes after all of the first one's work, or after a first one that raised. `SocketInv`
says who can have made the file that a thread has just seen: only the one left from before is removed by both,
so that no `os.remove()` raises without it, nor in `shutdown()` when the server thread is the one to call it.

**`RestProofs.tla`**, RestRelay: for any requests of any callers, any timeouts they ask for
and any parameters, stray answers and leaps of time, from `ParametersAssumption`, `SlotsAssumption`,
`FreeAssumption`, `LeapsAssumption` (a second may pass) and `RequestsAssumption` (timeouts are natural numbers,
what is written had a text before):

| Theorem | States |
| --- | --- |
| `RestTypeCorrect` | `Spec => []TypeOK`, with the time a step has run never above its limit and grace |
| `KeyNeeded` | `Spec => []OnlyWithTheKey` |
| `AnswersInForce` | `Spec => []AnswerIsInForce`: of requests whose turn began on a quiet line |
| `WritesStand` | `Spec => []AnsweredWriteStands`: of the same |
| `TimeoutsSuffice` | `Spec => []TimeoutMeansBusy` |

* `RestInv` is what the first three need: the types, what a handler's state says of its
  request (`Given`), that who holds the lock is running and in its locked steps and the
  others are not (`Together`), that a typed request in its second step still finds
  what it wrote if it began on a quiet line (`ReadingBack`), and that a quiet line has no late write (`LineInv`).
  The write and the read back are under one lock, so nobody else can send anything in between; a clean
  request's own steps leave the line quiet (`Tidy`), so no stray answer can end them and no late write come
  between. Without `clean` neither holds, which is the point of section 5's remark on it.
* `StandInv`, relative to `RestInv`: once a request is answered other than by 504 its handler
  is over (`Over`), so that one that was answered before another was sent
  can write no more (`SawAnswers`), not even late when the other found the line quiet (`Untouched`), and what
  stands stands (`Stands`).
* `BudgetInv`: while nobody has waited, what is left of the socket timeout covers what is
  left of the running step and the limits and graces of all steps after it (`Budget`). `After(r, k)` is
  the table of those sums, for every path; that it starts below `SocketTimeout(r)` is
  the arithmetic of `_h_*()`'s timeouts.

**`RestProofs.tla`**, EventStream: for any streams, packets and size of the socket buffer, from
`StreamAssumption`:

| Theorem | States |
| --- | --- |
| `StreamTyping` | `StreamSpec => []StreamTypeOK` |
| `StreamIsComplete` | `StreamSpec => []OnlyTheFirstEventIsLost` |

The property speaks of what the browser got, which says nothing about the lines still
to come. `StreamInv` follows them all: `Written(s)` is the line taken for the response, the data
chunks, the event being yielded, what `rfile` has read ahead and the socket, in this order, and
as long as the connection is open it is exactly what the daemon sent, with the response
inserted somewhere once the handler has replied (`FlowInv`). Reading, yielding and writing
move lines within `Written(s)` and leave it as it is (`MovedLines`); the daemon's writes make it longer
at its end; a close drops the rest, so that what is left is a prefix (`ShownIsFirst`), and by
then the feed of the stream is frozen.

**`KamTerminalProofs.tla`**, for any number of calls, packets and lines of the remote station,
from the module's assumption on its bounds:

| Theorem | States |
| --- | --- |
| `TypeCorrect` | `Spec => []TypeOK`, so that no answer has the prompt in it |
| `CommandAnswered` | `Spec => []QuietCommandIsAnswered` |
| `ConnectOwn` | `Spec => []ConnectIsAboutItself` |
| `DisconnectLeaves` | `Spec => DisconnectLeavesNoLink` |

What a call reports depends on what may still be on its way to or from the KAM-XL, so
`TermInv` says that. From a quiet start on, everything it has printed or will print in answer to
a connect is no marker or a marker of this CONNECT (`ConnectInv`, sequences over `Own`); during a
disconnect nothing that could make a link is to be taken, and no marker of
`disconnect_station()` is on the line, heard or about to be printed as long as there is a link
(`LeaveInv`, sequences over `Silent`).

`CommandAnswered` needs to know what is in the text, and `CommandInv` says it: as long as a command to
an idle KAM-XL is waited for, `heard \o line` is whole MONITOR packets between whole lines (`Clean`),
and with those packets taken out of it, followed by what the KAM-XL has still to print, it is the echo,
if ECHO is on, one of the two answers, and the prompt (`Printing`, `Printed`). Nothing in it depends on
how the text is cut, which is why `Read` keeps it (`ReadKeepsText`). A packet that is appended changes
nothing in what `_strip_monitor_lines()` leaves (`CleanPacket`), and any other line is one more at its end
(`CleanAppend`). When the prompt is seen, `BeforePrompt()` finds the end of the answer (`HeardBefore`),
`strip()` cannot take more than the blank line of a last packet (`PacketsComeOff`), and the echo is the
first line that is left (`EchoComesOff`).

**`SubsequenceProofs.tla`** has the lemmas that the proofs about texts and sequences share. The induction
theorems of the library take the property as an operator, which the provers cannot instantiate, so
induction over numbers and over sequences is proved here for sets (`NatInd`, `SeqInd`: a set that has
the empty sequence and with a sequence every longer one has all of them), from the least element
that a well-founded relation gives (`LeastNumber`). From these: that a function defined by recursion over
an interval has the values its equation says (`Recursion`), what `Pick` does to one more element
(`PickAppend`), to another set of positions and to a tail none of which is kept, that `Only` distributes
over `\o`, and that `Pick` enumerates its positions in order.

**`TextProofs.tla`**, PacketParser and StationTracker: for any set of characters and of header lines and chunks of any length,
from `CharsAssumption`:

| Theorem | States |
| --- | --- |
| `ChunksDoNotMatter` | `ParserSpec => []ChunkingIsIrrelevant` |
| `FlushIsComplete` | `ParserSpec => []FlushDropsNothing` |
| `StationsAreTheTexts` | `TrackerSpec => []StationsMatchTheText` |
| `TrackerOnlyListens` | `TrackerSpec => ParserSpec`: the theorems about the parser hold of it with a tracker |

The reference reads the whole text by positions (of the newlines, of the headers, of the reports), the
program goes from character to character. Each part of the reference gets a lemma about one more
element at the end (`LinesAppend`, `PacketsAppend`, `HeardAppend`), and each loop of the program an
induction whose step is that lemma. `ParserInv`: what was returned and what is pending are the packets of
the complete lines fed so far (`Assembled`), and `buffer` is the rest of the text, so that a chunk
that ends in the middle of a line, or between its CR and its LF, changes nothing. `TrackerInv` adds
that the stations are those of the packets returned.

**`WinlinkSessionProofs.tla`**, for any number of messages of either tier, a gateway that answers as it
likes and hangs up when it likes, and texts cut in any slices, from `MailAssumption` (at least one message):

| Theorem | States |
| --- | --- |
| `TypeCorrect` | `Spec => []TypeOK` |
| `EndsDisconnected` | `Spec => []SessionEndsDisconnected` |
| `MeetTheirProposals` | `Spec => []MessagesMeetTheirProposals` |
| `SentIsAccepted` | `Spec => []SentIsWhatWasAccepted` |
| `NothingIsLost` | `Spec => []NoMailIsLost` |

The driver acts on the text, so the invariant is about all of it: what a stage has heard, what the
KAM-XL has printed and what is on the air, in that order (`Said`).

* `BaseInv`: the types, and that what the text says of the link is true of it (`LinkInv`): a
  banner is printed or heard only when the link is down, which is why each way out of the `try`
  block leaves none.
* `TurnInv`: who speaks when. A unit that is sent is one of its stage, and the gateway that is gone is the
  only one the KAM-XL can have lost.
* `MeetInv`: in a check, proposals and messages are said in order and none before its turn
  (`TextMeets`), so that the k-th block the driver cuts out is the k-th message, whatever was left over
  from the stage before; `ResultMeets` is that of what is returned.
* `SentInv`: what follows an `FS` in the text is the gateway's answers in order, or a beginning of them that
  the end of the text or the banner cuts; a line with as many answers as messages were offered is
  all of them. What is returned and what is still to upload are together the accepted messages.
* `MailInv`: proposals are complete before `F>` is said, the messages the gateway sends are all that were
  accepted, and a stage that was not cut short by its timeout has heard all there was to hear (`Heeded`).
  `NoMailIsLost` excludes a stage that timed out before that, and the blocks of the finding `winlink_echo`.

**`TextProofs.tla`**, PbbsSession: for any number of messages, body lines and slices, from `PbbsAssumption`:

| Theorem | States |
| --- | --- |
| `PbbsDisconnects` | `Spec => []PbbsEndsDisconnected` |
| `ListIsTheMailbox` | `Spec => []ListedIsStored` |
| `MessageIsTheOneAsked` | `Spec => []ReadIsStored` |

`PbbsInv` is about the link, as `BaseInv` is for Winlink. `TalkInv` is about the text: what was said is
lines of no interest, alone or followed by the answer and then nothing or the end of the link (`Talk`); the lines that
were collected are a beginning of that (`Told`), and so are those lines with the one that a piece was read
of (`Collects`). The parsers' results are computed from these parts: what they keep of the answer is the rows, or
the body, and of the rest nothing, but for the banner that `ReadIsStored` allows. A row that was cut is a
piece of the row that comes next, because with it whole the lines would still be a beginning of what was said
(`PieceTypes`, `ListedRight`); a header that was cut is the one of the message asked for (`HeaderIsTheOneAsked`).

**`MailTransferProofs.tla`**, for any mails, alphabet, window, look-ahead and byte width, from
`LzhufAssumption`, `FramingAssumption` and `MailAssumption` (texts whose length fits in its field, chunk
sizes that fit in a byte, a title without NUL); **`LzhufProofs.tla`** has the lemmas about the codec by itself:

| Theorem | States |
| --- | --- |
| `PositionsAlwaysDecode` | `Spec => []PositionsDecode` |
| `MailTyped` | `Spec => []Typed` |
| `HuffmanTreesStay` | `Spec => []TreesAreHuffman` |
| `ErrorsMeanDamage` | `Spec => []ErrorMeansDamage` |
| `UndamagedMailIsDelivered` | `Spec => [](~damaged => MailIsDelivered)` |
| `MatchesAreLongest` | `Spec => []MatchIsLongest` |

* `Huffman(f, s, p, x)` is the adaptive tree in the middle of `update()`'s climb, when node `x` has one too
  few: no node is more frequent than the next (`Ordered`), each node hangs below one node (`Linked`), pairs come
  before their parents (`Paired`), parents are as frequent as their children (`Summed`), and the root
  as all leaves (`Weighed`). The last one is what bounds the root below the sentinel, which stops the
  search for the node to change places with. `Resting(t)` is the tree between updates.
* `reconst()` (`Forest`, `Grown`): with half the leaves' frequencies, every prefix of the node list built
  anew is such a forest, and the roots left are the nodes not yet paired.
* `Typed` is what every other step needs: the dictionary's links and the window (`DictSet`), the two records
  of locals (`Encoder`, `Decoder`), the bytes on the wire and in the blocks. No index of an array is out of its range,
  also while garbage is being decoded.
* `Intact`, for `ErrorsMeanDamage`: while nothing was changed on the way, the wire is the blocks of the mail
  (`WireIsSent`) and what was parsed is the first of them (`BlocksAreSent`), whole ones only.
  `parse_b2_blocks()` is followed along a beginning of such a wire: each chunk is found where its length byte says
  (`ChunksRead`), the checksum of the bytes before it is recomputed (`BlockRead`), and a place that is not reached
  yet ends the loop without an error (`BlocksRead`). That a block so recovered is long enough, matches its CRC and
  has its text's length in it is `BlockAccepted`.

`UndamagedMailIsDelivered` says that decompressing is the inverse of compressing, through the framing and
any cut, in five steps:

* `Trees`, `Planted`: in the search trees of the window a position that is in one hangs below its parent, on the side
  the parent says, and deeper (the depth is a witness that no variable holds). The three changes that `delete_node()` and
  `insert_node()` make to the links keep this (`Removed`, `Replaced`, `HungUnder`), so the search that `insert_node()`
  makes only ever meets positions that are in the trees.
* `Windowed`: the encoder's ring buffer is a window on one stream, the spaces it is filled with and then the text
  (`Stream`, `Rolled`), mirrored cells included, and every position in a tree is a place in that stream not yet
  overwritten (`LiveIn`). So what `insert_node()` reports is a string that really stands so many places back (`RealMatch`).
* `Decoded`, `CopyDecodes`: the decoder's ring has the last `N - F` of the same stream, which is as far back as a match may
  lie; copying it cell by cell gives the text even when the match overlaps what is being copied.
* `Coupled`: after as many turns both sides have the same Huffman tree, the decoder is at the bit the encoder writes next
  and has the text that left the look-ahead. A code is read back because the walk down the tree goes up the parents
  the encoder took its bits from, a position because the tables decode it (`IsRead`). `Followed` says it of whatever
  bits begin with what the encoder has written, `Decodable` of the finished block, so that the bits that pad the last
  byte do not matter (`PackedBack`).
* `Faithful`, the inductive invariant, adds to `Intact` that every prepared block is decodable, that the messages so far
  are the first of the mail (`FirstDelivered`), and that the one being decompressed will be the next (`NextFinishes`).

`MailIsDelivered` itself makes an exception for codes longer than the register (`Exact`, section 5); the
theorem adds the one that nothing was changed on the way. What arrives of a damaged block is returned when its checksums
hold by chance, so that half of the property depends on the CRC's polynomial and on which bytes the link changes.

`MatchesAreLongest` says that the search trees find all there is to find:

* `Sorted`: with the set of positions below each node as a witness (as the depth is in `Trees`), what is left of a node
  comes before it in the order of the strings (`Before`), what is right of it after it, and all strings that
  begin with a symbol are in that symbol's tree. Deleting a node, putting one in another's place and
  hanging one up keep this (`RemovedSorted`, `ReplacedSorted`, `HungSorted`).
* `Placed`: wherever `insert_node()` has got to, the string that it inserts belongs there. `Seen`: no string outside
  of the subtree it still has to visit has more in common with it than `match_length` says, because strings
  on the far side of a node have no more in common with it than the node has. At the walk's end that is every string
  of the trees. It does end: depths grow along it, and there are `N` positions (`NoDescent`).
* `Findable` and `Longest` in `Windowed`, the encoder's invariant: every string of the window is in the trees, or one
  that is the same and nearer (`insert_node()` lets a new position take the place of an equal one), but for the
  strings of spaces before the text; so what is longest in the trees is longest in the window, also after the
  match has been shortened by the end of the text.

Only model-checked:

* liveness (`KamRequestsAreServed`, `SignalEndsProcess`, `GoneBrowsersAreForgotten`, `OperationsEnd`),
  which is out of the prover's reach;
* MailTransfer: `MailIsDelivered` for mail that was damaged on the way.

## 5. Findings

* `monitor_death`: `_send()` ignores `OSError` only. A handler that finishes between
  `write()` and `flush()` of an event makes `flush()` raise `ValueError`, which ends the
  monitor thread.
* `winlink_echo`: `parse_b2_blocks()` needs a block's first byte where the stage's text
  starts. After a slice that ended between `F>` and its line end, or an echo of our `FS`
  line, it finds nothing, and `check_winlink_mail()` returns an empty list.

Observations that have a definition in a module but no run. Each can be reproduced by
adding the definition to a .cfg of that module as said:

* `SessionTextIsNotPolled` (KamTerminal, property of `MCKamTerminal.cfg`): the monitor thread
  polls also while a link is up, so what the remote station says between two requests is not
  returned by `read_connected()`.
* `FirstLineIsTheAck` (EventStream, invariant): an event broadcast between `add_subscriber()` and the
  response to `monitor.subscribe` is taken for the response by `stream_events()`.
* `ReceivedLinesAreYielded` (EventStream, property, under `ReadingSpec`, in which the browser
  reads): `select()` looks at the socket while the next line is in `rfile`'s buffer; that
  event waits for another one while keepalives are sent.
* `ExitsCleanly` (DaemonLifecycle, invariant of `MCDaemonLifecycle.cfg`): a signal comes before
  `serve_forever()` has assigned the server, and a socket file was left from before. Both threads pass
  `os.path.exists()`, the server thread removes the file (`kamxl_daemon.py:509`), and `os.remove()` in `shutdown()`
  (line 550) raises `FileNotFoundError`: `kam.disconnect()` is skipped although `_shutdown_done` is set, and `main()` ends
  with a traceback. `docs/daemon.md:88` says that a signal "closes the KAM-XL connection, removes the socket
  file, and exits cleanly".
* `NoSocketFileLeft` (DaemonLifecycle, invariant): after a signal that comes before
  `serve_forever()` has assigned the server the socket file stays.
* `InverseOfCompress` (MailTransfer, invariant, with `CODE_BITS = 2`): a symbol's code
  can be longer than the register `_encode_char()` collects it in (16 bits in the code),
  and its first bits are lost. The text has to be long and its frequencies uneven.
* `SpacesBeforeText` (MailTransfer; take the condition out of `back` and `MatchIsLongest` fails):
  `compress()` inserts the `_F` positions before the text from the nearest to the furthest. When the text begins with
  spaces, several of them are the start of `_F` spaces, and `insert_node()` puts each in the place of the one before, the
  oldest stays. When that one leaves the window the others are still in it but in no tree, and a later run of
  spaces is not matched with them. The text comes out longer than it could be, and still decompresses to itself.
* `Overlong` (RestRelay; take a disjunct out and `TimeoutMeansBusy` fails): three kinds of
  request may take longer than the REST layer waits for them although nobody else uses the
  KAM-XL. `GET /configuration` has 20 s in the driver and 15 s in the REST layer, a typed `PUT`
  two commands of 10 s each, and a PBBS or Winlink session one command more when the caller does not
  name the station. The comment at `kamxl_rest.py:1141` says that the timeout must
  stay above the driver's own, and `docs/rest_api.md:115`, of a disconnect, that the layer "doesn't give
  up on you before the daemon could possibly have an answer".
* `PromptMeansFinished` (PbbsSession, invariant of `MCPbbsSession.cfg`): the mailbox's sign-on ends with a
  prompt, and `_collect_pbbs_response()` stops at the first one, so a list can be returned that is cut off or empty
  although the mailbox has messages. Its docstring (`kamxl.py:1518`) and `docs/api_reference.md:111` take the prompt
  for the end of the answer. `ListedIsStored` says what is true all the same: a first part of the rows, the last of
  them perhaps without its end, and all of them when the answer's own prompt was collected. A hang-up banner
  may end up in a body.
* `clean` (RestRelay; take the condition out and `AnswerIsInForce` and `AnsweredWriteStands` fail): after a command
  that timed out, its answer may come behind the next command's `reset_input_buffer()` and be taken
  for that one's (`kamxl.py:576-586`), so that a typed `PUT` reports, with 200, what it did not ask for, or a write is
  answered 200 that the KAM-XL has not carried out.

Seen while modelling: a hang-up right after `FQ` is an error although there was no mail; an `FS`
line cut by a slice is refused for its number of answers; a B2 block cut by a hang-up ends in
`KAMTimeoutError`; `shutdown()` closes the port without the lock; `build_b2_block()` can raise for
a subject after earlier blocks were sent, so that the call fails although messages were delivered;
no checksum covers a block's title; a position with a second payload line is not decoded.

## 6. Not modelled

Winlink message headers, attachments and the login hash: pure functions on data, covered by
unit tests. The arithmetic of APRS positions, and the two getters of the tracker. The
web-service client (stateless HTTPS calls and JSON), the web pages and the hardware scripts.
`set_default_port()` and `set_bool()`, which only a Python caller reaches; `listen()` and
`monitor()`, loops over `read_available()` for a script. What a call of the driver does inside
`KamDaemon` is a transaction that may swallow MONITOR text; its inside is KamTerminal. Texts
that contain the protocol's own markers ("cmd:", "*** DISCONNECTED", a prompt of the mailbox)
are assumed away. An HTTP client that stops reading keeps its REST thread in `wfile.write()`; it is in
EventStream as a browser that does not read, and affects no other client.

## 7. Plan

What is left:

* **KamTerminal under KamDaemon**: a transaction of the daemon as a refinement of the terminal's calls, for
  which the MONITOR text that `input` and `line` hold has to be matched with `wire`.
