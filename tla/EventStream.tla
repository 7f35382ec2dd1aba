----------------------------- MODULE EventStream -----------------------------
(***************************************************************************)
(* kamxl_rest.py: GET /monitor/stream.  Each HTTP client ("browser") has a *)
(* thread in _h_monitor_stream() that iterates over stream_events(), whose *)
(* own connection to the daemon is subscribed to the packets.              *)
(*                                                                         *)
(* The daemon side of the connections is MonitorFeed, which KamDaemon      *)
(* implements: here its deliveries become lines on a socket, where they    *)
(* meet the line that acknowledges monitor.subscribe, and the lines that   *)
(* rfile read ahead.                                                       *)
(***************************************************************************)
EXTENDS Naturals, Sequences, SequencesExt

CONSTANTS
  Streams,      \* HTTP requests, each with its connection to the daemon
  MaxPackets,   \* bound: packets the daemon publishes
  SocketRoom    \* lines a connection holds before the daemon's write blocks

ASSUME StreamAssumption ==
  /\ MaxPackets \in Nat
  /\ SocketRoom \in Nat \ {0}

VARIABLES
  members, cut, recorded, ready, due, feed,  \* the daemon: see MonitorFeed
  daemonUp,   \* the daemon's process runs
  serving,    \* where the daemon's handler of the connection is
  socket,     \* lines the daemon wrote and rfile has not read
  rfile,      \* complete lines in the buffer of sock.makefile("r")
  ack,        \* <<>>, or <<the line stream_events() took for the ack>>
  client,     \* where stream_events() and its caller are
  event,      \* what is being yielded: a line, or Keepalive
  browser,    \* the HTTP client is there
  sse         \* the data chunks written to the HTTP client

feedVars == <<members, cut, recorded, ready, due, feed>>
restVars == <<rfile, ack, client, event, sse>>
streamVars == <<feedVars, daemonUp, serving, socket, restVars, browser>>

Feed == INSTANCE MonitorFeed WITH Handlers <- Streams

\* Packets are numbered from 1; the two other things a line or a yield can be:
Ack == 0
Keepalive == MaxPackets + 1

StreamInit ==
  /\ Feed!Init
  /\ daemonUp = TRUE
  /\ serving = [s \in Streams |-> "none"]
  /\ socket = [s \in Streams |-> <<>>]
  /\ rfile = [s \in Streams |-> <<>>]
  /\ ack = [s \in Streams |-> <<>>]
  /\ client = [s \in Streams |-> "none"]
  /\ event = [s \in Streams |-> Keepalive]
  /\ browser = [s \in Streams |-> FALSE]
  /\ sse = [s \in Streams |-> <<>>]

-----------------------------------------------------------------------------
(***************************************************************************)
(* The daemon.                                                             *)
(***************************************************************************)
WriteLine(s, line) == socket' = [socket EXCEPT ![s] = Append(@, line)]
HasRoom(s) == Len(socket[s]) < SocketRoom
Connected(s) == client[s] \notin {"none", "closed"}

\* monitor.subscribe: the handler joins the subscribers, and only then answers.
HandlerJoins(s) ==
  /\ daemonUp /\ serving[s] = "subscribe"
  /\ Feed!Join(s)
  /\ serving' = [serving EXCEPT ![s] = "reply"]
  /\ UNCHANGED <<daemonUp, socket, restVars, browser>>

HandlerReplies(s) ==
  /\ daemonUp /\ serving[s] = "reply"
  /\ \/ Connected(s) /\ HasRoom(s) /\ WriteLine(s, Ack)
     \/ ~Connected(s) /\ UNCHANGED socket
  /\ serving' = [serving EXCEPT ![s] = "read"]
  /\ UNCHANGED <<feedVars, daemonUp, restVars, browser>>

\* The client closed its connection: finish() removes the subscriber.
HandlerFinishes(s) ==
  /\ daemonUp /\ serving[s] = "read"
  /\ ~Connected(s)
  /\ Feed!Leave(s)
  /\ serving' = [serving EXCEPT ![s] = "gone"]
  /\ UNCHANGED <<daemonUp, socket, restVars, browser>>

\* The monitor thread decodes a packet, takes a snapshot of the subscribers and
\* writes the event to each of them.
MonitorPublishes ==
  /\ daemonUp
  /\ \/ /\ recorded' \in {recorded + 1} \intersect (1..MaxPackets)
        /\ Feed!Record
     \/ Feed!Publish
  /\ UNCHANGED <<daemonUp, serving, socket, restVars, browser>>

MonitorSends(s) ==
  /\ daemonUp
  /\ HasRoom(s)
  /\ Feed!Deliver(s)
  /\ WriteLine(s, recorded)
  /\ UNCHANGED <<daemonUp, serving, restVars, browser>>

DaemonExits ==
  /\ daemonUp
  /\ daemonUp' = FALSE
  /\ UNCHANGED <<feedVars, serving, socket, restVars, browser>>

-----------------------------------------------------------------------------
(***************************************************************************)
(* stream_events().                                                        *)
(***************************************************************************)
\* Mutant: rfile is made anew for every line, and what it had read ahead is lost.
ReadLine_Forgets(s) ==
  IF socket[s] # <<>>
  THEN [line |-> Head(socket[s]), rest |-> <<>>, left |-> <<>>]
  ELSE [line |-> Head(rfile[s]), rest |-> Tail(rfile[s]), left |-> <<>>]

\* rfile.readline(): a line read ahead is returned without a look at the socket;
\* otherwise one recv() takes everything the socket has.
ReadLine(s) ==
  IF rfile[s] # <<>>
  THEN [line |-> Head(rfile[s]), rest |-> Tail(rfile[s]), left |-> socket[s]]
  ELSE [line |-> Head(socket[s]), rest |-> Tail(socket[s]), left |-> <<>>]

LineThere(s) == rfile[s] \o socket[s] # <<>>
Eof(s) == ~daemonUp /\ ~LineThere(s)

\* sock.close(), by stream_events()'s finally clause: the daemon can no longer write.
Close(s) ==
  /\ Feed!HangUp(s)
  /\ client' = [client EXCEPT ![s] = "closed"]
  /\ socket' = [socket EXCEPT ![s] = <<>>]
  /\ rfile' = [rfile EXCEPT ![s] = <<>>]

\* The HTTP client asks for the stream: connect to the daemon and subscribe.  With
\* no daemon it is DaemonUnavailable, and nothing has been opened.
StreamOpens(s) ==
  /\ client[s] = "none"
  /\ IF daemonUp
     THEN /\ client' = [client EXCEPT ![s] = "ack"]
          /\ serving' = [serving EXCEPT ![s] = "subscribe"]
          /\ browser' = [browser EXCEPT ![s] = TRUE]
     ELSE /\ client' = [client EXCEPT ![s] = "closed"]
          /\ UNCHANGED <<serving, browser>>
  /\ UNCHANGED <<feedVars, daemonUp, socket, rfile, ack, event, sse>>

\* ack = rfile.readline(): whatever the first line is.
TakeAck(s) ==
  /\ client[s] = "ack"
  /\ LineThere(s)
  /\ ack' = [ack EXCEPT ![s] = <<ReadLine(s).line>>]
  /\ rfile' = [rfile EXCEPT ![s] = ReadLine(s).rest]
  /\ socket' = [socket EXCEPT ![s] = ReadLine(s).left]
  /\ client' = [client EXCEPT ![s] = "select"]
  /\ UNCHANGED <<feedVars, daemonUp, serving, event, browser, sse>>

\* The first readline() times out or finds the daemon gone: it raises.
AckFails(s) ==
  /\ client[s] = "ack"
  /\ ~LineThere(s)
  /\ Close(s)
  /\ UNCHANGED <<daemonUp, serving, ack, event, browser, sse>>

\* select.select([sock], ...): it sees the socket, not what rfile read ahead.
SelectReady(s) == socket[s] # <<>> \/ ~daemonUp

\* Mutant: a select() that timed out is repeated without yielding None.
AfterTimeout_Silent == "select"
AfterTimeout == "yield"

SelectTimesOut(s) ==
  /\ client[s] = "select"
  /\ ~SelectReady(s)
  /\ event' = [event EXCEPT ![s] = Keepalive]
  /\ client' = [client EXCEPT ![s] = AfterTimeout]
  /\ UNCHANGED <<feedVars, daemonUp, serving, socket, rfile, ack, browser, sse>>

TakeLine(s) ==
  /\ client[s] = "select"
  /\ SelectReady(s) /\ LineThere(s)
  /\ event' = [event EXCEPT ![s] = ReadLine(s).line]
  /\ rfile' = [rfile EXCEPT ![s] = ReadLine(s).rest]
  /\ socket' = [socket EXCEPT ![s] = ReadLine(s).left]
  /\ client' = [client EXCEPT ![s] = "yield"]
  /\ UNCHANGED <<feedVars, daemonUp, serving, ack, browser, sse>>

\* readline() returns "": the daemon is gone, and the generator returns.
StreamEnds(s) ==
  /\ client[s] = "select"
  /\ Eof(s)
  /\ Close(s)
  /\ UNCHANGED <<daemonUp, serving, ack, event, browser, sse>>

-----------------------------------------------------------------------------
(***************************************************************************)
(* _h_monitor_stream() and the HTTP client.                                *)
(***************************************************************************)
\* Mutant: None is sent as data, like an event.
Data_Null(s) == <<event[s]>>

\* A keepalive is a comment of the stream: no data.
Data(s) == IF event[s] = Keepalive THEN <<>> ELSE <<event[s]>>

\* self.wfile.write(chunk); the HTTP client may keep it waiting.
WriteChunk(s) ==
  /\ client[s] = "yield"
  /\ browser[s]
  /\ sse' = [sse EXCEPT ![s] = @ \o Data(s)]
  /\ client' = [client EXCEPT ![s] = "select"]
  /\ UNCHANGED <<feedVars, daemonUp, serving, socket, rfile, ack, event, browser>>

\* BrokenPipeError: the loop is left, which closes the generator.
WriteFails(s) ==
  /\ client[s] = "yield"
  /\ ~browser[s]
  /\ Close(s)
  /\ UNCHANGED <<daemonUp, serving, ack, event, browser, sse>>

BrowserLeaves(s) ==
  /\ browser[s]
  /\ browser' = [browser EXCEPT ![s] = FALSE]
  /\ UNCHANGED <<feedVars, daemonUp, serving, socket, restVars>>

-----------------------------------------------------------------------------
HandlerStep(s) == HandlerJoins(s) \/ HandlerReplies(s) \/ HandlerFinishes(s)

Generator(s) ==
  TakeAck(s) \/ AckFails(s) \/ SelectTimesOut(s) \/ TakeLine(s) \/ StreamEnds(s)

StreamNext ==
  \/ MonitorPublishes
  \/ DaemonExits
  \/ \E s \in Streams :
       \/ HandlerStep(s) \/ MonitorSends(s)
       \/ StreamOpens(s) \/ Generator(s)
       \/ WriteChunk(s) \/ WriteFails(s) \/ BrowserLeaves(s)

StreamSpec == StreamInit /\ [][StreamNext]_streamVars

\* The threads run.  A write to an HTTP client that stays is not assumed to end.
Fairness ==
  \A s \in Streams :
    WF_streamVars(HandlerStep(s)) /\ WF_streamVars(Generator(s)) /\ WF_streamVars(WriteFails(s))

FairSpec == StreamSpec /\ Fairness

\* The HTTP clients read their streams, too.
ReadingSpec == FairSpec /\ \A s \in Streams : WF_streamVars(WriteChunk(s))

-----------------------------------------------------------------------------
StreamTypeOK ==
  /\ members \in SUBSET Streams /\ cut \in SUBSET Streams
  /\ recorded \in 0..MaxPackets
  /\ ready \in BOOLEAN
  /\ due \in SUBSET Streams
  /\ daemonUp \in BOOLEAN
  /\ serving \in [Streams -> {"none", "subscribe", "reply", "read", "gone"}]
  /\ client \in [Streams -> {"none", "ack", "select", "yield", "closed"}]
  /\ event \in [Streams -> 1..Keepalive \union {Ack}]
  /\ browser \in [Streams -> BOOLEAN]
  /\ \A s \in Streams :
       /\ feed[s] \in Seq(1..MaxPackets)
       /\ \A lines \in {socket[s], rfile[s], ack[s], sse[s]} :
            lines \in Seq(0..MaxPackets)

\* The lines of a connection: its events, with the response as the k-th line.
WithAck(events, k) ==
  [i \in 1..Len(events) + 1 |->
     IF i < k THEN events[i] ELSE IF i = k THEN Ack ELSE events[i - 1]]

\* stream_events() takes one line for the response, and the HTTP client gets what
\* follows it: the events that the daemon sent, in order and without gaps, and the
\* response once at most.  Only the very first event may be missing, when it came
\* before the response.
OnlyTheFirstEventIsLost ==
  \A s \in Streams :
    /\ sse[s] # <<>> => Len(ack[s]) = 1
    /\ \E k \in 1..Len(feed[s]) + 1 : IsPrefix(ack[s] \o sse[s], WithAck(feed[s], k))

\* A subscription does not outlive its HTTP client: the keepalive finds out that
\* it left although the channel is silent, and the daemon forgets the stream.
GoneBrowsersAreForgotten ==
  \A s \in Streams :
    (client[s] # "none" /\ ~browser[s]) ~> (s \notin members \/ ~daemonUp)

\* The last two do not hold (README, section 5), and no run checks them.
\* "yield each subsequent event dict": what stream_events() takes for the response
\* to its request is that response.
FirstLineIsTheAck == \A s \in Streams : ack[s] \in {<<>>, <<Ack>>}

\* "yield each subsequent event dict": a line that has been received is yielded,
\* as long as somebody iterates, and not held back until the next packet.
ReceivedLinesAreYielded ==
  \A s \in Streams : rfile[s] # <<>> ~> rfile[s] = <<>>
=============================================================================
