------------------------------ MODULE KamDaemon ------------------------------
(***************************************************************************)
(* kamxl_daemon.py: KAMDaemon and its threads.  One DaemonRequestHandler   *)
(* thread per client connection answers requests; one monitor thread polls *)
(* the KAM-XL for MONITOR text and pushes the packets it decodes to the    *)
(* subscribed connections.  They share the serial connection (_kam_lock),  *)
(* the subscriber set (_subscribers_lock), the station tracker             *)
(* (_stations_lock) and, per connection, a socket (_write_lock).           *)
(*                                                                         *)
(* A critical section that cannot block is one step; _kam_lock, held       *)
(* through a whole serial transaction, is a variable.  Packets are         *)
(* numbered in the order the TNC prints their headers, and text is         *)
(* whatever headers it contains: PacketParser models how text becomes      *)
(* packets.                                                                *)
(***************************************************************************)
EXTENDS Naturals, Sequences

CONSTANTS
  Handlers,     \* connections, and the threads that handle them
  Monitor,      \* the thread that runs _monitor_loop()
  NoThread,     \* nobody
  MaxPackets,   \* bound: packets heard on the air
  MaxRequests,  \* bound: requests of all clients together
  SocketRoom    \* lines a socket holds before a write blocks

ASSUME DaemonAssumption ==
  /\ Monitor \notin Handlers
  /\ NoThread \notin Handlers \union {Monitor}
  /\ MaxPackets \in Nat
  /\ MaxRequests \in Nat
  /\ SocketRoom \in Nat \ {0}

VARIABLES
  kamLock,      \* who holds _kam_lock, or NoThread
  kamOpen,      \* kam.is_connected
  onAir,        \* packets the TNC has printed so far
  wire,         \* of those, the ones not yet read from the serial port
  monPc,        \* where the monitor thread is; "dead" once it has ended
  monStop,      \* _monitor_stop
  draining,     \* the monitor thread has left its loop: the final flush()
  pending,      \* its parser's unfinished packet, or 0
  completed,    \* the packets feed()/flush() returned and not yet broadcast
  targets,      \* of the snapshot of subscribers, those not yet written to
  writing,      \* whose socket the monitor has written but not flushed
  stations,     \* the last packet the StationTracker was updated with
  subscribers,  \* _subscribers
  hpc,          \* where each handler is
  subscribed,   \* its _subscribed flag
  client,       \* its client has the connection open
  asked,        \* requests sent so far, by every client
  sent,         \* the packets whose events were written to its socket
  unread,       \* lines written to its socket that the client has not read
  down          \* how far shutdown() has come: "up", "stopped", "closed"

monVars == <<monPc, monStop, draining, pending, completed, targets, writing>>
handlerVars == <<hpc, subscribed, asked>>
socketVars == <<client, sent, unread>>
vars == <<kamLock, kamOpen, onAir, wire, monVars, stations, subscribers,
          handlerVars, socketVars, down>>

Threads == Handlers \union {Monitor}
Methods == {"kam", "plain", "subscribe", "unsubscribe", "garbage"}

Init ==
  /\ kamLock = NoThread
  /\ kamOpen = TRUE
  /\ onAir = 0
  /\ wire = <<>>
  /\ monPc = "test"
  /\ monStop = FALSE
  /\ draining = FALSE
  /\ pending = 0
  /\ completed = <<>>
  /\ targets = {}
  /\ writing = NoThread
  /\ stations = 0
  /\ subscribers = {}
  /\ hpc = [h \in Handlers |-> "none"]
  /\ subscribed = [h \in Handlers |-> FALSE]
  /\ client = [h \in Handlers |-> FALSE]
  /\ asked = 0
  /\ sent = [h \in Handlers |-> <<>>]
  /\ unread = [h \in Handlers |-> 0]
  /\ down = "up"

-----------------------------------------------------------------------------
(***************************************************************************)
(* The radio and the clients.                                              *)
(***************************************************************************)
Hear ==
  /\ onAir < MaxPackets
  /\ onAir' = onAir + 1
  /\ wire' = Append(wire, onAir')
  /\ UNCHANGED <<kamLock, kamOpen, monVars, stations, subscribers,
                 handlerVars, socketVars, down>>

ClientConnects(h) ==
  /\ hpc[h] = "none"
  /\ hpc' = [hpc EXCEPT ![h] = "read"]
  /\ client' = [client EXCEPT ![h] = TRUE]
  /\ UNCHANGED <<kamLock, kamOpen, onAir, wire, monVars, stations, subscribers,
                 subscribed, asked, sent, unread, down>>

ClientReads(h) ==
  /\ client[h] /\ unread[h] > 0
  /\ unread' = [unread EXCEPT ![h] = @ - 1]
  /\ UNCHANGED <<kamLock, kamOpen, onAir, wire, monVars, stations, subscribers,
                 handlerVars, client, sent, down>>

ClientCloses(h) ==
  /\ client[h]
  /\ client' = [client EXCEPT ![h] = FALSE]
  /\ UNCHANGED <<kamLock, kamOpen, onAir, wire, monVars, stations, subscribers,
                 handlerVars, sent, unread, down>>

-----------------------------------------------------------------------------
(***************************************************************************)
(* _monitor_loop(), _handle_packet() and _broadcast_packet().              *)
(***************************************************************************)
\* A subscriber's socket takes a line, or fails the write with an OSError.
Writable(h) == client[h] /\ hpc[h] # "gone"
HasRoom(h) == unread[h] < SocketRoom

\* finish() has closed wfile, though the socket may still be open.
WfileClosed(h) == hpc[h] \in {"closed", "gone"}

\* while not self._monitor_stop.is_set(); after the loop, parser.flush().
MonTest ==
  /\ monPc = "test"
  /\ IF monStop
     THEN /\ draining' = TRUE
          /\ completed' = IF pending = 0 THEN <<>> ELSE <<pending>>
          /\ pending' = 0
          /\ monPc' = "handle"
     ELSE /\ monPc' = "lock"
          /\ UNCHANGED <<draining, completed, pending>>
  /\ UNCHANGED <<kamLock, kamOpen, onAir, wire, monStop, targets, writing,
                 stations, subscribers, handlerVars, socketVars, down>>

\* Mutant: the poll goes ahead without the lock.
MonMayRead_Always == TRUE
MonMayRead == kamLock = NoThread

MonLock ==
  /\ monPc = "lock"
  /\ MonMayRead
  /\ kamLock' = Monitor
  /\ monPc' = "read"
  /\ UNCHANGED <<kamOpen, onAir, wire, monStop, draining, pending, completed,
                 targets, writing, stations, subscribers, handlerVars,
                 socketVars, down>>

\* Mutant: the packet still being assembled is returned too.
FedWith_Early(heard) ==
  LET all == IF pending = 0 THEN heard ELSE <<pending>> \o heard
  IN  [done |-> all, rest |-> IF all = <<>> THEN 0 ELSE all[Len(all)]]

\* Mutant: a header finalizes a packet although none is being assembled.
FedWith_NoPending(heard) ==
  LET all == <<pending>> \o heard
  IN  [done |-> SubSeq(all, 1, Len(all) - 1), rest |-> all[Len(all)]]

\* feed(): every packet but the last one heard is complete.
FedWith(heard) ==
  LET all == IF pending = 0 THEN heard ELSE <<pending>> \o heard
  IN  IF all = <<>>
      THEN [done |-> <<>>, rest |-> 0]
      ELSE [done |-> SubSeq(all, 1, Len(all) - 1), rest |-> all[Len(all)]]

\* Mutant: only a poll that heard nothing gives the lock back.
LockAfterPoll_Kept == IF wire = <<>> THEN NoThread ELSE Monitor
LockAfterPoll == NoThread

\* read_available() under the lock, then parser.feed() after releasing it.
MonRead ==
  /\ monPc = "read"
  /\ kamOpen
  /\ wire' = <<>>
  /\ completed' = FedWith(wire).done
  /\ pending' = FedWith(wire).rest
  /\ monPc' = "handle"
  /\ kamLock' = LockAfterPoll
  /\ UNCHANGED <<kamOpen, onAir, monStop, draining, targets, writing, stations,
                 subscribers, handlerVars, socketVars, down>>

\* The thread ends: its parser and what it held are lost with it.
MonEnds ==
  /\ monPc' = "dead"
  /\ pending' = 0
  /\ completed' = <<>>
  /\ targets' = {}
  /\ writing' = NoThread
  /\ UNCHANGED <<monStop, draining>>

\* read_available() raises: nothing in the thread catches it.
MonReadRaises ==
  /\ monPc = "read"
  /\ ~kamOpen
  /\ kamLock' = NoThread
  /\ MonEnds
  /\ UNCHANGED <<kamOpen, onAir, wire, stations, subscribers, handlerVars,
                 socketVars, down>>

\* Mutant: the packet is broadcast before the tracker is told of it.
Tracked_Late(p) == stations
Tracked(p) == p

\* _handle_packet(): self._stations.update(packet), before the broadcast.
MonUpdate ==
  /\ monPc = "handle"
  /\ completed # <<>>
  /\ stations' = Tracked(Head(completed))
  /\ monPc' = "snapshot"
  /\ UNCHANGED <<kamLock, kamOpen, onAir, wire, monStop, draining, pending,
                 completed, targets, writing, subscribers, handlerVars,
                 socketVars, down>>

MonHandled ==
  /\ monPc = "handle"
  /\ completed = <<>>
  /\ IF draining
     THEN MonEnds
     ELSE /\ monPc' = "test"
          /\ UNCHANGED <<monStop, draining, pending, completed, targets, writing>>
  /\ UNCHANGED <<kamLock, kamOpen, onAir, wire, stations, subscribers,
                 handlerVars, socketVars, down>>

\* subscribers = list(self._subscribers), under the lock that guards it.
MonSnapshot ==
  /\ monPc = "snapshot"
  /\ targets' = subscribers
  /\ monPc' = "send"
  /\ UNCHANGED <<kamLock, kamOpen, onAir, wire, monStop, draining, pending,
                 completed, writing, stations, subscribers, handlerVars,
                 socketVars, down>>

\* send_event(): write() in full, which waits while the client's socket is full.
MonWrite(h) ==
  /\ monPc = "send"
  /\ h \in targets
  /\ Writable(h) /\ HasRoom(h)
  /\ sent' = [sent EXCEPT ![h] = Append(@, Head(completed))]
  /\ unread' = [unread EXCEPT ![h] = @ + 1]
  /\ targets' = targets \ {h}
  /\ writing' = h
  /\ monPc' = "flush"
  /\ UNCHANGED <<kamLock, kamOpen, onAir, wire, monStop, draining, pending,
                 completed, stations, subscribers, handlerVars, client, down>>

\* write() raises OSError: the client is gone, and _send() ignores it.
MonWriteFails(h) ==
  /\ monPc = "send"
  /\ h \in targets
  /\ ~Writable(h)
  /\ targets' = targets \ {h}
  /\ UNCHANGED <<kamLock, kamOpen, onAir, wire, monPc, monStop, draining,
                 pending, completed, writing, stations, subscribers,
                 handlerVars, socketVars, down>>

MonFlush ==
  /\ monPc = "flush"
  /\ ~WfileClosed(writing)
  /\ writing' = NoThread
  /\ monPc' = "send"
  /\ UNCHANGED <<kamLock, kamOpen, onAir, wire, monStop, draining, pending,
                 completed, targets, stations, subscribers, handlerVars,
                 socketVars, down>>

\* flush() of a closed wfile raises ValueError, which _send() does not catch.
MonFlushRaises ==
  /\ monPc = "flush"
  /\ WfileClosed(writing)
  /\ MonEnds
  /\ UNCHANGED <<kamLock, kamOpen, onAir, wire, stations, subscribers,
                 handlerVars, socketVars, down>>

MonSent ==
  /\ monPc = "send"
  /\ targets = {}
  /\ completed' = Tail(completed)
  /\ monPc' = "handle"
  /\ UNCHANGED <<kamLock, kamOpen, onAir, wire, monStop, draining, pending,
                 targets, writing, stations, subscribers, handlerVars,
                 socketVars, down>>

MonStep ==
  \/ MonTest \/ MonLock \/ MonRead \/ MonReadRaises \/ MonUpdate \/ MonHandled
  \/ MonSnapshot \/ MonFlush \/ MonFlushRaises \/ MonSent
  \/ \E h \in Handlers : MonWrite(h) \/ MonWriteFails(h)

\* _ensure_monitor_thread(): a thread that has ended is replaced by a new one.
EnsureMonitor ==
  IF monPc # "dead"
  THEN UNCHANGED monVars
  ELSE /\ monPc' = "test"
       /\ monStop' = FALSE
       /\ draining' = FALSE
       /\ UNCHANGED <<pending, completed, targets, writing>>

-----------------------------------------------------------------------------
(***************************************************************************)
(* DaemonRequestHandler: handle(), _send(), finish().                      *)
(***************************************************************************)
\* Where each method starts.  "plain" ones leave the KAM-XL alone: ping, stations.*,
\* the winlink_api calls, and the errors.  A line that is JSON but no object is not
\* answered: request.get() raises, and the handler goes to finish() with its
\* client still there.
EntryPoint ==
  [kam |-> "lock", plain |-> "reply", subscribe |-> "add",
   unsubscribe |-> "remove", garbage |-> "finish"]

Request(h, method) ==
  /\ hpc[h] = "read"
  /\ client[h]
  /\ asked < MaxRequests
  /\ asked' = asked + 1
  /\ hpc' = [hpc EXCEPT ![h] = EntryPoint[method]]
  /\ UNCHANGED <<kamLock, kamOpen, onAir, wire, monVars, stations, subscribers,
                 subscribed, socketVars, down>>

\* self._subscribed = True, then add_subscriber()'s critical section.
AddSubscriber(h) ==
  /\ hpc[h] = "add"
  /\ subscribed' = [subscribed EXCEPT ![h] = TRUE]
  /\ subscribers' = subscribers \union {h}
  /\ hpc' = [hpc EXCEPT ![h] = "ensure"]
  /\ UNCHANGED <<kamLock, kamOpen, onAir, wire, monVars, stations, asked,
                 socketVars, down>>

\* add_subscriber() ensures that the thread runs, and then dispatch() does again.
HandlerEnsures(h) ==
  /\ hpc[h] \in {"ensure", "dispatch"}
  /\ EnsureMonitor
  /\ hpc' = [hpc EXCEPT ![h] = IF @ = "ensure" THEN "dispatch" ELSE "reply"]
  /\ UNCHANGED <<kamLock, kamOpen, onAir, wire, stations, subscribers, 
                 subscribed, asked, socketVars, down>>

\* Mutant: monitor.unsubscribe leaves the flag as it was.
FlagOff_Kept(h) == subscribed[h]
FlagOff(h) == FALSE

RemoveSubscriber(h) ==
  /\ hpc[h] = "remove"
  /\ subscribed' = [subscribed EXCEPT ![h] = FlagOff(h)]
  /\ subscribers' = subscribers \ {h}
  /\ hpc' = [hpc EXCEPT ![h] = "reply"]
  /\ UNCHANGED <<kamLock, kamOpen, onAir, wire, monVars, stations, asked,
                 socketVars, down>>

\* with self._kam_lock: one call of the driver.
KamBegin(h) ==
  /\ hpc[h] = "lock"
  /\ kamLock = NoThread
  /\ kamLock' = h
  /\ hpc' = [hpc EXCEPT ![h] = "driver"]
  /\ UNCHANGED <<kamOpen, onAir, wire, monVars, stations, subscribers, 
                 subscribed, asked, socketVars, down>>

\* A call discards or swallows what the serial port has: reset_input_buffer(),
\* _drain_input(), or MONITOR text read together with the response.
KamSwallows(h) ==
  /\ hpc[h] = "driver"
  /\ kamOpen
  /\ wire # <<>>
  /\ wire' = <<>>
  /\ UNCHANGED <<kamLock, kamOpen, onAir, monVars, stations, subscribers,
                 handlerVars, socketVars, down>>

\* The call returns or raises, and the with statement releases the lock.
KamEnd(h) ==
  /\ hpc[h] = "driver"
  /\ kamLock' = NoThread
  /\ hpc' = [hpc EXCEPT ![h] = "reply"]
  /\ UNCHANGED <<kamOpen, onAir, wire, monVars, stations, subscribers, 
                 subscribed, asked, socketVars, down>>

\* _send() of the response; its OSError is ignored like the monitor's.
Reply(h) ==
  /\ hpc[h] = "reply"
  /\ \/ /\ Writable(h) /\ HasRoom(h)
        /\ unread' = [unread EXCEPT ![h] = @ + 1]
     \/ /\ ~Writable(h)
        /\ UNCHANGED unread
  /\ hpc' = [hpc EXCEPT ![h] = "read"]
  /\ UNCHANGED <<kamLock, kamOpen, onAir, wire, monVars, stations, subscribers,
                 subscribed, asked, client, sent, down>>

\* for raw_line in self.rfile ends, or reading raises: finish() follows.
HandlerEof(h) ==
  /\ hpc[h] = "read"
  /\ ~client[h]
  /\ hpc' = [hpc EXCEPT ![h] = "finish"]
  /\ UNCHANGED <<kamLock, kamOpen, onAir, wire, monVars, stations, subscribers,
                 subscribed, asked, socketVars, down>>

\* Mutant: finish() forgets that the connection was subscribed.
LeftBehind_Never(h) == subscribers
LeftBehind(h) == IF subscribed[h] THEN subscribers \ {h} ELSE subscribers

FinishRemoves(h) ==
  /\ hpc[h] = "finish"
  /\ subscribers' = LeftBehind(h)
  /\ hpc' = [hpc EXCEPT ![h] = "removed"]
  /\ UNCHANGED <<kamLock, kamOpen, onAir, wire, monVars, stations, 
                 subscribed, asked, socketVars, down>>

\* super().finish() closes wfile, and then the server closes the socket.
FinishCloses(h) ==
  /\ hpc[h] \in {"removed", "closed"}
  /\ hpc' = [hpc EXCEPT ![h] = IF @ = "removed" THEN "closed" ELSE "gone"]
  /\ UNCHANGED <<kamLock, kamOpen, onAir, wire, monVars, stations, subscribers,
                 subscribed, asked, socketVars, down>>

HandlerStep(h) ==
  \/ AddSubscriber(h) \/ HandlerEnsures(h) \/ RemoveSubscriber(h)
  \/ KamBegin(h) \/ KamSwallows(h) \/ KamEnd(h)
  \/ Reply(h) \/ HandlerEof(h) \/ FinishRemoves(h) \/ FinishCloses(h)

-----------------------------------------------------------------------------
(***************************************************************************)
(* The two effects of shutdown() on these threads, in its order.           *)
(* DaemonLifecycle models who calls it and what else it does.              *)
(***************************************************************************)
StopMonitor ==
  /\ down' = IF down = "up" THEN "stopped" ELSE down
  /\ monStop' = TRUE
  /\ UNCHANGED <<kamLock, kamOpen, onAir, wire, monPc, draining, pending,
                 completed, targets, writing, stations, subscribers,
                 handlerVars, socketVars>>

\* self.kam.disconnect(): shutdown() does not take _kam_lock for it.
DisconnectKam ==
  /\ down # "up"
  /\ down' = "closed"
  /\ kamOpen' = FALSE
  /\ UNCHANGED <<kamLock, onAir, wire, monVars, stations, subscribers,
                 handlerVars, socketVars>>

-----------------------------------------------------------------------------
ClientStep(h) ==
  \/ ClientConnects(h) \/ ClientReads(h) \/ ClientCloses(h)
  \/ \E method \in Methods : Request(h, method)

Next ==
  \/ Hear
  \/ MonStep
  \/ \E h \in Handlers : ClientStep(h) \/ HandlerStep(h)
  \/ down = "up" /\ StopMonitor
  \/ DisconnectKam

\* The threads run.  Python's locks are not fair, but the monitor sleeps 50 ms
\* between two polls with _kam_lock free, and clients send finitely many requests:
\* a thread that waits for the lock gets it.  Nothing is assumed of clients.
Fairness ==
  /\ WF_vars(MonStep)
  /\ SF_vars(MonLock)
  /\ \A h \in Handlers :
       /\ WF_vars(AddSubscriber(h) \/ HandlerEnsures(h) \/ RemoveSubscriber(h)
                    \/ KamEnd(h) \/ HandlerEof(h)
                    \/ FinishRemoves(h) \/ FinishCloses(h))
       /\ SF_vars(KamBegin(h))
       /\ WF_vars(Reply(h))

Spec == Init /\ [][Next]_vars
FairSpec == Spec /\ Fairness

-----------------------------------------------------------------------------
TypeOK ==
  /\ kamLock \in Threads \union {NoThread}
  /\ kamOpen \in BOOLEAN
  /\ onAir \in Nat
  /\ wire \in Seq(Nat \ {0})
  /\ monPc \in {"test", "lock", "read", "handle", "snapshot", "send", "flush",
                "dead"}
  /\ monStop \in BOOLEAN
  /\ draining \in BOOLEAN
  /\ pending \in Nat
  /\ completed \in Seq(Nat \ {0})
  /\ targets \in SUBSET Handlers
  /\ writing \in Handlers \union {NoThread}
  /\ stations \in Nat
  /\ subscribers \in SUBSET Handlers
  /\ hpc \in [Handlers -> {"none", "read", "lock", "driver", "add", "ensure",
                           "dispatch", "remove", "reply", "finish", "removed",
                           "closed", "gone"}]
  /\ subscribed \in [Handlers -> BOOLEAN]
  /\ client \in [Handlers -> BOOLEAN]
  /\ asked \in Nat
  /\ sent \in [Handlers -> Seq(Nat)]
  /\ unread \in [Handlers -> Nat]
  /\ down \in {"up", "stopped", "closed"}

\* The threads that are inside a call of the driver that took the lock.
InDriver ==
  {h \in Handlers : hpc[h] = "driver"}
    \union (IF monPc = "read" THEN {Monitor} ELSE {})

\* Whoever is inside a locked call of the driver holds _kam_lock, and nobody else
\* does: two transactions never share the serial line.
OneTransactionAtATime ==
  InDriver = IF kamLock = NoThread THEN {} ELSE {kamLock}

\* A connection whose handler is through with finish() is in nobody's way: it is
\* not in the subscriber set, where it would stay for ever.
NoSubscriberLeaks ==
  \A h \in subscribers : hpc[h] \notin {"none", "removed", "closed", "gone"}

\* A handler's _subscribed flag and the set agree whenever it waits for a request,
\* so that finish() knows whether to remove it.
FlagMatchesSet ==
  \A h \in Handlers : hpc[h] = "read" => (subscribed[h] <=> h \in subscribers)

\* A packet event a client has been sent is in the station tracker already: a
\* client that asks stations.get about it never gets an older answer.
StationsKnowEverySentPacket ==
  \A h \in Handlers : \A i \in 1..Len(sent[h]) : sent[h][i] <= stations

\* A request that waits for _kam_lock gets its turn, although another client that
\* never reads its socket may block the broadcast for ever.
KamRequestsAreServed ==
  \A h \in Handlers : hpc[h] = "lock" ~> hpc[h] = "reply"

\* The monitor thread runs until shutdown() stops it.
MonitorRunsUntilShutdown == monPc = "dead" => down # "up"

-----------------------------------------------------------------------------
(***************************************************************************)
(* The daemon keeps the promise of MonitorFeed.                            *)
(***************************************************************************)
Unreachable == {h \in Handlers : hpc[h] = "gone" \/ (~client[h] /\ hpc[h] # "none")}

Feed == INSTANCE MonitorFeed WITH
  members  <- subscribers,
  cut      <- Unreachable,
  recorded <- stations,
  ready    <- monPc = "snapshot",
  due      <- targets \ Unreachable,
  feed     <- sent

KeepsFeedPromise == Feed!Spec
=============================================================================
