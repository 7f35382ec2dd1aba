--------------------------- MODULE KamDaemonProofs ---------------------------
(***************************************************************************)
(* Theorems about KamDaemon, and about the process it runs in              *)
(* (DaemonLifecycle), for any number of connections, packets and requests. *)
(***************************************************************************)
EXTENDS DaemonLifecycle, SequenceTheorems, TLAPS

(***************************************************************************)
(* Sequences of packets, and what feed() makes of them.                    *)
(***************************************************************************)
Packets == Nat \ {0}

LEMMA NoPackets == <<>> \in Seq(Packets) /\ <<>> \in Seq(Nat)
BY EmptySeq

LEMMA OnePacket ==
  ASSUME NEW p \in Packets
  PROVE  <<p>> \in Seq(Packets) /\ Len(<<p>>) = 1 /\ <<p>>[1] = p
OBVIOUS

LEMMA RestOfPackets ==
  ASSUME NEW s \in Seq(Packets), s # <<>>
  PROVE  /\ Len(s) \in Nat /\ Len(s) >= 1
         /\ Head(s) = s[1] /\ Head(s) \in Packets
         /\ Tail(s) \in Seq(Packets)
         /\ Len(Tail(s)) = Len(s) - 1
         /\ \A i \in 1..Len(Tail(s)) : Tail(s)[i] = s[i + 1]
<1>1. Len(s) \in Nat /\ Len(s) >= 1
  BY EmptySeq
<1>2. Head(s) = s[1]
  OBVIOUS
<1> QED
  BY <1>1, <1>2, HeadTailProperties

LEMMA FirstPackets ==
  ASSUME NEW s, NEW n \in Nat, \A i \in 1..n : s[i] \in Packets
  PROVE  /\ SubSeq(s, 1, n) \in Seq(Packets)
         /\ Len(SubSeq(s, 1, n)) = n
         /\ \A i \in 1..n : SubSeq(s, 1, n)[i] = s[i]
<1>1. /\ SubSeq(s, 1, n) \in Seq(Packets)
      /\ Len(SubSeq(s, 1, n)) = IF 1 <= n THEN n - 1 + 1 ELSE 0
      /\ \A i \in 1..(n - 1 + 1) : SubSeq(s, 1, n)[i] = s[1 + i - 1]
  <2>1. 1 \in Int /\ n \in Int
    OBVIOUS
  <2> QED
    BY <2>1, SubSeqProperties
<1> QED
  BY <1>1

\* All the packets feed() knows of, the one being assembled first.
Known(heard) == IF pending = 0 THEN heard ELSE <<pending>> \o heard

LEMMA KnownPackets ==
  ASSUME pending \in Nat, NEW heard \in Seq(Packets)
  PROVE  /\ Known(heard) \in Seq(Packets)
         /\ pending = 0 => Known(heard) = heard
         /\ pending # 0 =>
              /\ Len(Known(heard)) = Len(heard) + 1
              /\ Known(heard)[1] = pending
              /\ \A i \in 1..Len(heard) : Known(heard)[i + 1] = heard[i]
<1>1. CASE pending = 0
  BY <1>1 DEF Known
<1>2. CASE pending # 0
  <2>1. <<pending>> \in Seq(Packets) /\ Len(<<pending>>) = 1 /\ <<pending>>[1] = pending
    BY <1>2 DEF Packets
  <2>2. Len(heard) \in Nat
    BY LenProperties
  <2>3. /\ Known(heard) \in Seq(Packets)
        /\ Len(Known(heard)) = 1 + Len(heard)
        /\ \A i \in 1..(1 + Len(heard)) : Known(heard)[i] =
              IF i <= 1 THEN <<pending>>[i] ELSE heard[i - 1]
    BY <1>2, <2>1, ConcatProperties DEF Known
  <2> QED
    BY <1>2, <2>1, <2>2, <2>3
<1> QED
  BY <1>1, <1>2

\* feed() returns all the packets it knows of but the last, which it keeps.
LEMMA FedWithProperties ==
  ASSUME pending \in Nat, NEW heard \in Seq(Packets)
  PROVE  LET all == Known(heard) IN
         /\ FedWith(heard).done \in Seq(Packets)
         /\ FedWith(heard).rest \in Nat
         /\ all = <<>> => FedWith(heard).done = <<>> /\ FedWith(heard).rest = 0
         /\ all # <<>> =>
              /\ Len(all) \in Nat \ {0}
              /\ FedWith(heard).rest = all[Len(all)]
              /\ FedWith(heard).rest \in Packets
              /\ Len(FedWith(heard).done) = Len(all) - 1
              /\ \A i \in 1..(Len(all) - 1) : FedWith(heard).done[i] = all[i]
<1> DEFINE all == Known(heard)
<1>1. all \in Seq(Packets)
  BY KnownPackets
<1>2. FedWith(heard) = IF all = <<>> THEN [done |-> <<>>, rest |-> 0]
                       ELSE [done |-> SubSeq(all, 1, Len(all) - 1),
                             rest |-> all[Len(all)]]
  BY DEF FedWith, Known
<1> HIDE DEF all
<1>3. CASE all = <<>>
  BY <1>2, <1>3, NoPackets DEF all
<1>4. CASE all # <<>>
  <2>1. Len(all) \in Nat \ {0}
    BY <1>1, <1>4, EmptySeq
  <2>2. \A i \in 1..Len(all) : all[i] \in Packets
    BY <1>1, ElementOfSeq
  <2>3. /\ SubSeq(all, 1, Len(all) - 1) \in Seq(Packets)
        /\ Len(SubSeq(all, 1, Len(all) - 1)) = Len(all) - 1
        /\ \A i \in 1..(Len(all) - 1) : SubSeq(all, 1, Len(all) - 1)[i] = all[i]
    <3>1. Len(all) - 1 \in Nat /\ \A i \in 1..(Len(all) - 1) : all[i] \in Packets
      BY <2>1, <2>2
    <3> QED
      BY <3>1, FirstPackets
  <2>4. all[Len(all)] \in Packets
    BY <2>1, <2>2
  <2> QED
    BY <1>2, <1>4, <2>1, <2>3, <2>4 DEF all, Packets
<1> QED
  BY <1>3, <1>4

-----------------------------------------------------------------------------
\* A broadcast is about the first of the packets still to be handled.
RoundInv == monPc \in {"snapshot", "send", "flush"} => completed # <<>>

Typed == TypeOK /\ RoundInv

LEMMA TypeInit == Init => Typed
<1> SUFFICES ASSUME Init PROVE Typed
  OBVIOUS
<1>1. wire \in Seq(Nat \ {0}) /\ completed \in Seq(Nat \ {0})
  BY NoPackets DEF Init, Packets
<1>2. sent \in [Handlers -> Seq(Nat)]
  BY NoPackets DEF Init
<1>3. subscribed \in [Handlers -> BOOLEAN] /\ client \in [Handlers -> BOOLEAN]
  BY DEF Init
<1> QED
  BY <1>1, <1>2, <1>3 DEF Init, Typed, RoundInv, TypeOK, Threads

\* Every step of the daemon, its clients and the radio keeps the variables in
\* their types.
LEMMA TypeStep == Typed /\ [Next]_vars => Typed'
<1> SUFFICES ASSUME Typed, [Next]_vars PROVE Typed'
  OBVIOUS
<1> USE DEF Typed, RoundInv, TypeOK, Threads, handlerVars, socketVars, monVars
<1>1. CASE Hear
  BY <1>1 DEF Hear
<1>2. CASE MonTest
  <2>1. <<pending>> \in Seq(Nat \ {0}) \/ pending = 0
    BY OnePacket DEF Packets
  <2>2. CASE monStop
    <3>1. completed' \in Seq(Nat \ {0})
      BY <1>2, <2>1, <2>2, NoPackets DEF MonTest, Packets
    <3> QED
      BY <1>2, <2>2, <3>1 DEF MonTest
  <2>3. CASE ~monStop
    BY <1>2, <2>3 DEF MonTest
  <2> QED
    BY <2>2, <2>3
<1>3. CASE MonLock
  BY <1>3 DEF MonLock
<1>4. CASE MonRead
  <2>1. FedWith(wire).done \in Seq(Nat \ {0}) /\ FedWith(wire).rest \in Nat
    BY FedWithProperties DEF Packets
  <2> QED
    BY <1>4, <2>1, NoPackets DEF MonRead, LockAfterPoll, Packets
<1>5. CASE MonReadRaises
  BY <1>5, NoPackets DEF MonReadRaises, MonEnds, Packets
<1>6. CASE MonUpdate
  BY <1>6 DEF MonUpdate, Tracked
<1>7. CASE MonHandled
  <2>1. CASE draining
    BY <1>7, <2>1, NoPackets DEF MonHandled, MonEnds, Packets
  <2>2. CASE ~draining
    BY <1>7, <2>2 DEF MonHandled
  <2> QED
    BY <2>1, <2>2
<1>8. CASE MonSnapshot
  BY <1>8 DEF MonSnapshot
<1>9. CASE MonFlush
  BY <1>9 DEF MonFlush
<1>10. CASE MonFlushRaises
  BY <1>10, NoPackets DEF MonFlushRaises, MonEnds, Packets
<1>11. CASE MonSent
  <2>1. Tail(completed) \in Seq(Nat \ {0})
    BY <1>11, RestOfPackets DEF MonSent, Packets
  <2> QED
    BY <1>11, <2>1 DEF MonSent
<1>12. ASSUME NEW h \in Handlers, MonWrite(h) PROVE Typed'
  <2>1. Head(completed) \in Nat
    BY <1>12, RestOfPackets DEF MonWrite, Packets
  <2>2. Append(sent[h], Head(completed)) \in Seq(Nat)
    BY <2>1, AppendProperties
  <2> QED
    BY <1>12, <2>2 DEF MonWrite
<1>13. ASSUME NEW h \in Handlers, MonWriteFails(h) PROVE Typed'
  BY <1>13 DEF MonWriteFails
<1>14. ASSUME NEW h \in Handlers, ClientConnects(h) PROVE Typed'
  BY <1>14 DEF ClientConnects
<1>15. ASSUME NEW h \in Handlers, ClientReads(h) PROVE Typed'
  BY <1>15 DEF ClientReads
<1>16. ASSUME NEW h \in Handlers, ClientCloses(h) PROVE Typed'
  BY <1>16 DEF ClientCloses
<1>17. ASSUME NEW h \in Handlers, NEW m \in Methods, Request(h, m) PROVE Typed'
  BY <1>17 DEF Request, EntryPoint, Methods
<1>18. ASSUME NEW h \in Handlers, AddSubscriber(h) PROVE Typed'
  BY <1>18 DEF AddSubscriber
<1>19. ASSUME NEW h \in Handlers, HandlerEnsures(h) PROVE Typed'
  <2>1. EnsureMonitor /\ hpc' = [hpc EXCEPT ![h] = IF @ = "ensure" THEN "dispatch" ELSE "reply"]
    BY <1>19 DEF HandlerEnsures
  <2>2. CASE monPc # "dead"
    <3>1. UNCHANGED monVars
      BY <2>1, <2>2 DEF EnsureMonitor
    <3> QED
      BY <1>19, <2>1, <3>1 DEF HandlerEnsures
  <2>3. CASE monPc = "dead"
    <3>1. /\ monPc' = "test" /\ monStop' = FALSE /\ draining' = FALSE
          /\ UNCHANGED <<pending, completed, targets, writing>>
      BY <2>1, <2>3 DEF EnsureMonitor
    <3> QED
      BY <1>19, <2>1, <3>1 DEF HandlerEnsures
  <2> QED
    BY <2>2, <2>3
<1>20. ASSUME NEW h \in Handlers, RemoveSubscriber(h) PROVE Typed'
  BY <1>20 DEF RemoveSubscriber, FlagOff
<1>21. ASSUME NEW h \in Handlers, KamBegin(h) PROVE Typed'
  BY <1>21 DEF KamBegin
<1>22. ASSUME NEW h \in Handlers, KamSwallows(h) PROVE Typed'
  BY <1>22 DEF KamSwallows
<1>23. ASSUME NEW h \in Handlers, KamEnd(h) PROVE Typed'
  BY <1>23 DEF KamEnd
<1>24. ASSUME NEW h \in Handlers, Reply(h) PROVE Typed'
  BY <1>24 DEF Reply
<1>25. ASSUME NEW h \in Handlers, HandlerEof(h) PROVE Typed'
  BY <1>25 DEF HandlerEof
<1>26. ASSUME NEW h \in Handlers, FinishRemoves(h) PROVE Typed'
  BY <1>26 DEF FinishRemoves, LeftBehind
<1>27. ASSUME NEW h \in Handlers, FinishCloses(h) PROVE Typed'
  BY <1>27 DEF FinishCloses
<1>28. CASE StopMonitor
  BY <1>28 DEF StopMonitor
<1>29. CASE DisconnectKam
  BY <1>29 DEF DisconnectKam
<1>30. CASE UNCHANGED vars
  BY <1>30 DEF vars
<1> QED
  BY <1>1, <1>2, <1>3, <1>4, <1>5, <1>6, <1>7, <1>8, <1>9, <1>10, <1>11, <1>12,
     <1>13, <1>14, <1>15, <1>16, <1>17, <1>18, <1>19, <1>20, <1>21, <1>22, <1>23,
     <1>24, <1>25, <1>26, <1>27, <1>28, <1>29, <1>30
  DEF Next, MonStep, ClientStep, HandlerStep

\* The variables keep their types.
THEOREM TypeCorrect == Spec => []TypeOK
BY TypeInit, TypeStep, PTL DEF Spec, Typed

-----------------------------------------------------------------------------
(***************************************************************************)
(* The lock.                                                               *)
(***************************************************************************)
LEMMA LockInit == Init => OneTransactionAtATime
BY DEF Init, OneTransactionAtATime, InDriver

\* Only the steps that enter and leave the driver matter: each of them takes or
\* gives back the lock with it.
LEMMA LockStep ==
  Typed /\ OneTransactionAtATime /\ [Next]_vars => OneTransactionAtATime'
<1> SUFFICES ASSUME Typed, OneTransactionAtATime, [Next]_vars
             PROVE  OneTransactionAtATime'
  OBVIOUS
<1> USE DaemonAssumption
    DEF Typed, TypeOK, Threads, OneTransactionAtATime, InDriver
<1>1. CASE MonLock
  BY <1>1 DEF MonLock, MonMayRead, handlerVars
<1>2. CASE MonRead
  BY <1>2 DEF MonRead, LockAfterPoll, handlerVars
<1>3. CASE MonReadRaises
  BY <1>3 DEF MonReadRaises, MonEnds, handlerVars
<1>4. ASSUME NEW h \in Handlers, KamBegin(h) PROVE OneTransactionAtATime'
  BY <1>4 DEF KamBegin, monVars
<1>5. ASSUME NEW h \in Handlers, KamEnd(h) PROVE OneTransactionAtATime'
  BY <1>5 DEF KamEnd, monVars
<1>6. ASSUME UNCHANGED <<kamLock, hpc>>, monPc # "read", monPc' # "read"
      PROVE  OneTransactionAtATime'
  BY <1>6
<1>7. ASSUME UNCHANGED <<kamLock, monPc>>, NEW h \in Handlers,
             hpc[h] # "driver", NEW label, label # "driver",
             hpc' = [hpc EXCEPT ![h] = label]
      PROVE  OneTransactionAtATime'
  BY <1>7
<1>8. ASSUME UNCHANGED <<kamLock, hpc, monPc>> PROVE OneTransactionAtATime'
  BY <1>8
<1>9. CASE MonTest \/ MonUpdate \/ MonHandled \/ MonSnapshot \/ MonFlush
             \/ MonFlushRaises \/ MonSent
  BY <1>6, <1>9 DEF MonTest, MonUpdate, MonHandled, MonSnapshot, MonFlush,
     MonFlushRaises, MonSent, MonEnds, handlerVars
<1>10. ASSUME NEW h \in Handlers, MonWrite(h) \/ MonWriteFails(h)
       PROVE  OneTransactionAtATime'
  BY <1>6, <1>10 DEF MonWrite, MonWriteFails, handlerVars
<1>11. ASSUME NEW h \in Handlers,
              \/ ClientConnects(h) \/ ClientReads(h) \/ ClientCloses(h)
              \/ KamSwallows(h)
       PROVE  OneTransactionAtATime'
  BY <1>7, <1>8, <1>11 DEF ClientConnects, ClientReads, ClientCloses, KamSwallows,
     handlerVars, monVars
<1>12. ASSUME NEW h \in Handlers, NEW m \in Methods, Request(h, m)
       PROVE  OneTransactionAtATime'
  BY <1>7, <1>12 DEF Request, EntryPoint, Methods, monVars
<1>13. ASSUME NEW h \in Handlers, AddSubscriber(h) \/ RemoveSubscriber(h)
       PROVE  OneTransactionAtATime'
  BY <1>7, <1>13 DEF AddSubscriber, RemoveSubscriber, monVars
<1>14. ASSUME NEW h \in Handlers, HandlerEnsures(h) PROVE OneTransactionAtATime'
  BY <1>14 DEF HandlerEnsures, EnsureMonitor, monVars
<1>15. ASSUME NEW h \in Handlers,
              Reply(h) \/ HandlerEof(h) \/ FinishRemoves(h) \/ FinishCloses(h)
       PROVE  OneTransactionAtATime'
  BY <1>7, <1>15 DEF Reply, HandlerEof, FinishRemoves, FinishCloses, monVars
<1>16. CASE Hear \/ StopMonitor \/ DisconnectKam \/ UNCHANGED vars
  BY <1>8, <1>16 DEF Hear, StopMonitor, DisconnectKam, vars, monVars, handlerVars
<1> QED
  BY <1>1, <1>2, <1>3, <1>4, <1>5, <1>9, <1>10, <1>11, <1>12, <1>13, <1>14, <1>15,
     <1>16 DEF Next, MonStep, ClientStep, HandlerStep

\* Two locked calls of the driver never overlap, whatever the number of clients.
THEOREM OneTransaction == Spec => []OneTransactionAtATime
<1>1. Init => Typed /\ OneTransactionAtATime
  BY TypeInit, LockInit
<1>2. /\ Typed /\ OneTransactionAtATime
      /\ [Next]_vars
      => (Typed /\ OneTransactionAtATime)'
  BY TypeStep, LockStep
<1> QED
  BY <1>1, <1>2, PTL DEF Spec

-----------------------------------------------------------------------------
(***************************************************************************)
(* The subscriber set.                                                     *)
(***************************************************************************)
Absent == {"none", "removed", "closed", "gone"}

\* What finish() relies on: the flag says whether the connection is in the set,
\* until it has been removed; and who is not connected yet is nowhere.
SubscriberInv ==
  \A h \in Handlers :
    /\ hpc[h] \in Absent => h \notin subscribers
    /\ hpc[h] \notin Absent => (subscribed[h] <=> h \in subscribers)
    /\ hpc[h] = "none" => ~subscribed[h] /\ ~client[h] /\ h \notin targets

LEMMA SubscriberInit == Init => SubscriberInv
BY DEF Init, SubscriberInv, Absent

LEMMA SubscriberStep == Typed /\ SubscriberInv /\ [Next]_vars => SubscriberInv'
<1> SUFFICES ASSUME Typed, SubscriberInv, [Next]_vars PROVE SubscriberInv'
  OBVIOUS
<1> USE DEF Typed, TypeOK, SubscriberInv, Absent, handlerVars, socketVars, monVars
<1>1. ASSUME UNCHANGED <<hpc, subscribed, subscribers, client>>,
             targets' \subseteq targets \union subscribers
      PROVE  SubscriberInv'
  BY <1>1
<1>2. CASE MonTest \/ MonLock \/ MonRead \/ MonReadRaises \/ MonUpdate
             \/ MonHandled \/ MonSnapshot \/ MonFlush \/ MonFlushRaises \/ MonSent
  <2>1. UNCHANGED <<hpc, subscribed, subscribers, client>>
    BY <1>2 DEF MonTest, MonLock, MonRead, MonReadRaises, MonUpdate, MonHandled,
       MonSnapshot, MonFlush, MonFlushRaises, MonSent
  <2>2. targets' \subseteq targets \union subscribers
    BY <1>2 DEF MonTest, MonLock, MonRead, MonReadRaises, MonUpdate, MonHandled,
       MonSnapshot, MonFlush, MonFlushRaises, MonSent, MonEnds
  <2> QED
    BY <1>1, <2>1, <2>2
<1>3. ASSUME NEW h \in Handlers, MonWrite(h) \/ MonWriteFails(h)
      PROVE  SubscriberInv'
  BY <1>1, <1>3 DEF MonWrite, MonWriteFails
<1>4. ASSUME NEW h \in Handlers, ClientConnects(h) PROVE SubscriberInv'
  BY <1>4 DEF ClientConnects
<1>5. ASSUME NEW h \in Handlers, ClientReads(h) PROVE SubscriberInv'
  BY <1>1, <1>5 DEF ClientReads
<1>6. ASSUME NEW h \in Handlers, ClientCloses(h) PROVE SubscriberInv'
  BY <1>6 DEF ClientCloses
<1>7. ASSUME NEW h \in Handlers, NEW m \in Methods, Request(h, m)
      PROVE  SubscriberInv'
  BY <1>7 DEF Request, EntryPoint, Methods
<1>8. ASSUME NEW h \in Handlers, AddSubscriber(h) PROVE SubscriberInv'
  BY <1>8 DEF AddSubscriber
<1>9. ASSUME NEW h \in Handlers, HandlerEnsures(h) PROVE SubscriberInv'
  BY <1>9 DEF HandlerEnsures, EnsureMonitor
<1>10. ASSUME NEW h \in Handlers, RemoveSubscriber(h) PROVE SubscriberInv'
  BY <1>10 DEF RemoveSubscriber, FlagOff
<1>11. ASSUME NEW h \in Handlers, KamBegin(h) \/ KamEnd(h) PROVE SubscriberInv'
  BY <1>11 DEF KamBegin, KamEnd
<1>12. ASSUME NEW h \in Handlers, KamSwallows(h) PROVE SubscriberInv'
  BY <1>1, <1>12 DEF KamSwallows
<1>13. ASSUME NEW h \in Handlers, Reply(h) \/ HandlerEof(h) PROVE SubscriberInv'
  BY <1>13 DEF Reply, HandlerEof
<1>14. ASSUME NEW h \in Handlers, FinishRemoves(h) PROVE SubscriberInv'
  BY <1>14 DEF FinishRemoves, LeftBehind
<1>15. ASSUME NEW h \in Handlers, FinishCloses(h) PROVE SubscriberInv'
  BY <1>15 DEF FinishCloses
<1>16. CASE Hear \/ StopMonitor \/ DisconnectKam \/ UNCHANGED vars
  BY <1>1, <1>16 DEF Hear, StopMonitor, DisconnectKam, vars
<1> QED
  BY <1>2, <1>3, <1>4, <1>5, <1>6, <1>7, <1>8, <1>9, <1>10, <1>11, <1>12, <1>13,
     <1>14, <1>15, <1>16 DEF Next, MonStep, ClientStep, HandlerStep

LEMMA SubscriberInvAlways == Spec => [](Typed /\ SubscriberInv)
<1>1. Init => Typed /\ SubscriberInv
  BY TypeInit, SubscriberInit
<1>2. Typed /\ SubscriberInv /\ [Next]_vars => (Typed /\ SubscriberInv)'
  BY TypeStep, SubscriberStep
<1> QED
  BY <1>1, <1>2, PTL DEF Spec

\* No connection stays in the subscriber set after finish(), whether its client
\* left the monitor, hung up, or was dropped by a failed broadcast.
THEOREM NoLeaks == Spec => []NoSubscriberLeaks
<1>1. Typed /\ SubscriberInv => NoSubscriberLeaks
  BY DEF Typed, TypeOK, SubscriberInv, Absent, NoSubscriberLeaks
<1> QED
  BY <1>1, SubscriberInvAlways, PTL

\* The flag that finish() looks at says whether the connection is in the set,
\* whenever no step of it is between the two.
THEOREM FlagMatches == Spec => []FlagMatchesSet
<1>1. Typed /\ SubscriberInv => FlagMatchesSet
  BY DEF Typed, TypeOK, SubscriberInv, Absent, FlagMatchesSet
<1> QED
  BY <1>1, SubscriberInvAlways, PTL

-----------------------------------------------------------------------------
(***************************************************************************)
(* The packets between the air and the clients: in the station tracker and *)
(* already broadcast, completed, pending in the parser, waiting on the     *)
(* serial line - in this order, each number at most once.                  *)
(***************************************************************************)
Increasing(s) == \A i, j \in 1..Len(s) : i < j => s[i] < s[j]

InRound == monPc \in {"snapshot", "send", "flush"}

Heard ==
  /\ stations <= onAir
  /\ pending <= onAir
  /\ \A i \in 1..Len(completed) : completed[i] <= onAir
  /\ \A i \in 1..Len(wire) : wire[i] <= onAir

InOrder ==
  /\ Increasing(completed)
  /\ Increasing(wire)
  /\ \A i \in 1..Len(completed) :
       /\ pending # 0 => completed[i] < pending
       /\ \A j \in 1..Len(wire) : completed[i] < wire[j]
  /\ \A j \in 1..Len(wire) : pending < wire[j] /\ stations < wire[j]
  /\ pending # 0 => stations < pending
  /\ IF InRound
     THEN stations = completed[1]
     ELSE \A i \in 1..Len(completed) : stations < completed[i]

Rounds ==
  /\ monPc \in {"test", "lock", "read", "dead"} => completed = <<>>
  /\ targets # {} => monPc \in {"send", "flush"}

QueueInv == Heard /\ InOrder /\ Rounds

LEMMA QueueInit == Init => QueueInv
BY EmptySeq DEF Init, QueueInv, Heard, InOrder, Rounds, Increasing, InRound

\* A new packet is later than all that were heard before.
LEMMA QueueHear == Typed /\ QueueInv /\ Hear => QueueInv'
<1> SUFFICES ASSUME Typed, QueueInv, Hear PROVE QueueInv'
  OBVIOUS
<1>1. /\ Len(wire) \in Nat
      /\ Len(wire') = Len(wire) + 1
      /\ \A i \in 1..Len(wire) : wire'[i] = wire[i] /\ wire[i] \in Nat
      /\ wire'[Len(wire) + 1] = onAir + 1
  <2>1. onAir + 1 \in Packets /\ wire' = Append(wire, onAir + 1)
    BY DEF Typed, TypeOK, Hear, Packets
  <2>2. wire \in Seq(Packets)
    BY DEF Typed, TypeOK, Packets
  <2> QED
    BY <2>1, <2>2, AppendProperties, ElementOfSeq, LenProperties DEF Packets
<1>2. onAir' = onAir + 1 /\ UNCHANGED <<monPc, pending, completed, targets, stations>>
  BY DEF Hear, monVars
<1>3. /\ onAir \in Nat /\ pending \in Nat /\ stations \in Nat
      /\ Len(completed) \in Nat
      /\ \A i \in 1..Len(completed) : completed[i] \in Nat
  BY ElementOfSeq, LenProperties DEF Typed, TypeOK
<1>4. Heard'
  BY <1>1, <1>2, <1>3 DEF QueueInv, Heard
<1>5. InOrder'
  <2>1. \A j \in 1..Len(wire') :
          \/ j \in 1..Len(wire) /\ wire'[j] = wire[j] /\ wire[j] \in Nat
                               /\ wire[j] <= onAir
          \/ j = Len(wire) + 1 /\ wire'[j] = onAir + 1
    BY <1>1 DEF QueueInv, Heard
  <2>2. Increasing(wire)'
    <3> SUFFICES ASSUME NEW i \in 1..Len(wire'), NEW j \in 1..Len(wire'), i < j
                 PROVE  wire'[i] < wire'[j]
      BY DEF Increasing
    <3>1. i \in 1..Len(wire) /\ wire'[i] = wire[i] /\ wire[i] \in Nat
                             /\ wire[i] <= onAir
      BY <1>1, <2>1
    <3>2. CASE j \in 1..Len(wire) /\ wire'[j] = wire[j]
      BY <3>1, <3>2 DEF QueueInv, InOrder, Increasing
    <3>3. CASE wire'[j] = onAir + 1
      BY <1>3, <3>1, <3>3
    <3> QED
      BY <2>1, <3>2, <3>3
  <2>3. ASSUME NEW j \in 1..Len(wire')
        PROVE  /\ \A i \in 1..Len(completed) : completed[i] < wire'[j]
               /\ pending < wire'[j] /\ stations < wire'[j]
    <3>1. CASE wire'[j] = onAir + 1
      BY <1>3, <3>1 DEF QueueInv, Heard
    <3>2. CASE j \in 1..Len(wire) /\ wire'[j] = wire[j]
      BY <3>2 DEF QueueInv, InOrder
    <3> QED
      BY <2>1, <3>1, <3>2
  <2>4. Increasing(completed)'
    BY <1>2 DEF QueueInv, InOrder, Increasing
  <2>5. InRound' = InRound
    BY <1>2 DEF InRound
  <2> QED
    BY <1>2, <2>2, <2>3, <2>4, <2>5 DEF QueueInv, InOrder
<1>6. Rounds'
  BY <1>2 DEF QueueInv, Rounds
<1> QED
  BY <1>4, <1>5, <1>6 DEF QueueInv

\* feed() of what was read leaves the order as it was.
LEMMA QueueRead == Typed /\ QueueInv /\ MonRead => QueueInv'
<1> SUFFICES ASSUME Typed, QueueInv, MonRead PROVE QueueInv'
  OBVIOUS
<1> DEFINE all == Known(wire)
<1>1. /\ onAir \in Nat /\ pending \in Nat /\ stations \in Nat
      /\ wire \in Seq(Packets) /\ Len(wire) \in Nat
      /\ \A i \in 1..Len(wire) : wire[i] \in Nat
  BY ElementOfSeq, LenProperties DEF Typed, TypeOK, Packets
<1>2. /\ monPc = "read" /\ completed = <<>> /\ targets = {} /\ ~InRound
  BY DEF MonRead, QueueInv, Rounds, InRound
<1>3. /\ wire' = <<>> /\ Len(wire') = 0
      /\ monPc' = "handle" /\ ~InRound'
      /\ completed' = FedWith(wire).done /\ pending' = FedWith(wire).rest
      /\ UNCHANGED <<onAir, targets, stations>>
  BY EmptySeq DEF MonRead, InRound
<1>4. /\ Len(all) \in Nat
      /\ \A i \in 1..Len(all) : /\ all[i] \in Nat \ {0}
                                 /\ all[i] <= onAir
                                 /\ stations < all[i]
      /\ Increasing(all)
  <2>1. CASE pending = 0
    <3>1. all = wire
      BY <1>1, <2>1, KnownPackets
    <3>2. \A i \in 1..Len(wire) : wire[i] \in Nat \ {0}
      BY <1>1, ElementOfSeq DEF Packets
    <3> QED
      BY <1>1, <3>1, <3>2 DEF QueueInv, Heard, InOrder
  <2>2. CASE pending # 0
    <3>1. /\ Len(all) = Len(wire) + 1 /\ all[1] = pending
          /\ \A i \in 1..Len(wire) : all[i + 1] = wire[i]
      BY <1>1, <2>2, KnownPackets
    <3>2. \A i \in 2..Len(all) : i - 1 \in 1..Len(wire) /\ all[i] = wire[i - 1]
      BY <1>1, <3>1
    <3>3. Increasing(all)
      <4> SUFFICES ASSUME NEW i \in 1..Len(all), NEW j \in 1..Len(all), i < j
                   PROVE  all[i] < all[j]
        BY DEF Increasing
      <4>1. j \in 2..Len(all) /\ all[j] = wire[j - 1] /\ j - 1 \in 1..Len(wire)
        BY <1>1, <3>1, <3>2
      <4>2. CASE i = 1
        BY <4>1, <4>2, <3>1 DEF QueueInv, InOrder
      <4>3. CASE i # 1
        <5>1. all[i] = wire[i - 1] /\ i - 1 \in 1..Len(wire) /\ i - 1 < j - 1
          BY <1>1, <3>1, <3>2, <4>1, <4>3
        <5> QED
          BY <4>1, <5>1 DEF QueueInv, InOrder, Increasing
      <4> QED
        BY <4>2, <4>3
    <3>4. \A i \in 1..Len(wire) : wire[i] \in Nat \ {0} /\ wire[i] <= onAir
                                   /\ stations < wire[i]
      BY <1>1, ElementOfSeq DEF Packets, QueueInv, Heard, InOrder
    <3>5. pending \in Nat \ {0} /\ pending <= onAir /\ stations < pending
      BY <1>1, <2>2 DEF QueueInv, Heard, InOrder
    <3>6. \A i \in 1..Len(all) : i = 1 \/ i \in 2..Len(all)
      BY <1>1, <3>1
    <3>7. \A i \in 1..Len(all) : all[i] \in Nat \ {0} /\ all[i] <= onAir
                                  /\ stations < all[i]
      BY <3>1, <3>2, <3>4, <3>5, <3>6
    <3> QED
      BY <1>1, <3>1, <3>3, <3>7
  <2> QED
    BY <2>1, <2>2
<1>5. CASE all = <<>>
  <2>1. completed' = <<>> /\ pending' = 0 /\ Len(completed') = 0
    BY <1>1, <1>3, <1>5, FedWithProperties, EmptySeq
  <2> QED
    BY <1>1, <1>2, <1>3, <2>1 DEF QueueInv, Heard, InOrder, Rounds, Increasing
<1>6. CASE all # <<>>
  <2>1. /\ Len(all) >= 1
        /\ pending' = all[Len(all)] /\ Len(completed') = Len(all) - 1
        /\ \A i \in 1..Len(completed') : completed'[i] = all[i]
    BY <1>1, <1>3, <1>6, FedWithProperties
  <2> HIDE DEF all
  <2>2. \A i \in 1..Len(completed') :
          i \in 1..Len(all) /\ i < Len(all) /\ Len(all) \in 1..Len(all)
    BY <1>4, <2>1
  <2>3. Increasing(completed')
    BY <1>4, <2>1, <2>2 DEF Increasing
  <2>4. \A i \in 1..Len(completed') :
          /\ completed'[i] <= onAir /\ stations < completed'[i]
          /\ completed'[i] < pending'
    BY <1>4, <2>1, <2>2 DEF Increasing
  <2>5. pending' <= onAir /\ stations < pending' /\ Len(all) \in 1..Len(all)
    BY <1>4, <2>1
  <2>6. Increasing(wire')
    BY <1>3 DEF Increasing
  <2>7. Heard'
    BY <1>3, <2>4, <2>5 DEF QueueInv, Heard
  <2>8. InOrder'
    BY <1>3, <2>3, <2>4, <2>5, <2>6 DEF InOrder
  <2>9. Rounds'
    BY <1>2, <1>3 DEF Rounds
  <2> QED
    BY <2>7, <2>8, <2>9 DEF QueueInv
<1> QED
  BY <1>5, <1>6

\* Steps that at most lose what was on the serial line, or move the monitor
\* between places that make no difference to the packets.
LEMMA QueueKept ==
  ASSUME Typed, QueueInv, UNCHANGED <<onAir, pending, completed, stations>>,
         wire' = wire \/ wire' = <<>>, InRound' = InRound, Rounds'
  PROVE  QueueInv'
<1>1. CASE wire' = wire
  BY <1>1 DEF QueueInv, Heard, InOrder, Increasing
<1>2. CASE wire' = <<>>
  <2>1. Len(wire') = 0
    BY <1>2, EmptySeq
  <2> QED
    BY <2>1 DEF QueueInv, Heard, InOrder, Increasing
<1> QED
  BY <1>1, <1>2

\* The thread's end loses what it held, and leaves the rest in order.
LEMMA QueueEnds ==
  ASSUME Typed, QueueInv, MonEnds, UNCHANGED <<onAir, wire, stations>>
  PROVE  QueueInv'
<1>1. /\ monPc' = "dead" /\ ~InRound'
      /\ completed' = <<>> /\ Len(completed') = 0
      /\ pending' = 0 /\ targets' = {}
  BY EmptySeq DEF MonEnds, InRound
<1>2. /\ onAir \in Nat /\ \A i \in 1..Len(wire) : wire[i] \in Nat \ {0}
  BY ElementOfSeq DEF Typed, TypeOK
<1>3. Heard'
  BY <1>1, <1>2 DEF QueueInv, Heard
<1>4. InOrder'
  BY <1>1, <1>2 DEF QueueInv, InOrder, Increasing
<1> QED
  BY <1>1, <1>3, <1>4 DEF QueueInv, Rounds

\* The final flush() completes the packet that was still being assembled.
LEMMA QueueTest == Typed /\ QueueInv /\ MonTest => QueueInv'
<1> SUFFICES ASSUME Typed, QueueInv, MonTest PROVE QueueInv'
  OBVIOUS
<1>1. /\ monPc = "test" /\ ~InRound /\ completed = <<>> /\ targets = {}
      /\ UNCHANGED <<onAir, wire, targets, stations>>
      /\ onAir \in Nat /\ pending \in Nat /\ stations \in Nat
      /\ \A i \in 1..Len(wire) : wire[i] \in Nat \ {0}
  BY ElementOfSeq DEF MonTest, QueueInv, Rounds, InRound, Typed, TypeOK
<1>2. CASE ~monStop
  <2>1. UNCHANGED <<pending, completed>> /\ monPc' = "lock"
    BY <1>2 DEF MonTest
  <2> QED
    BY <1>1, <2>1, QueueKept DEF InRound, Rounds
<1>3. CASE monStop
  <2>1. /\ monPc' = "handle" /\ ~InRound' /\ pending' = 0
        /\ completed' = IF pending = 0 THEN <<>> ELSE <<pending>>
    BY <1>3 DEF MonTest, InRound
  <2>2. /\ Len(completed') \in {0, 1}
        /\ \A i \in 1..Len(completed') :
              i = 1 /\ pending # 0 /\ completed'[i] = pending
    <3>1. CASE pending = 0
      BY <2>1, <3>1, EmptySeq
    <3>2. CASE pending # 0
      BY <1>1, <2>1, <3>2, OnePacket DEF Packets
    <3> QED
      BY <3>1, <3>2
  <2>3. Heard'
    BY <1>1, <2>1, <2>2 DEF QueueInv, Heard
  <2>4. InOrder'
    <3>1. Increasing(completed)' /\ Increasing(wire)'
      BY <1>1, <2>2 DEF Increasing, QueueInv, InOrder
    <3>2. \A j \in 1..Len(wire') : pending' < wire'[j] /\ stations' < wire'[j]
      BY <1>1, <2>1 DEF QueueInv, InOrder
    <3>3. \A i \in 1..Len(completed') :
            /\ stations' < completed'[i]
            /\ \A j \in 1..Len(wire') : completed'[i] < wire'[j]
      BY <1>1, <2>2 DEF QueueInv, InOrder
    <3> QED
      BY <2>1, <3>1, <3>2, <3>3 DEF InOrder
  <2> QED
    BY <1>1, <2>1, <2>3, <2>4 DEF QueueInv, Rounds
<1> QED
  BY <1>2, <1>3

\* The tracker is told of the first of the completed packets, which is later than
\* all it knew.
LEMMA QueueUpdate == Typed /\ QueueInv /\ MonUpdate => QueueInv' /\ stations < stations'
<1> SUFFICES ASSUME Typed, QueueInv, MonUpdate
             PROVE  QueueInv' /\ stations < stations'
  OBVIOUS
<1>1. /\ completed \in Seq(Packets) /\ completed # <<>>
      /\ monPc = "handle" /\ ~InRound
      /\ monPc' = "snapshot" /\ InRound'
      /\ stations' = Head(completed)
      /\ UNCHANGED <<onAir, wire, pending, completed, targets>>
      /\ onAir \in Nat /\ stations \in Nat /\ pending \in Nat
  BY DEF MonUpdate, Tracked, Typed, TypeOK, Packets, InRound
<1>2. stations' = completed[1] /\ 1 \in 1..Len(completed) /\ completed[1] \in Packets
  BY <1>1, RestOfPackets
<1>3. Heard'
  BY <1>1, <1>2 DEF QueueInv, Heard
<1>4. InOrder'
  BY <1>1, <1>2 DEF QueueInv, InOrder, Increasing
<1>5. Rounds'
  BY <1>1 DEF QueueInv, Rounds
<1>6. stations < stations'
  BY <1>1, <1>2 DEF QueueInv, InOrder
<1> QED
  BY <1>3, <1>4, <1>5, <1>6 DEF QueueInv

\* A round is over, and the packet it was about is gone from the list.
LEMMA QueueSent == Typed /\ QueueInv /\ MonSent => QueueInv'
<1> SUFFICES ASSUME Typed, QueueInv, MonSent PROVE QueueInv'
  OBVIOUS
<1>1. /\ completed \in Seq(Packets) /\ completed # <<>>
      /\ monPc = "send" /\ InRound /\ monPc' = "handle" /\ ~InRound'
      /\ completed' = Tail(completed) /\ targets = {}
      /\ UNCHANGED <<onAir, wire, pending, targets, stations>>
      /\ onAir \in Nat /\ stations \in Nat /\ pending \in Nat
  BY DEF MonSent, Typed, RoundInv, TypeOK, Packets, InRound
<1>2. /\ Len(completed) \in Nat /\ Len(completed') = Len(completed) - 1
      /\ \A i \in 1..Len(completed') : completed'[i] = completed[i + 1]
      /\ \A i \in 1..Len(completed) : completed[i] \in Nat
  BY <1>1, RestOfPackets, ElementOfSeq DEF Packets
<1>3. \A i \in 1..Len(completed') :
        /\ i + 1 \in 1..Len(completed) /\ 1 \in 1..Len(completed) /\ 1 < i + 1
        /\ completed'[i] = completed[i + 1]
  BY <1>2
<1>4. Heard'
  BY <1>1, <1>3 DEF QueueInv, Heard
<1>5. InOrder'
  <2>1. Increasing(completed)'
    <3> SUFFICES ASSUME NEW i \in 1..Len(completed'), NEW j \in 1..Len(completed'),
                        i < j
                 PROVE  completed'[i] < completed'[j]
      BY DEF Increasing
    <3>1. i + 1 < j + 1
      BY <1>2
    <3> QED
      BY <1>3, <3>1 DEF QueueInv, InOrder, Increasing
  <2>2. \A i \in 1..Len(completed') : stations' < completed'[i]
    BY <1>1, <1>3 DEF QueueInv, InOrder, Increasing
  <2>3. \A i \in 1..Len(completed') :
          /\ pending' # 0 => completed'[i] < pending'
          /\ \A j \in 1..Len(wire') : completed'[i] < wire'[j]
    BY <1>1, <1>3 DEF QueueInv, InOrder
  <2> QED
    BY <1>1, <2>1, <2>2, <2>3 DEF QueueInv, InOrder, Increasing
<1> QED
  BY <1>1, <1>4, <1>5 DEF QueueInv, Rounds
\* Everything else leaves the packets alone, or at most loses those on the line.
LEMMA QueueStep == Typed /\ QueueInv /\ [Next]_vars => QueueInv'
<1> SUFFICES ASSUME Typed, QueueInv, [Next]_vars PROVE QueueInv'
  OBVIOUS
<1>1. ASSUME UNCHANGED <<onAir, monPc, pending, completed, targets, stations>>,
             wire' = wire \/ wire' = <<>>
      PROVE  QueueInv'
  BY <1>1, QueueKept DEF QueueInv, Rounds, InRound
<1>2. CASE MonLock
  BY <1>2, QueueKept DEF MonLock, QueueInv, Rounds, InRound
<1>3. CASE MonReadRaises
  BY <1>3, QueueEnds DEF MonReadRaises
<1>4. CASE MonFlushRaises
  BY <1>4, QueueEnds DEF MonFlushRaises
<1>5. CASE MonHandled
  <2>1. CASE draining
    BY <1>5, <2>1, QueueEnds DEF MonHandled
  <2>2. CASE ~draining
    <3>1. /\ monPc = "handle" /\ monPc' = "test" /\ completed = <<>>
          /\ UNCHANGED <<onAir, wire, pending, completed, targets, stations>>
      BY <1>5, <2>2 DEF MonHandled
    <3> QED
      BY <3>1, QueueKept DEF QueueInv, Rounds, InRound
  <2> QED
    BY <2>1, <2>2
<1>6. CASE MonSnapshot \/ MonFlush
  BY <1>6, QueueKept DEF MonSnapshot, MonFlush, QueueInv, Rounds, InRound
<1>7. ASSUME NEW h \in Handlers, MonWrite(h) \/ MonWriteFails(h) PROVE QueueInv'
  BY <1>7, QueueKept DEF MonWrite, MonWriteFails, QueueInv, Rounds, InRound
<1>8. ASSUME NEW h \in Handlers,
             ClientConnects(h) \/ ClientReads(h) \/ ClientCloses(h)
      PROVE  QueueInv'
  BY <1>1, <1>8 DEF ClientConnects, ClientReads, ClientCloses, monVars
<1>9. ASSUME NEW h \in Handlers, NEW m \in Methods, Request(h, m) PROVE QueueInv'
  BY <1>1, <1>9 DEF Request, monVars
<1>10. ASSUME NEW h \in Handlers,
              AddSubscriber(h) \/ RemoveSubscriber(h) \/ FinishRemoves(h)
       PROVE  QueueInv'
  BY <1>1, <1>10 DEF AddSubscriber, RemoveSubscriber, FinishRemoves, monVars
<1>11. ASSUME NEW h \in Handlers, KamBegin(h) \/ KamSwallows(h) \/ KamEnd(h)
       PROVE  QueueInv'
  BY <1>1, <1>11 DEF KamBegin, KamSwallows, KamEnd, monVars
<1>12. ASSUME NEW h \in Handlers, Reply(h) \/ HandlerEof(h) \/ FinishCloses(h)
       PROVE  QueueInv'
  BY <1>1, <1>12 DEF Reply, HandlerEof, FinishCloses, monVars
<1>13. ASSUME NEW h \in Handlers, HandlerEnsures(h) PROVE QueueInv'
  <2>1. CASE monPc # "dead"
    BY <1>1, <1>13, <2>1 DEF HandlerEnsures, EnsureMonitor, monVars
  <2>2. CASE monPc = "dead"
    BY <1>13, <2>2, QueueKept
    DEF HandlerEnsures, EnsureMonitor, QueueInv, Rounds, InRound
  <2> QED
    BY <2>1, <2>2
<1>14. CASE StopMonitor \/ DisconnectKam \/ UNCHANGED vars
  BY <1>1, <1>14 DEF StopMonitor, DisconnectKam, vars, monVars
<1> QED
  BY <1>2, <1>3, <1>4, <1>5, <1>6, <1>7, <1>8, <1>9, <1>10, <1>11, <1>12, <1>13,
     <1>14, QueueHear, QueueRead, QueueTest, QueueUpdate, QueueSent
  DEF Next, MonStep, ClientStep, HandlerStep

LEMMA SentInit == Init => StationsKnowEverySentPacket
BY EmptySeq DEF Init, StationsKnowEverySentPacket

\* Only the tracker's update and the monitor's write can disturb it: the first
\* never goes back, and the second is about the packet the tracker knows.
LEMMA SentStep ==
  Typed /\ QueueInv /\ StationsKnowEverySentPacket /\ [Next]_vars
    => StationsKnowEverySentPacket'
<1> SUFFICES ASSUME Typed, QueueInv, StationsKnowEverySentPacket, [Next]_vars
             PROVE  StationsKnowEverySentPacket'
  OBVIOUS
<1>1. CASE MonUpdate
  <2>1. stations < stations' /\ stations \in Nat /\ stations' \in Nat /\ sent' = sent
    <3>1. Typed'
      BY TypeStep
    <3> QED
      BY <1>1, <3>1, QueueUpdate DEF MonUpdate, socketVars, Typed, TypeOK
  <2>2. ASSUME NEW h \in Handlers, NEW i \in 1..Len(sent[h])
        PROVE  sent[h][i] <= stations'
    <3>1. sent[h][i] \in Nat /\ sent[h][i] <= stations
      BY ElementOfSeq DEF Typed, TypeOK, StationsKnowEverySentPacket
    <3> QED
      BY <2>1, <3>1
  <2> QED
    BY <2>1, <2>2 DEF StationsKnowEverySentPacket
<1>2. ASSUME NEW h \in Handlers, MonWrite(h) PROVE StationsKnowEverySentPacket'
  <2>1. completed \in Seq(Packets) /\ completed # <<>> /\ monPc = "send"
    BY <1>2 DEF MonWrite, Typed, TypeOK, RoundInv, Packets
  <2>2. Head(completed) = stations /\ stations \in Nat
    BY <2>1, RestOfPackets DEF QueueInv, InOrder, InRound, Typed, TypeOK
  <2>3. /\ stations' = stations
        /\ sent' = [sent EXCEPT ![h] = Append(sent[h], stations)]
        /\ sent \in [Handlers -> Seq(Nat)]
    BY <1>2, <2>2 DEF MonWrite, Typed, TypeOK
  <2>4. ASSUME NEW g \in Handlers, NEW i \in 1..Len(sent'[g])
        PROVE  sent'[g][i] <= stations
    <3>1. CASE g # h
      BY <2>3, <2>4, <3>1 DEF StationsKnowEverySentPacket
    <3>2. CASE g = h
      <4>1. /\ sent'[g] = Append(sent[h], stations) /\ sent[h] \in Seq(Nat)
            /\ Len(sent[h]) \in Nat /\ Len(sent'[g]) = Len(sent[h]) + 1
        BY <2>2, <2>3, <3>2, AppendProperties, LenProperties
      <4>2. CASE i = Len(sent[h]) + 1
        BY <2>2, <4>1, <4>2, AppendProperties
      <4>3. CASE i \in 1..Len(sent[h])
        <5>1. sent'[g][i] = sent[h][i]
          BY <2>2, <4>1, <4>3, AppendProperties
        <5> QED
          BY <4>3, <5>1 DEF StationsKnowEverySentPacket
      <4> QED
        BY <2>4, <4>1, <4>2, <4>3
    <3> QED
      BY <3>1, <3>2
  <2> QED
    BY <2>3, <2>4 DEF StationsKnowEverySentPacket
<1>3. ASSUME UNCHANGED <<sent, stations>> PROVE StationsKnowEverySentPacket'
  BY <1>3 DEF StationsKnowEverySentPacket
<1>4. CASE Hear \/ MonTest \/ MonLock \/ MonRead \/ MonReadRaises \/ MonHandled
             \/ MonSnapshot \/ MonFlush \/ MonFlushRaises \/ MonSent
  BY <1>3, <1>4 DEF Hear, MonTest, MonLock, MonRead, MonReadRaises, MonHandled,
     MonSnapshot, MonFlush, MonFlushRaises, MonSent, socketVars
<1>5. ASSUME NEW h \in Handlers,
             \/ MonWriteFails(h)
             \/ ClientConnects(h) \/ ClientReads(h) \/ ClientCloses(h)
             \/ \E m \in Methods : Request(h, m)
      PROVE  StationsKnowEverySentPacket'
  BY <1>3, <1>5 DEF MonWriteFails, ClientConnects, ClientReads, ClientCloses,
     Request, socketVars
<1>6. ASSUME NEW h \in Handlers, HandlerStep(h) PROVE StationsKnowEverySentPacket'
  BY <1>3, <1>6 DEF HandlerStep, AddSubscriber, HandlerEnsures, RemoveSubscriber,
     KamBegin, KamSwallows, KamEnd, Reply, HandlerEof, FinishRemoves, FinishCloses,
     socketVars
<1>7. CASE StopMonitor \/ DisconnectKam \/ UNCHANGED vars
  BY <1>3, <1>7 DEF StopMonitor, DisconnectKam, vars, socketVars
<1> QED
  BY <1>1, <1>2, <1>4, <1>5, <1>6, <1>7 DEF Next, MonStep, ClientStep

\* Whoever has been sent a packet and asks the station tracker about it gets an
\* answer that takes that packet into account.
THEOREM StationsNeverBehind == Spec => []StationsKnowEverySentPacket
<1>1. Init => Typed /\ QueueInv /\ StationsKnowEverySentPacket
  BY TypeInit, QueueInit, SentInit
<1>2. /\ Typed /\ QueueInv /\ StationsKnowEverySentPacket
      /\ [Next]_vars
      => (Typed /\ QueueInv /\ StationsKnowEverySentPacket)'
  BY TypeStep, QueueStep, SentStep
<1> QED
  BY <1>1, <1>2, PTL DEF Spec

-----------------------------------------------------------------------------
(***************************************************************************)
(* The daemon implements MonitorFeed.                                      *)
(***************************************************************************)
LEMMA FeedInit == Init => Feed!Init
BY DEF Init, Feed!Init, Unreachable

\* A connection becomes unreachable by hanging up, and no other way.
LEMMA FeedStep ==
  Typed /\ SubscriberInv /\ QueueInv /\ [Next]_vars => [Feed!Next]_(Feed!vars)
<1> SUFFICES ASSUME Typed, SubscriberInv, QueueInv, [Next]_vars
             PROVE  [Feed!Next]_(Feed!vars)
  OBVIOUS
<1> USE DEF Typed, TypeOK
<1> DEFINE due == targets \ Unreachable
<1>1. ASSUME UNCHANGED <<hpc, client>> PROVE Unreachable' = Unreachable
  BY <1>1 DEF Unreachable
<1>2. ASSUME NEW h \in Handlers, NEW label, client' = client,
             hpc' = [hpc EXCEPT ![h] = label],
             hpc[h] \notin {"none", "gone"}, label \notin {"none", "gone"}
      PROVE  Unreachable' = Unreachable
  BY <1>2 DEF Unreachable
<1>3. ASSUME UNCHANGED <<subscribers, stations, sent>>, Unreachable' = Unreachable,
             due' = due, monPc' = "snapshot" <=> monPc = "snapshot"
      PROVE  UNCHANGED Feed!vars
  BY <1>3 DEF Feed!vars
<1>4. CASE Hear \/ MonTest \/ MonLock \/ MonRead \/ MonFlush \/ MonSent
  BY <1>1, <1>3, <1>4 DEF Hear, MonTest, MonLock, MonRead, MonFlush, MonSent,
     handlerVars, socketVars, monVars
<1>5. CASE MonReadRaises \/ MonHandled
  <2>1. targets = {}
    BY <1>5 DEF MonReadRaises, MonHandled, QueueInv, Rounds
  <2>2. targets' = {}
    BY <1>5, <2>1 DEF MonReadRaises, MonHandled, MonEnds
  <2> QED
    BY <1>1, <1>3, <1>5, <2>1, <2>2 DEF MonReadRaises, MonHandled, MonEnds,
       handlerVars, socketVars
<1>6. CASE MonUpdate
  <2>1. stations < stations' /\ targets = {} /\ stations' \in Nat
    <3>1. Typed'
      BY TypeStep
    <3> QED
      BY <1>6, <3>1, QueueUpdate DEF MonUpdate, QueueInv, Rounds
  <2>2. Feed!Record
    BY <1>1, <1>6, <2>1 DEF MonUpdate, Feed!Record, handlerVars, socketVars
  <2> QED
    BY <2>2 DEF Feed!Next
<1>7. CASE MonSnapshot
  <2>1. Feed!Publish
    BY <1>1, <1>7 DEF MonSnapshot, Feed!Publish, handlerVars, socketVars
  <2> QED
    BY <2>1 DEF Feed!Next
<1>8. CASE MonFlushRaises
  <2>1. /\ UNCHANGED <<subscribers, stations, sent>> /\ Unreachable' = Unreachable
        /\ due' = {} /\ monPc # "snapshot" /\ monPc' # "snapshot"
    BY <1>1, <1>8 DEF MonFlushRaises, MonEnds, handlerVars, socketVars
  <2>2. CASE due = {}
    BY <1>3, <2>1, <2>2
  <2>3. CASE due # {}
    <3>1. Feed!Die
      BY <2>1, <2>3 DEF Feed!Die
    <3> QED
      BY <3>1 DEF Feed!Next
  <2> QED
    BY <2>2, <2>3
<1>9. ASSUME NEW h \in Handlers, MonWrite(h) PROVE Feed!Deliver(h)
  <2>1. h \in due
    BY <1>9 DEF MonWrite, Writable, Unreachable
  <2>2. completed \in Seq(Packets) /\ completed # <<>>
    BY <1>9 DEF MonWrite, RoundInv, Packets
  <2>3. Head(completed) = stations
    BY <1>9, <2>2, RestOfPackets DEF MonWrite, QueueInv, InOrder, InRound
  <2>4. sent' = [sent EXCEPT ![h] = Append(@, stations)]
    BY <1>9, <2>3 DEF MonWrite
  <2>5. Unreachable' = Unreachable
    BY <1>1, <1>9 DEF MonWrite, handlerVars
  <2> QED
    BY <1>9, <2>1, <2>4, <2>5 DEF MonWrite, Feed!Deliver
<1>10. ASSUME NEW h \in Handlers, MonWriteFails(h) PROVE UNCHANGED Feed!vars
  <2>1. h \in Unreachable
    BY <1>10 DEF MonWriteFails, Writable, Unreachable, SubscriberInv
  <2> QED
    BY <1>1, <1>3, <1>10, <2>1 DEF MonWriteFails, handlerVars, socketVars
<1>11. ASSUME NEW h \in Handlers, ClientConnects(h) PROVE UNCHANGED Feed!vars
  <2>1. Unreachable' = Unreachable
    BY <1>11 DEF ClientConnects, Unreachable
  <2> QED
    BY <1>3, <1>11, <2>1 DEF ClientConnects, monVars
<1>12. ASSUME NEW h \in Handlers, ClientReads(h) PROVE UNCHANGED Feed!vars
  BY <1>1, <1>3, <1>12 DEF ClientReads, monVars, handlerVars
<1>13. ASSUME NEW h \in Handlers, Unreachable' = Unreachable \union {h},
              UNCHANGED <<monVars, stations, subscribers, sent>>
       PROVE  Feed!HangUp(h)
  BY <1>13 DEF Feed!HangUp, monVars
<1>14. ASSUME NEW h \in Handlers, ClientCloses(h) PROVE Feed!HangUp(h)
  <2>1. Unreachable' = Unreachable \union {h}
    BY <1>14 DEF ClientCloses, Unreachable, SubscriberInv, handlerVars
  <2> QED
    BY <1>13, <1>14, <2>1 DEF ClientCloses
<1>15. ASSUME NEW h \in Handlers, FinishCloses(h)
       PROVE  Feed!HangUp(h) \/ UNCHANGED Feed!vars
  <2>1. CASE hpc[h] = "removed"
    BY <1>3, <1>15, <2>1 DEF FinishCloses, monVars, Unreachable, socketVars
  <2>2. CASE hpc[h] = "closed"
    <3>1. Unreachable' = Unreachable \union {h}
      BY <1>15, <2>2 DEF FinishCloses, Unreachable, socketVars
    <3> QED
      BY <1>13, <1>15, <3>1 DEF FinishCloses, socketVars
  <2> QED
    BY <1>15, <2>1, <2>2 DEF FinishCloses
<1>16. ASSUME NEW h \in Handlers, AddSubscriber(h) PROVE Feed!Join(h)
  <2>1. Unreachable' = Unreachable
    BY <1>16 DEF AddSubscriber, Unreachable, socketVars
  <2> QED
    BY <1>16, <2>1 DEF AddSubscriber, Feed!Join, monVars, socketVars
<1>17. ASSUME NEW h \in Handlers, RemoveSubscriber(h) PROVE Feed!Leave(h)
  <2>1. Unreachable' = Unreachable
    BY <1>17 DEF RemoveSubscriber, Unreachable, socketVars
  <2> QED
    BY <1>17, <2>1 DEF RemoveSubscriber, Feed!Leave, monVars, socketVars
<1>18. ASSUME NEW h \in Handlers, FinishRemoves(h)
       PROVE  Feed!Leave(h) \/ UNCHANGED Feed!vars
  <2>1. Unreachable' = Unreachable
    BY <1>18 DEF FinishRemoves, Unreachable, socketVars
  <2>2. CASE subscribed[h]
    BY <1>18, <2>1, <2>2 DEF FinishRemoves, LeftBehind, Feed!Leave, monVars, socketVars
  <2>3. CASE ~subscribed[h]
    BY <1>3, <1>18, <2>1, <2>3 DEF FinishRemoves, LeftBehind, monVars, socketVars
  <2> QED
    BY <2>2, <2>3
<1>19. ASSUME NEW h \in Handlers, NEW m \in Methods, Request(h, m)
       PROVE  UNCHANGED Feed!vars
  <2>1. EntryPoint[m] \notin {"none", "gone"}
    BY DEF EntryPoint, Methods
  <2>2. Unreachable' = Unreachable
    BY <1>2, <1>19, <2>1 DEF Request, socketVars
  <2> QED
    BY <1>3, <1>19, <2>2 DEF Request, monVars, socketVars
<1>20. ASSUME NEW h \in Handlers, HandlerEnsures(h) PROVE UNCHANGED Feed!vars
  <2>1. Unreachable' = Unreachable
    BY <1>20 DEF HandlerEnsures, Unreachable, socketVars
  <2> QED
    BY <1>3, <1>20, <2>1 DEF HandlerEnsures, EnsureMonitor, monVars, socketVars
<1>21. ASSUME NEW h \in Handlers,
              KamBegin(h) \/ KamEnd(h) \/ Reply(h) \/ HandlerEof(h)
       PROVE  UNCHANGED Feed!vars
  <2>1. \/ hpc[h] = "lock" /\ hpc' = [hpc EXCEPT ![h] = "driver"]
        \/ hpc[h] \in {"driver", "reply"} /\ hpc' = [hpc EXCEPT ![h] = IF @ = "driver" THEN "reply" ELSE "read"]
        \/ hpc[h] = "read" /\ hpc' = [hpc EXCEPT ![h] = "finish"]
    BY <1>21 DEF KamBegin, KamEnd, Reply, HandlerEof
  <2>2. client' = client
    BY <1>21 DEF KamBegin, KamEnd, Reply, HandlerEof, socketVars
  <2>3. \E label : /\ label \in {"driver", "reply", "read", "finish"}
                   /\ hpc[h] \in {"lock", "driver", "reply", "read"}
                   /\ hpc' = [hpc EXCEPT ![h] = label]
    BY <2>1
  <2>4. PICK label : /\ label \in {"driver", "reply", "read", "finish"}
                     /\ hpc[h] \in {"lock", "driver", "reply", "read"}
                     /\ hpc' = [hpc EXCEPT ![h] = label]
    BY <2>3
  <2>5. label \notin {"none", "gone"} /\ hpc[h] \notin {"none", "gone"}
    BY <2>4
  <2>6. Unreachable' = Unreachable
    BY <1>2, <2>2, <2>4, <2>5
  <2> QED
    BY <1>3, <1>21, <2>6 DEF KamBegin, KamEnd, Reply, HandlerEof, monVars, socketVars
<1>22. ASSUME NEW h \in Handlers, KamSwallows(h) PROVE UNCHANGED Feed!vars
  BY <1>1, <1>3, <1>22 DEF KamSwallows, monVars, handlerVars, socketVars
<1>23. CASE StopMonitor \/ DisconnectKam \/ UNCHANGED vars
  BY <1>1, <1>3, <1>23 DEF StopMonitor, DisconnectKam, vars, monVars, handlerVars,
     socketVars
<1> HIDE DEF due
<1> QED
  BY <1>4, <1>5, <1>6, <1>7, <1>8, <1>9, <1>10, <1>11, <1>12, <1>14, <1>15, <1>16,
     <1>17, <1>18, <1>19, <1>20, <1>21, <1>22, <1>23
  DEF Next, MonStep, ClientStep, HandlerStep, Feed!Next

\* What the threads, locks and sockets do is what MonitorFeed promises: a packet is
\* in the tracker before anyone gets it, goes to the members of that moment, at
\* most once each, in the order heard, and is missed only by hanging up or by the
\* monitor thread's death.
THEOREM FeedPromise == Spec => KeepsFeedPromise
<1>1. Init => Typed /\ SubscriberInv /\ QueueInv
  BY TypeInit, SubscriberInit, QueueInit
<1>2. /\ Typed /\ SubscriberInv /\ QueueInv
      /\ [Next]_vars
      => (Typed /\ SubscriberInv /\ QueueInv)'
  BY TypeStep, SubscriberStep, QueueStep
<1> QED
  BY <1>1, <1>2, FeedInit, FeedStep, PTL DEF Spec, KeepsFeedPromise, Feed!Spec

-----------------------------------------------------------------------------
(***************************************************************************)
(* The life cycle of the process.                                          *)
(***************************************************************************)
Labels ==
  {"wait", "oldSocket", "unlinkOld", "bind", "assign", "loop", "enter", "stop",
   "request", "await", "socket", "unlinkSocket", "disconnect", "returned", "raised",
   "exit", "crashed"}

LifeTyped ==
  /\ callerPc \in [Callers -> Labels]
  /\ serverSet \in BOOLEAN
  /\ socketFile \in BOOLEAN
  /\ oldSocket \in BOOLEAN
  /\ shutdownLock \in Callers \union {"nobody"}
  /\ shutdownDone \in BOOLEAN

\* _shutdown_lock is held by whoever is in shutdown()'s body, and by nobody else.
LockInv == \A c \in Callers : callerPc[c] \in Body <=> shutdownLock = c

\* How far the shutdown has come when somebody is in the body, and when nobody is.
ProgressInv ==
  /\ \A c \in Callers :
       /\ callerPc[c] \in Body => shutdownDone
       /\ callerPc[c] = "stop" => down = "up"
       /\ callerPc[c] \in Body \ {"stop"} => down = "stopped"
       /\ callerPc[c] \in {"request", "await"} => serverSet
       /\ callerPc[c] \in {"returned", "exit"} => down = "closed" \/ MainRaised
  /\ shutdownLock = "nobody" =>
       down = IF ~shutdownDone THEN "up" ELSE IF MainRaised THEN "stopped" ELSE "closed"
  /\ MainRaised => shutdownDone /\ shutdownLock = "nobody"
  /\ down = "closed" => ~kamOpen

\* Who removes the socket file: until the server thread has bound it the file is the
\* old one, and only then can it vanish between a test and a removal.
SocketInv ==
  /\ \A c \in Callers :
       /\ callerPc[c] = "unlinkOld" => c = "server" /\ oldSocket
       /\ callerPc[c] = "oldSocket" => c = "server" /\ (socketFile => oldSocket)
       /\ callerPc[c] = "unlinkSocket" /\ ~socketFile => c = "main" /\ oldSocket
       /\ callerPc[c] = "raised" => oldSocket
       /\ callerPc[c] \in {"wait", "exit", "crashed"} => c = "main"
       /\ callerPc[c] \in {"bind", "assign", "loop"} => c = "server"
  /\ callerPc["server"] \in {"unlinkOld", "bind"} /\ socketFile => oldSocket
  /\ MainRaised => oldSocket

LifeInv == LifeTyped /\ LockInv /\ ProgressInv /\ SocketInv

LEMMA LifeInvInit == LifeInit => LifeInv
<1> SUFFICES ASSUME LifeInit PROVE LifeInv
  OBVIOUS
<1>1. callerPc = [c \in Callers |-> IF c = "main" THEN "wait" ELSE "oldSocket"]
  BY DEF LifeInit
<1>2. callerPc["main"] = "wait" /\ callerPc["server"] = "oldSocket"
  BY <1>1 DEF Callers
<1>3. LifeTyped
  BY <1>1, <1>2 DEF LifeInit, LifeTyped, Callers, Labels
<1>4. LockInv /\ ProgressInv /\ SocketInv
  BY <1>2 DEF LifeInit, Init, LockInv, ProgressInv, SocketInv, MainRaised, Callers, Body
<1> QED
  BY <1>3, <1>4 DEF LifeInv

\* The daemon's other threads neither stop the daemon nor open its port.
LEMMA DaemonStepKeeps ==
  DaemonStep => [Next]_vars /\ UNCHANGED <<lifeVars, kamOpen, down>>
<1> SUFFICES ASSUME DaemonStep
             PROVE  [Next]_vars /\ UNCHANGED <<lifeVars, kamOpen, down>>
  OBVIOUS
<1>1. UNCHANGED lifeVars
  BY DEF DaemonStep
<1>2. CASE Hear
  BY <1>1, <1>2 DEF Hear, Next
<1>3. CASE MonStep
  <2>1. Next
    BY <1>3 DEF Next
  <2>2. ASSUME NEW h \in Handlers, MonWrite(h) \/ MonWriteFails(h)
        PROVE  UNCHANGED <<kamOpen, down>>
    BY <2>2 DEF MonWrite, MonWriteFails
  <2> QED
    BY <1>1, <1>3, <2>1, <2>2 DEF MonStep, MonTest, MonLock, MonRead, MonReadRaises,
       MonUpdate, MonHandled, MonSnapshot, MonFlush, MonFlushRaises, MonSent
<1>4. ASSUME NEW h \in Handlers, ClientStep(h) PROVE Next /\ UNCHANGED <<kamOpen, down>>
  BY <1>4 DEF Next, ClientStep, ClientConnects, ClientReads, ClientCloses, Request
<1>5. ASSUME NEW h \in Handlers, HandlerStep(h) PROVE Next /\ UNCHANGED <<kamOpen, down>>
  BY <1>5 DEF Next, HandlerStep, AddSubscriber, HandlerEnsures, RemoveSubscriber,
     KamBegin, KamSwallows, KamEnd, Reply, HandlerEof, FinishRemoves, FinishCloses
<1> QED
  BY <1>1, <1>2, <1>3, <1>4, <1>5 DEF DaemonStep

\* Every step keeps the invariant, and is a step of KamDaemon or none.
LEMMA LifeStep == LifeInv /\ [LifeNext]_allVars => LifeInv' /\ [Next]_vars
<1> SUFFICES ASSUME LifeInv, [LifeNext]_allVars PROVE LifeInv' /\ [Next]_vars
  OBVIOUS
<1> USE DEF LifeInv, LifeTyped, LockInv, ProgressInv, SocketInv, MainRaised, Callers,
        Labels, Body, Goto, serverVars, lockVars
<1>1. CASE Signal
  BY <1>1 DEF Signal, vars
<1>2. CASE MainWakes
  BY <1>2 DEF MainWakes, vars
<1>3. CASE MainExits
  BY <1>3 DEF MainExits, vars
<1>4. CASE SeeOldSocket
  BY <1>4 DEF SeeOldSocket, vars
<1>5. CASE RemoveOldSocket
  <2>1. /\ callerPc'["server"] = IF socketFile THEN "bind" ELSE "raised"
        /\ callerPc'["main"] = callerPc["main"]
        /\ LifeTyped'
    BY <1>5 DEF RemoveOldSocket
  <2>2. /\ callerPc["server"] = "unlinkOld" /\ ~socketFile'
        /\ UNCHANGED <<serverSet, oldSocket, shutdownLock, shutdownDone, down, kamOpen>>
        /\ [Next]_vars
    BY <1>5 DEF RemoveOldSocket, vars
  <2>3. LockInv'
    BY <2>1, <2>2
  <2>4. ProgressInv'
    BY <2>1, <2>2
  <2>5. SocketInv'
    BY <2>1, <2>2
  <2> QED
    BY <2>1, <2>2, <2>3, <2>4, <2>5
<1>6. CASE BindSocket
  BY <1>6 DEF BindSocket, vars
<1>7. CASE AssignServer
  BY <1>7 DEF AssignServer, vars
<1>8. CASE LoopEnds
  BY <1>8 DEF LoopEnds, vars
<1>9. ASSUME NEW c \in Callers, Enter(c) PROVE LifeInv' /\ [Next]_vars
  <2>1. [Next]_vars
    BY <1>9 DEF Enter, vars
  <2>2. CASE shutdownDone
    BY <1>9, <2>2, SMTT(20) DEF Enter, MayTestFlag, DoneFlag, vars
  <2>3. CASE ~shutdownDone
    BY <1>9, <2>3, SMTT(20) DEF Enter, MayTestFlag, DoneFlag, vars
  <2>4. LifeInv'
    BY <2>2, <2>3
  <2> QED
    BY <2>1, <2>4
<1>10. ASSUME NEW c \in Callers, SetMonitorStop(c) PROVE LifeInv' /\ [Next]_vars
  BY <1>10 DEF SetMonitorStop, StopMonitor, Next
<1>11. ASSUME NEW c \in Callers, RequestStop(c) PROVE LifeInv' /\ [Next]_vars
  BY <1>11 DEF RequestStop, vars
<1>12. ASSUME NEW c \in Callers, CloseServer(c) PROVE LifeInv' /\ [Next]_vars
  BY <1>12 DEF CloseServer, vars
<1>13. ASSUME NEW c \in Callers, SeeSocket(c) PROVE LifeInv' /\ [Next]_vars
  BY <1>13 DEF SeeSocket, vars
<1>14. ASSUME NEW c \in Callers, RemoveSocket(c) PROVE LifeInv' /\ [Next]_vars
  <2>1. /\ callerPc'[c] = IF socketFile THEN "disconnect" ELSE "raised"
        /\ \A d \in Callers : d # c => callerPc'[d] = callerPc[d]
        /\ LifeTyped'
    BY <1>14 DEF RemoveSocket
  <2>2. /\ callerPc[c] = "unlinkSocket" /\ ~socketFile'
        /\ shutdownLock = c
        /\ shutdownLock' = IF socketFile THEN c ELSE "nobody"
        /\ UNCHANGED <<serverSet, oldSocket, shutdownDone, down, kamOpen>>
        /\ [Next]_vars
    BY <1>14 DEF RemoveSocket, vars
  <2>3. ~socketFile => c = "main" /\ oldSocket
    BY <2>2
  <2>4. LockInv'
    BY <2>1, <2>2
  <2>5. ProgressInv'
    BY <2>1, <2>2, <2>3
  <2>6. SocketInv'
    BY <2>1, <2>2, <2>3
  <2> QED
    BY <2>1, <2>2, <2>4, <2>5, <2>6
<1>15. ASSUME NEW c \in Callers, CloseKam(c) PROVE LifeInv' /\ [Next]_vars
  <2>1. /\ callerPc'[c] = "returned"
        /\ \A d \in Callers : d # c => callerPc'[d] = callerPc[d]
        /\ LifeTyped'
    BY <1>15 DEF CloseKam
  <2>2. /\ callerPc[c] = "disconnect" /\ shutdownLock = c /\ shutdownLock' = "nobody"
        /\ down' = "closed" /\ ~kamOpen'
        /\ UNCHANGED <<serverSet, socketFile, oldSocket, shutdownDone>>
    BY <1>15 DEF CloseKam, DisconnectKam
  <2>3. [Next]_vars
    BY <1>15 DEF CloseKam, Next
  <2>4. LockInv'
    BY <2>1, <2>2
  <2>5. ProgressInv'
    BY <2>1, <2>2
  <2>6. SocketInv'
    BY <2>1, <2>2
  <2> QED
    BY <2>1, <2>3, <2>4, <2>5, <2>6
<1>16. CASE DaemonStep
  BY <1>16, DaemonStepKeeps DEF lifeVars
<1>17. CASE UNCHANGED allVars
  BY <1>17 DEF allVars, lifeVars, vars
<1> QED
  BY <1>1, <1>2, <1>3, <1>4, <1>5, <1>6, <1>7, <1>8, <1>9, <1>10, <1>11, <1>12,
     <1>13, <1>14, <1>15, <1>16, <1>17 DEF LifeNext, ShutdownStep

\* shutdown() finds the server it is about to stop and close, although two threads
\* may be in it, and one of them sets self._server to None.
THEOREM ServerThere == LifeSpec => []ServerIsThereToClose
<1>1. LifeInv => ServerIsThereToClose
  BY DEF LifeInv, ProgressInv, ServerIsThereToClose
<1> QED
  BY <1>1, LifeInvInit, LifeStep, PTL DEF LifeSpec

\* Whoever returns from shutdown() returns to a daemon that is stopped, with its
\* port closed, also when the other thread did the work; except that the server
\* thread may return after the main thread's call raised FileNotFoundError, which
\* takes a socket file left from before.
THEOREM ReturnsComplete == LifeSpec => []ReturnedMeansComplete
<1>1. LifeInv => ReturnedMeansComplete
  BY DEF LifeInv, ProgressInv, SocketInv, ReturnedMeansComplete, MainRaised, Callers
<1> QED
  BY <1>1, LifeInvInit, LifeStep, PTL DEF LifeSpec

\* The daemon inside its process behaves as KamDaemon says.
THEOREM LifecycleImplementsDaemon == LifeSpec => ImplementsDaemon
<1>1. LifeInit => Init
  BY DEF LifeInit
<1> QED
  BY <1>1, LifeInvInit, LifeStep, PTL DEF LifeSpec, Spec, ImplementsDaemon
=============================================================================
