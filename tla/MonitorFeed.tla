----------------------------- MODULE MonitorFeed -----------------------------
(***************************************************************************)
(* What the daemon promises about MONITOR packets, without its threads,    *)
(* locks and sockets: a packet is recorded in the station tracker, then    *)
(* published to the connections that are members at that moment, each of   *)
(* which gets it at most once, before any later packet, and misses it only *)
(* by hanging up or by the publisher's death.                              *)
(***************************************************************************)
EXTENDS Naturals, Sequences

CONSTANT Handlers       \* the connections

VARIABLES
  members,    \* the connections that subscribed
  cut,        \* the connections that can no longer be written to
  recorded,   \* the last packet recorded, 0 before the first
  ready,      \* recorded but not published yet
  due,        \* the members still to get the packet published last
  feed        \* the packets written to each connection

vars == <<members, cut, recorded, ready, due, feed>>

Init ==
  /\ members = {}
  /\ cut = {}
  /\ recorded = 0
  /\ ready = FALSE
  /\ due = {}
  /\ feed = [h \in Handlers |-> <<>>]

Join(h) ==
  /\ members' = members \union {h}
  /\ UNCHANGED <<cut, recorded, ready, due, feed>>

Leave(h) ==
  /\ members' = members \ {h}
  /\ UNCHANGED <<cut, recorded, ready, due, feed>>

\* The order of packets is the order in which they were heard, with gaps.
Record ==
  /\ due = {} /\ ~ready
  /\ recorded' \in Nat
  /\ recorded' > recorded
  /\ ready' = TRUE
  /\ UNCHANGED <<members, cut, due, feed>>

Publish ==
  /\ ready
  /\ ready' = FALSE
  /\ due' = members \ cut
  /\ UNCHANGED <<members, cut, recorded, feed>>

Deliver(h) ==
  /\ h \in due
  /\ due' = due \ {h}
  /\ feed' = [feed EXCEPT ![h] = Append(@, recorded)]
  /\ UNCHANGED <<members, cut, recorded, ready>>

HangUp(h) ==
  /\ cut' = cut \union {h}
  /\ due' = due \ {h}
  /\ UNCHANGED <<members, recorded, ready, feed>>

\* The publishing thread dies in the middle of a round.
Die ==
  /\ due # {}
  /\ due' = {}
  /\ UNCHANGED <<members, cut, recorded, ready, feed>>

Next ==
  \/ \E h \in Handlers : Join(h) \/ Leave(h) \/ Deliver(h) \/ HangUp(h)
  \/ Record
  \/ Publish
  \/ Die

Spec == Init /\ [][Next]_vars
=============================================================================
