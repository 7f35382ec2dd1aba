--------------------------- MODULE StationTracker ---------------------------
(***************************************************************************)
(* stations.py's StationTracker, fed with every packet that PacketParser   *)
(* completes, as the daemon's monitor thread does.                         *)
(*                                                                         *)
(* aprs.py is the set Reports of the lines its two expressions match.  "."  *)
(* matches no newline and "$" only one at the end, so a payload is decoded  *)
(* if its first line is a report and nothing but an empty line follows.     *)
(***************************************************************************)
EXTENDS PacketParser, FiniteSets

CONSTANTS
  Source,      \* header |-> the callsign in it
  UIHeaders,   \* the headers with no frame type, or with <UI>
  Reports      \* the lines that parse_position() decodes

VARIABLE stations   \* self._stations: callsign |-> its latest report, and how many

tvars == <<parserVars, stations>>

-----------------------------------------------------------------------------
\* parse_position() of "\n".join(payload_lines)
Decoded(payload) ==
  /\ payload # <<>> /\ payload[1] \in Reports
  /\ SubSeq(payload, 2, Len(payload)) \in {<<>>, <<<<>>>>}

\* Mutant: control and supervisory frames count as well.
Considered_All(packet) == Decoded(packet.payload)

Considered(packet) == packet.header \in UIHeaders /\ Decoded(packet.payload)

\* update()
Update(known, packet) ==
  LET s == Source[packet.header]
      station == [report |-> packet.payload[1],
                  count  |-> IF s \in DOMAIN known THEN known[s].count + 1 ELSE 1]
  IN  IF Considered(packet)
      THEN [t \in DOMAIN known \cup {s} |-> IF t = s THEN station ELSE known[t]]
      ELSE known

TrackerInit == ParserInit /\ stations = <<>>

\* _handle_packet() for each packet that feed() or flush() returns.
HandlePackets ==
  LET known[n \in Len(emitted)..Len(emitted')] ==
        IF n = Len(emitted) THEN stations ELSE Update(known[n - 1], emitted'[n])
  IN  stations' = known[Len(emitted')]

TrackerNext == ParserNext /\ HandlePackets

TrackerSpec == TrackerInit /\ [][TrackerNext]_tvars

-----------------------------------------------------------------------------
\* What the tracker should know of a text: of each callsign the last report and
\* the number of reports in its packets, but for one that may still go on.
HeardIn(packets) ==
  LET reports == {i \in 1..Len(packets) : /\ packets[i].header \in UIHeaders
                                          /\ Decoded(packets[i].payload)}
      Of(s) == {i \in reports : Source[packets[i].header] = s}
  IN  [s \in {Source[packets[i].header] : i \in reports} |->
         [report |-> packets[Max(Of(s))].payload[1], count |-> Cardinality(Of(s))]]

\* However the text was cut into chunks, and whether a line was ended or only
\* flushed, the stations are those of the packets read in one piece: no report is
\* counted twice, lost, taken from a control frame or put under another callsign.
StationsMatchTheText ==
  LET all == PacketsOf(CompleteLines(fed))
  IN  IF flushed THEN stations = HeardIn(emitted)
      ELSE stations = HeardIn(SubSeq(all, 1, Len(all) - 1))
=============================================================================
