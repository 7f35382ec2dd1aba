--------------------------- MODULE MCPacketParser ---------------------------
(***************************************************************************)
(* Five characters are enough to split a header, a CR LF pair and a        *)
(* payload line at every place: "h", "hh" and "r" are headers, one of which *)
(* is a proper prefix of another, and "p" occurs in no header.  "h" and     *)
(* "hh" are of one station, and "hh" is a control frame; "p" is a report.   *)
(***************************************************************************)
EXTENDS StationTracker

MCChars == {"h", "r", "p", "\r", "\n"}
MCLF == "\n"
MCCR == "\r"
MCHeaders == {<<"h">>, <<"h", "h">>, <<"r">>}
MCSource == [header \in MCHeaders |-> IF header = <<"r">> THEN "B" ELSE "A"]
MCUIHeaders == {<<"h">>, <<"r">>}
MCReports == {<<"p">>}
=============================================================================
