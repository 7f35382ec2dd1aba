---------------------------- MODULE MCPbbsSession ----------------------------
(* PbbsSession for TLC: up to three messages of two lines each, empty ones    *)
(* among them, and a number that does not exist.  Every call is followed to   *)
(* its end; TLC needs nothing but the bounds.                                 *)
EXTENDS PbbsSession
=============================================================================
