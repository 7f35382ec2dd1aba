---------------------------- MODULE MCKamTerminal ----------------------------
(***************************************************************************)
(* Three calls are enough for one that times out or leaves a prompt or a   *)
(* banner behind, one that meets it, and one after that.                   *)
(***************************************************************************)
EXTENDS KamTerminal
=============================================================================
