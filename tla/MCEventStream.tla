---------------------------- MODULE MCEventStream ----------------------------
(***************************************************************************)
(* Two streams, so that one can leave or stall while the other is served,  *)
(* and two packets, so that one can be taken for the ack, the ack be read  *)
(* ahead with it, and one follow.                                          *)
(***************************************************************************)
EXTENDS EventStream
=============================================================================
