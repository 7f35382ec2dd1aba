-------------------------- MODULE MCWinlinkSession --------------------------
(***************************************************************************)
(* Two messages each way are enough to accept one and not the other, to    *)
(* mix the tiers and to lose the second of two.                            *)
(***************************************************************************)
EXTENDS WinlinkSession
=============================================================================
