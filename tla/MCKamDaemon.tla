----------------------------- MODULE MCKamDaemon -----------------------------
(***************************************************************************)
(* Two clients, so that one can subscribe, stop reading or vanish while    *)
(* the other uses the serial line.  The clients are alike: safety is       *)
(* checked up to their exchange.                                           *)
(***************************************************************************)
EXTENDS KamDaemon, TLC

Symmetry == Permutations(Handlers)
=============================================================================
