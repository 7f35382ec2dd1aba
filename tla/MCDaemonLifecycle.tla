-------------------------- MODULE MCDaemonLifecycle --------------------------
(***************************************************************************)
(* One connection is enough to have requests, a subscription and a         *)
(* broadcast under way while two threads shut the daemon down.             *)
(***************************************************************************)
EXTENDS DaemonLifecycle
=============================================================================
