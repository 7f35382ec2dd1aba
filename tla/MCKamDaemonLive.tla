--------------------------- MODULE MCKamDaemonLive ---------------------------
(***************************************************************************)
(* Liveness needs no symmetry and is costly, so the two clients get roles: *)
(* one only ever subscribes, and the other only uses the serial line.  The *)
(* roles restrict what clients ask for, on which no fairness is assumed.   *)
(***************************************************************************)
EXTENDS KamDaemon

CONSTANTS Listener, Operator

Roles ==
  /\ hpc'[Listener] \notin {"lock", "remove"}
  /\ hpc'[Operator] \notin {"add", "remove"}

RoleSpec == Init /\ [][Next /\ Roles]_vars /\ Fairness
=============================================================================
