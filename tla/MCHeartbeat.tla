---------------------------- MODULE MCHeartbeat ----------------------------
(* Instances of Heartbeat for TLC: two worker processes that were both     *)
(* started with the default WORKER_ID.                                     *)
EXTENDS Heartbeat

CONSTANTS p1, p2, i1

OneId == [p \in {p1, p2} |-> i1]
============================================================================
