---------------------------- MODULE MCHeartbeat ----------------------------
(* The heartbeat monitor on a small instance: one time unit is 10 seconds.    *)
EXTENDS HeartbeatMonitor, TLC

WorkerSymmetry == Permutations(Workers)
=============================================================================
