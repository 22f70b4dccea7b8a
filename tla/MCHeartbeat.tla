---------------------------- MODULE MCHeartbeat ----------------------------
(***************************************************************************)
(* Instance of Heartbeat: two peers and a limit of three misses, as the    *)
(* repository's tests use.                                                 *)
(***************************************************************************)
EXTENDS Heartbeat

CONSTANTS p1, p2

MCPeerAddrs == <<p1, p2>>

Trouble == [k \in HeartbeatFaultKinds |-> IF k = "cancel" THEN 1 ELSE 3]
=============================================================================
