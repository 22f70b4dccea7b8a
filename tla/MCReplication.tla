--------------------------- MODULE MCReplication ---------------------------
(***************************************************************************)
(* Instances of Replication: a primary with two followers, as every shard  *)
(* has in docker-compose.yml, and one or two log entries.                  *)
(***************************************************************************)
EXTENDS Replication, TLC

CONSTANTS r1, r2, r3, e1, e2, p1, p2

MCReplicaSet == <<r1, r2, r3>>

None == [k \in ReplicaFaultKinds |-> 0]

FollowerTrouble == [None EXCEPT !["entry"] = 2, !["crash"] = 1, !["timeout"] = 1]
CrashAndElect == [None EXCEPT !["entry"] = 1, !["crash"] = 1, !["append"] = 1, !["election"] = 1]
LostAnswer == [None EXCEPT !["entry"] = 1, !["unreachable"] = 1, !["election"] = 2]

Mixes == {FollowerTrouble, CrashAndElect, LostAnswer}
=============================================================================
