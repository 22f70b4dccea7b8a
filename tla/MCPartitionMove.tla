-------------------------- MODULE MCPartitionMove --------------------------
(***************************************************************************)
(* Instances of PartitionMove: two shards; two accounts in the partition   *)
(* of the first and one in that of the second.                             *)
(***************************************************************************)
EXTENDS PartitionMove, TLC

CONSTANTS a, b, p1, p2, x, y, z

MCHome == p1 :> a @@ p2 :> b
MCGetPartition == x :> p1 @@ y :> p1 @@ z :> p2

Trouble == [k \in MoveFaultKinds |-> IF k \in {"move", "transfer"} THEN 2 ELSE 1]
=============================================================================
