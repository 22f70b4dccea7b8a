---------------------------- MODULE MCRebalance ----------------------------
(***************************************************************************)
(* Instances of Rebalance: two shards, three partitions, and threshold 0,   *)
(* so that one commit in a round makes a hotspot.                           *)
(***************************************************************************)
EXTENDS Rebalance, TLC

CONSTANTS a, b, p1, p2, p3

MCHome == p1 :> a @@ p2 :> b @@ p3 :> b

Restarts == [k \in RebalanceFaultKinds |-> IF k = "round" THEN 2 ELSE 1]

\* at most two faults in a behaviour, whichever they are
FewFaults == Cardinality({k \in RebalanceFaultKinds \ {"round"} : events[k] = 0}) <= 2

FewFaultsSpec == RebalanceInit /\ [][RebalanceNext /\ FewFaults']_rebalanceVars /\ Fairness
=============================================================================
