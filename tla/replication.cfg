SPECIFICATION FairSpec
CONSTANTS
  r1 = r1 r2 = r2 r3 = r3 e1 = e1 e2 = e2 p1 = p1 p2 = p2
  Replicas = {r1, r2, r3}
  Primary = r1
  QuorumSize = 2
  Entries = {e1, e2}
  ShardPartitions = {p1, p2}
  ReplicaSet <- MCReplicaSet
  ReplicaFaults <- Mixes
INVARIANTS QuorumPersisted GivesUpOnlyWhenHopeless LoggedOnce RoutedTogether
PROPERTIES ReplicateReturns
