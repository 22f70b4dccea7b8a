SPECIFICATION FewFaultsSpec
CONSTANTS
  a = a b = b p1 = p1 p2 = p2 p3 = p3
  Shards = {a, b}
  Partitions = {p1, p2, p3}
  Home <- MCHome
  Threshold = 0
  MaxCommitted = 2
  RebalanceFaults <- Restarts
INVARIANTS   HotIsHot
 
