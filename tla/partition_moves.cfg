SPECIFICATION MoveSpec
CONSTANTS
  a = a b = b p1 = p1 p2 = p2 x = x y = y z = z
  Shards = {a, b}
  Partitions = {p1, p2}
  Accounts = {x, y, z}
  GetPartition <- MCGetPartition
  Home <- MCHome
  MaxInt64 = 100
  Opening = 2
  MoveFaults <- Trouble
INVARIANTS SnapshotWasHeld NoDataLoss TargetHoldsSnapshot OneActiveOwner
