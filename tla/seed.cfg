SPECIFICATION FewFaultsSpec
CONSTANTS
  MaxInt64 = 7
  NoAccount = NoAccount
  InitTxn = InitTxn
  s1 = s1 a1 = a1 a2 = a2 b1 = b1 u1 = u1 w1 = w1 w2 = w2
  creating_a1 = creating_a1 creating_a2 = creating_a2 creating_b1 = creating_b1
  Shards = {s1}
  Accounts = {a1, a2, b1}
  Transfers = {}
  Submissions = {}
  Unmapped = {u1}
  MaxRetries = 2
  Setups <- MCSetups
  Openings <- MCOpenings
  Home <- MCHome
  Source <- Nothing
  Destination <- Nothing
  Amount <- Nothing
  TxnOf <- Nothing
  Stripe <- Nothing
  CreateTxn <- MCCreateTxn
  InitialLog <- MCLog
  Faults <- OneOfEach
INVARIANTS SeededStays RetriesAbsorbFaults
PROPERTIES SeedEnds
CHECK_DEADLOCK FALSE
