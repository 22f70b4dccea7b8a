SPECIFICATION EitherSpec
CONSTANTS
  MaxInt64 = 7
  CommitAttempts = 3
  NoAccount = NoAccount
  InitTxn = InitTxn
  s1 = s1 s2 = s2 a1 = a1 a2 = a2 a3 = a3 b1 = b1 b2 = b2
  t1 = t1 t2 = t2 t3 = t3 t4 = t4 x1 = x1 x2 = x2 x3 = x3 x4 = x4 y1 = y1 y2 = y2 y3 = y3
  creating_a1 = creating_a1 creating_a2 = creating_a2
  creating_a3 = creating_a3 creating_b1 = creating_b1 creating_b2 = creating_b2
  Shards = {s1, s2}
  Accounts = {a1, a2, b1}
  Transfers = {t1, t2, t3, t4}
  Submissions = {x1, x2, x3, y1, y2, y3}
  Openings = {}
  Home <- BothHome
  Source <- BothSource
  Destination <- BothDestination
  Amount <- BothAmount
  TxnOf <- BothTxnOf
  Stripe <- OwnStripe
  CreateTxn <- CreateTxnOf
  InitialLog <- BothLog
  Faults <- LogFails
PROPERTIES DecidedIsFinal IsAtomic
SYMMETRY BothResubmitted
INVARIANTS AckedIsDurable NoOverdraft ReplayMatchesLedger NoReservationLeft
