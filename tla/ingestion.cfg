SPECIFICATION FairSpec
CONSTANTS
  t1 = t1 t2 = t2 bad = bad self = self s1 = s1 s2 = s2 s3 = s3 q1 = q1 q2 = q2 q3 = q3
  Txns = {t1, t2, bad, self}
  Submissions = {s1, s2, s3}
  Requests = {q1, q2, q3}
  TxnOf <- Mixed
  Malformed = {bad}
  SelfTransfer = {self}
  RecentCap = 2
  IngestFaults <- OneOfEach
INVARIANTS RoutedOnce  LostOnlyByCrash
PROPERTIES ReadEventually
