SPECIFICATION Spec
CONSTANTS
  t1 = t1 t2 = t2 NoTxn = NoTxn
  Txns = {t1, t2}
  WALFaults <- Trouble
INVARIANTS LogIDsIncrease NewIDsAboveCheckpoint RestartSucceeds AckedIsReplayed AbortedStaysOut
SYMMETRY Alike
