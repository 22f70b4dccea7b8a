----------------------------- MODULE MCWALFile -----------------------------
(***************************************************************************)
(* Instance of WALFile with two transactions.                              *)
(***************************************************************************)
EXTENDS WALFile, TLC

CONSTANTS t1, t2

Trouble == [k \in WALFaultKinds |-> IF k \in {"crash", "checkpoint"} THEN 2 ELSE 1]

Alike == Permutations(Txns)
=============================================================================
