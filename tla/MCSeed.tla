------------------------------- MODULE MCSeed -------------------------------
(***************************************************************************)
(* Instances of Seed: more jobs than the channel holds, among them an      *)
(* account without a shard and one that exists; two workers on one shard;  *)
(* a starting balance that the ledger rejects.                             *)
(***************************************************************************)
EXTENDS Seed, TLC

CONSTANTS s1, a1, a2, b1, u1, w1, w2, creating_a1, creating_a2, creating_b1

MCHome == (a1 :> s1 @@ a2 :> s1 @@ b1 :> s1)
MCCreateTxn == (a1 :> creating_a1 @@ a2 :> creating_a2 @@ b1 :> creating_b1)
MCSetups ==
  {[pool |-> {w1}, order |-> <<a1, u1, a2, b1>>, opening |-> 2],
   [pool |-> {w1, w2}, order |-> <<a1, b1>>, opening |-> 2],
   [pool |-> {w1, w2}, order |-> <<u1, a1>>, opening |-> -1]}
MCOpenings == {-1, 2}
Nothing == <<>>

\* a2 was created when s1 first started
MCLog ==
  (s1 :> <<WALEntry("CREATE_ACCOUNT", InitTxn, a2, 1), Marker("COMMITTED", InitTxn)>>)

OneOfEach == [k \in FaultKinds |-> CASE k = "create" -> 3 * MaxRetries
                                     [] k \in {"crash", "timeout", "flush", "fsync"} -> 1
                                     [] OTHER -> 0]

\* at most three faults in a behaviour, whichever they are
FewFaults == Cardinality({k \in {"crash", "timeout", "flush", "fsync"} : budget[k] = 0}) <= 3

FewFaultsSpec == SeedInit /\ [][SeedNext /\ FewFaults']_seedVars /\ Fairness
=============================================================================
