---------------------------- MODULE MCIngestion ----------------------------
(***************************************************************************)
(* Instances of Ingestion: three submissions at the gateway, two or three  *)
(* requests at the coordinator, duplicates of one another among them.      *)
(***************************************************************************)
EXTENDS Ingestion, TLC

CONSTANTS t1, t2, bad, self, s1, s2, s3, q1, q2, q3

Mixed == s1 :> t1 @@ s2 :> t2 @@ s3 :> bad @@ q1 :> t1 @@ q2 :> t1 @@ q3 :> self
Distinct == s1 :> t1 @@ s2 :> t2

None == [k \in IngestFaultKinds |-> 0]

OneOfEach == [k \in IngestFaultKinds |-> 1]
Crash == [None EXCEPT !["crash"] = 1]
=============================================================================
