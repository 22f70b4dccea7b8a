------------------------- MODULE CoordinatorProofs --------------------------
(***************************************************************************)
(* Two programs around the router: the way from the topic and from the     *)
(* HTTP endpoints to it, for any number of submissions, requests,          *)
(* duplicates and faults; and the copies of the shard map it routes by,    *)
(* with the hotspot rule of the load monitor that changes them, for any    *)
(* shards, partitions, thresholds, overlapping migrations and restarts.    *)
(***************************************************************************)
EXTENDS Ingestion, Rebalance, TLAPS

Tabled == Outcomes \cup {"none"}

TopicInv ==
  /\ topic \in Seq(Txns) /\ offset \in Nat /\ offset <= Len(topic)
  /\ handled \in Seq(Nat)
  /\ loop \in [pc : {"reading", "routing", "stopped"}, at : Nat]
  /\ loop.pc = "routing" => loop.at \in 1 .. offset

TableInv ==
  /\ http \in [Requests -> [pc : {"new", "routing", "routed", "recording", "done"}, res : RouteResults]]
  /\ results \in [Txns -> Tabled] /\ shard \in [Txns -> Tabled]

FaultInv ==
  /\ faults \in [IngestFaultKinds -> Nat]
  /\ \A k \in IngestFaultKinds : faults[k] <= IngestFaults[k]

(***************************************************************************)
(* The committed offset is ahead of everything routed, and the message     *)
(* being routed is ahead of everything routed before it.                   *)
(***************************************************************************)
OrderInv ==
  /\ RoutedOnce
  /\ \A i \in DOMAIN handled : handled[i] <= offset
  /\ loop.pc = "routing" => \A i \in DOMAIN handled : handled[i] < loop.at

(***************************************************************************)
(* What a handler is about to store is the outcome in the shards.          *)
(***************************************************************************)
StatusInv ==
  /\ StatusIsOutcome
  /\ \A q \in Requests : http[q].pc = "routed" => http[q].res = shard[TxnOf[q]]

IInv == TopicInv /\ TableInv /\ FaultInv /\ OrderInv /\ StatusInv /\ LostOnlyByCrash

\* Faults are counted down.
LEMMA FaultType ==
  ASSUME FaultInv, NEW k \in IngestFaultKinds, Fault(k)
  PROVE  /\ faults' \in [IngestFaultKinds -> Nat]
         /\ \A m \in IngestFaultKinds : faults'[m] <= faults[m]
         /\ faults'[k] < faults[k]
BY DEF FaultInv, Fault

\* A fault that happened has happened.
LEMMA HappenedStays ==
  ASSUME FaultInv, faults' \in [IngestFaultKinds -> Nat],
         \A m \in IngestFaultKinds : faults'[m] <= faults[m]
  PROVE  /\ FaultInv'
         /\ Happened({"crash", "commit"}) => Happened({"crash", "commit"})'
         /\ \A k \in {"crash", "commit"} : faults'[k] < faults[k] => Happened({"crash", "commit"})'
<1>1. IngestFaults \in [IngestFaultKinds -> Nat] BY IngestionAssumption
<1>2. \A m \in IngestFaultKinds : /\ faults'[m] \in Nat /\ faults[m] \in Nat /\ IngestFaults[m] \in Nat
                                  /\ faults'[m] <= faults[m] /\ faults[m] <= IngestFaults[m]
  BY <1>1 DEF FaultInv
<1>3. "crash" \in IngestFaultKinds /\ "commit" \in IngestFaultKinds BY DEF IngestFaultKinds
<1> QED BY <1>2, <1>3 DEF FaultInv, Happened

\* Route answers with the outcome that the shards keep, and changes no outcome.
LEMMA RouteKeeps ==
  ASSUME TableInv, FaultInv, NEW t \in Txns, NEW res \in RouteResults, Route(t, res)
  PROVE  /\ shard' \in [Txns -> Tabled]
         /\ \A u \in Txns : shard[u] \in Outcomes => shard'[u] = shard[u]
         /\ res # "error" => res = shard'[t]
         /\ faults' \in [IngestFaultKinds -> Nat]
         /\ \A m \in IngestFaultKinds : faults'[m] <= faults[m]
<1>1. CASE shard[t] \in Outcomes /\ res = shard[t] /\ UNCHANGED <<shard, faults>>
  BY <1>1 DEF TableInv, FaultInv
<1>2. CASE /\ shard[t] = "none" /\ res \in Outcomes
           /\ shard' = [shard EXCEPT ![t] = res] /\ UNCHANGED faults
  BY <1>2 DEF TableInv, FaultInv, Tabled, Outcomes
<1>3. CASE /\ res = "error" /\ Fault("route")
           /\ IF shard[t] = "none"
                THEN \E s \in Outcomes \cup {"none"} : shard' = [shard EXCEPT ![t] = s]
                ELSE UNCHANGED shard
  <2>1. /\ faults' \in [IngestFaultKinds -> Nat]
        /\ \A m \in IngestFaultKinds : faults'[m] <= faults[m]
    BY <1>3, FaultType DEF IngestFaultKinds
  <2>2. /\ shard' \in [Txns -> Tabled]
        /\ \A u \in Txns : shard[u] \in Outcomes => shard'[u] = shard[u]
    BY <1>3 DEF TableInv, Tabled, Outcomes
  <2> QED BY <1>3, <2>1, <2>2
<1> QED BY <1>1, <1>2, <1>3 DEF Route

\* While the outcomes stay, results that were true of them are.
LEMMA KeptStatus ==
  ASSUME TableInv, StatusInv, UNCHANGED <<http, results>>,
         \A u \in Txns : shard[u] \in Outcomes => shard'[u] = shard[u]
  PROVE  StatusInv'
<1>1. \A q \in Requests : TxnOf[q] \in Txns BY IngestionAssumption
<1>2. StatusIsOutcome' BY DEF StatusInv, StatusIsOutcome, TableInv, Tabled, Outcomes
<1>3. \A q \in Requests : http[q].pc = "routed" => shard[TxnOf[q]] \in Outcomes
  BY <1>1 DEF StatusInv, TableInv, Tabled, Outcomes, RouteResults
<1> QED BY <1>1, <1>2, <1>3 DEF StatusInv

\* What the steps of the HTTP endpoints leave alone.
LEMMA KeptTopic == TopicInv /\ UNCHANGED <<kafkaVars, loop, handled>> => TopicInv'
BY DEF TopicInv, kafkaVars

\* The order in which messages are routed is the loop's own.
LEMMA KeptOrder == OrderInv /\ UNCHANGED <<kafkaVars, loop, handled>> => OrderInv'
BY DEF OrderInv, RoutedOnce, kafkaVars

\* A message that is accounted for stays so while the outcomes stay.
LEMMA KeptLost ==
  ASSUME TopicInv, NothingLost, UNCHANGED <<kafkaVars, loop, handled>>,
         \A u \in Txns : shard[u] \in Outcomes => shard'[u] = shard[u]
  PROVE  NothingLost'
<1>1. UNCHANGED <<topic, offset, loop, handled>> BY Zenon DEF kafkaVars
<1>2. \A n \in DOMAIN topic : topic[n] \in Txns BY DEF TopicInv
<1>3. \A n \in DOMAIN topic : shard[topic[n]] \in Outcomes => shard'[topic[n]] \in Outcomes BY <1>2, Zenon
<1> QED BY ONLY <1>1, <1>3, NothingLost DEF NothingLost

\* Nothing is on its way at the start.
LEMMA InitIInv == Init => IInv
<1> SUFFICES ASSUME Init PROVE IInv OBVIOUS
<1>1. TopicInv BY DEF Init, TopicInv, Reading
<1>2. TableInv BY DEF Init, TableInv, RouteResults, Tabled
<1>3. FaultInv BY IngestionAssumption DEF Init, FaultInv
<1>4. OrderInv BY DEF Init, OrderInv, RoutedOnce, Reading
<1>5. StatusInv BY DEF Init, StatusInv, StatusIsOutcome
<1>6. LostOnlyByCrash BY DEF Init, LostOnlyByCrash, NothingLost
<1> QED BY <1>1, <1>2, <1>3, <1>4, <1>5, <1>6 DEF IInv

\* A submission appends to the topic, or changes no more than the answer.
LEMMA SubmitIInv ==
  ASSUME IInv, NEW s \in Submissions, HandleSubmit(s)
  PROVE  IInv'
<1> TopicInv /\ TableInv /\ FaultInv /\ OrderInv /\ StatusInv /\ LostOnlyByCrash BY DEF IInv
<1>0. TxnOf[s] \in Txns BY IngestionAssumption
<1>1. /\ topic' = topic \/ topic' = Append(topic, TxnOf[s])
      /\ UNCHANGED <<offset, coordVars, handled, shard>>
  BY DEF HandleSubmit, Publish
<1>2. FaultInv' /\ (Happened({"crash", "commit"}) => Happened({"crash", "commit"})')
  <2>1. CASE UNCHANGED faults BY <2>1 DEF FaultInv, Happened
  <2>2. CASE Fault("publish") \/ Fault("unstored")
    BY <2>2, FaultType, HappenedStays DEF IngestFaultKinds
  <2> QED BY <2>1, <2>2 DEF HandleSubmit
<1>3. /\ topic' \in Seq(Txns) /\ Len(topic) <= Len(topic')
      /\ \A n \in DOMAIN topic' : \/ n \in DOMAIN topic /\ topic'[n] = topic[n]
                                  \/ n = Len(topic) + 1
  <2> topic \in Seq(Txns) BY DEF TopicInv
  <2>1. CASE topic' = topic BY <2>1
  <2>2. CASE topic' = Append(topic, TxnOf[s]) BY <1>0, <2>2
  <2> QED BY <1>1, <2>1, <2>2
<1>4. TopicInv' BY <1>1, <1>3 DEF TopicInv, coordVars
<1>5. TableInv' BY <1>1 DEF TableInv, coordVars
<1>6. OrderInv' BY <1>1 DEF OrderInv, RoutedOnce, coordVars
<1>7. StatusInv' BY <1>1 DEF StatusInv, StatusIsOutcome, coordVars
<1>8. NothingLost => NothingLost' BY <1>1, <1>3 DEF NothingLost, TopicInv, coordVars
<1> QED BY <1>2, <1>4, <1>5, <1>6, <1>7, <1>8 DEF IInv, LostOnlyByCrash

\* The loop takes up the message after the committed offset.
LEMMA ReadIInv ==
  ASSUME IInv, ReadMessage
  PROVE  IInv'
<1> TopicInv /\ TableInv /\ FaultInv /\ OrderInv /\ StatusInv /\ LostOnlyByCrash BY DEF IInv
<1>1. TopicInv' BY DEF ReadMessage, TopicInv
<1>2. TableInv' BY DEF ReadMessage, TableInv
<1>3. FaultInv' /\ (Happened({"crash", "commit"}) => Happened({"crash", "commit"})')
  BY DEF ReadMessage, FaultInv, Happened
<1>4. OrderInv'
  <2>1. /\ offset \in Nat /\ offset' = offset + 1 /\ UNCHANGED handled
        /\ loop'.pc = "routing" /\ loop'.at = offset + 1
    BY DEF ReadMessage, TopicInv
  <2> QED BY <2>1 DEF OrderInv, RoutedOnce, TopicInv
<1>5. StatusInv' BY DEF ReadMessage, StatusInv, StatusIsOutcome
<1>6. NothingLost => NothingLost' BY DEF ReadMessage, NothingLost, TopicInv
<1> QED BY <1>1, <1>2, <1>3, <1>4, <1>5, <1>6 DEF IInv, LostOnlyByCrash

\* A failed commit of the offset ends the loop.
LEMMA ReadFailsIInv ==
  ASSUME IInv, ReadMessageFails
  PROVE  IInv'
<1> TopicInv /\ TableInv /\ FaultInv /\ OrderInv /\ StatusInv BY DEF IInv
<1>1. TopicInv' BY DEF ReadMessageFails, TopicInv, Reading
<1>2. TableInv' BY DEF ReadMessageFails, TableInv
<1>3. FaultInv' /\ Happened({"crash", "commit"})'
  BY FaultType, HappenedStays DEF ReadMessageFails, IngestFaultKinds
<1>4. OrderInv' BY DEF ReadMessageFails, OrderInv, RoutedOnce, TopicInv, Reading
<1>5. StatusInv' BY DEF ReadMessageFails, StatusInv, StatusIsOutcome
<1> QED BY <1>1, <1>2, <1>3, <1>4, <1>5 DEF IInv, LostOnlyByCrash

\* Routing a message records its position behind all others.
LEMMA RouteMessageIInv ==
  ASSUME IInv, RouteMessage
  PROVE  IInv'
<1> TopicInv /\ TableInv /\ FaultInv /\ OrderInv /\ StatusInv /\ LostOnlyByCrash BY DEF IInv
<1>0. /\ loop.pc = "routing" /\ loop.at \in 1 .. offset /\ loop.at \in DOMAIN topic
      /\ topic[loop.at] \in Txns
  BY DEF RouteMessage, TopicInv
<1>1. /\ shard' \in [Txns -> Tabled]
      /\ \A u \in Txns : shard[u] \in Outcomes => shard'[u] = shard[u]
      /\ FaultInv' /\ (Happened({"crash", "commit"}) => Happened({"crash", "commit"})')
  BY <1>0, RouteKeeps, HappenedStays DEF RouteMessage
<1>2. /\ handled' \in Seq(Nat) /\ DOMAIN handled' = 1 .. Len(handled) + 1
      /\ DOMAIN handled = 1 .. Len(handled) /\ Len(handled) \in Nat
      /\ \A i \in DOMAIN handled : handled'[i] = handled[i]
      /\ handled'[Len(handled) + 1] = loop.at
  <2> handled \in Seq(Nat) /\ loop.at \in Nat BY <1>0 DEF TopicInv
  <2> QED BY DEF RouteMessage
<1>3. UNCHANGED <<kafkaVars, http, results>> /\ loop'.pc = "reading" /\ loop' \in [pc : {"reading"}, at : Nat]
  BY DEF RouteMessage, Reading
<1>4. TopicInv' BY <1>2, <1>3 DEF TopicInv, kafkaVars
<1>5. TableInv' BY <1>1, <1>3 DEF TableInv
<1>6. OrderInv'
  <2>1. \A i \in DOMAIN handled : handled[i] \in Nat BY DEF TopicInv
  <2>2. RoutedOnce' BY <1>0, <1>2, <2>1 DEF OrderInv, RoutedOnce
  <2>3. \A i \in DOMAIN handled' : handled'[i] <= offset'
    BY <1>0, <1>2, <1>3, <2>1 DEF OrderInv, kafkaVars
  <2> QED BY <1>3, <2>2, <2>3 DEF OrderInv
<1>7. StatusInv' BY <1>1, <1>3, KeptStatus
<1>8. NothingLost => NothingLost'
  <2>1. ASSUME NothingLost, NEW n \in DOMAIN topic, ~(n > offset), ~(shard'[topic[n]] \in Outcomes)
        PROVE  \E i \in DOMAIN handled' : handled'[i] = n
    <3>1. topic[n] \in Txns /\ ~(shard[topic[n]] \in Outcomes) BY <1>1, <2>1 DEF TopicInv
    <3> QED BY <1>2, <2>1, <3>1 DEF NothingLost
  <2> QED BY <1>3, <2>1 DEF NothingLost, kafkaVars
<1> QED BY <1>1, <1>4, <1>5, <1>6, <1>7, <1>8 DEF IInv, LostOnlyByCrash

\* A handler stores what Route returned, and no more.
LEMMA ServeIInv ==
  ASSUME IInv, NEW q \in Requests, Serve(q)
  PROVE  IInv'
<1> TopicInv /\ TableInv /\ FaultInv /\ OrderInv /\ StatusInv /\ LostOnlyByCrash BY DEF IInv
<1>0. \A r \in Requests : TxnOf[r] \in Txns BY IngestionAssumption
<1>1. UNCHANGED <<kafkaVars, loop, handled>>
  BY DEF Serve, Validate, RouteRequest, StoreResult, AddRecentTxn
<1>2. CASE RouteRequest(q)
  <2> PICK res \in RouteResults :
        /\ Route(TxnOf[q], res)
        /\ http' = [http EXCEPT ![q] =
             IF res = "error" THEN [pc |-> "done", res |-> res] ELSE [pc |-> "routed", res |-> res]]
    BY <1>2, Zenon DEF RouteRequest
  <2>1. /\ shard' \in [Txns -> Tabled]
        /\ \A u \in Txns : shard[u] \in Outcomes => shard'[u] = shard[u]
        /\ res # "error" => res = shard'[TxnOf[q]]
        /\ FaultInv' /\ (Happened({"crash", "commit"}) => Happened({"crash", "commit"})')
    BY <1>0, RouteKeeps, HappenedStays
  <2>2. results' = results BY <1>2 DEF RouteRequest
  <2>3. TableInv' BY <2>1, <2>2 DEF TableInv
  <2>4. StatusIsOutcome' BY <2>1, <2>2 DEF StatusInv, StatusIsOutcome, TableInv, Tabled, Outcomes
  <2>5. ASSUME NEW r \in Requests, http'[r].pc = "routed" PROVE http'[r].res = shard'[TxnOf[r]]
    <3>1. CASE r = q BY <2>1, <2>5, <3>1 DEF TableInv
    <3>2. CASE r # q
      <4>1. http'[r] = http[r] BY <3>2 DEF TableInv
      <4> QED BY <1>0, <2>1, <2>5, <4>1 DEF StatusInv, TableInv, Tabled, Outcomes, RouteResults
    <3> QED BY <3>1, <3>2
  <2> QED BY <1>1, <2>1, <2>3, <2>4, <2>5, KeptOrder, KeptTopic, KeptLost DEF IInv, StatusInv, LostOnlyByCrash
<1>3. CASE Validate(q) \/ StoreResult(q) \/ AddRecentTxn(q)
  <2>1. UNCHANGED <<shard, faults>> BY <1>3 DEF Validate, StoreResult, AddRecentTxn
  <2>2. FaultInv' /\ (Happened({"crash", "commit"}) => Happened({"crash", "commit"})')
    BY <2>1 DEF FaultInv, Happened
  <2>3. /\ http' \in [Requests -> [pc : {"new", "routing", "routed", "recording", "done"}, res : RouteResults]]
        /\ \A r \in Requests : http'[r].pc = "routed" => http[r].pc = "routed" /\ http'[r].res = http[r].res
    BY <1>3 DEF Validate, StoreResult, AddRecentTxn, TableInv
  <2>4. results' \in [Txns -> Tabled] /\ StatusIsOutcome'
    <3>1. CASE StoreResult(q)
      <4>1. /\ http[q].res = shard[TxnOf[q]] /\ shard[TxnOf[q]] \in Tabled
            /\ results' = [results EXCEPT ![TxnOf[q]] = http[q].res]
        BY <1>0, <3>1 DEF StoreResult, StatusInv, TableInv
      <4> QED BY <1>0, <2>1, <4>1 DEF StatusInv, StatusIsOutcome, TableInv
    <3>2. CASE Validate(q) \/ AddRecentTxn(q)
      BY <2>1, <3>2 DEF Validate, AddRecentTxn, StatusInv, StatusIsOutcome, TableInv
    <3> QED BY <1>3, <3>1, <3>2
  <2>5. TableInv' BY <2>1, <2>3, <2>4 DEF TableInv
  <2>6. StatusInv' BY <2>1, <2>3, <2>4 DEF StatusInv
  <2> QED BY <1>1, <2>1, <2>2, <2>5, <2>6, KeptOrder, KeptTopic, KeptLost DEF IInv, LostOnlyByCrash
<1> QED BY <1>2, <1>3 DEF Serve

\* A crash empties the tables, and decides what was under way at most.
LEMMA CrashIInv ==
  ASSUME IInv, CoordinatorCrash
  PROVE  IInv'
<1> TopicInv /\ TableInv /\ FaultInv /\ OrderInv BY DEF IInv
<1>1. TopicInv' BY DEF CoordinatorCrash, kafkaVars, TopicInv, Reading
<1>2. \A q \in Requests : http'[q] \in [pc : {"new", "done"}, res : RouteResults]
  BY DEF CoordinatorCrash, TableInv
<1>3. shard' \in [Txns -> Tabled] /\ results' = [t \in Txns |-> "none"]
      /\ http' = [q \in Requests |-> http'[q]]
  BY DEF CoordinatorCrash, Tabled
<1>4. TableInv' BY <1>2, <1>3 DEF TableInv, Tabled
<1>5. StatusInv' BY <1>2, <1>3 DEF StatusInv, StatusIsOutcome
<1>6. FaultInv' /\ Happened({"crash", "commit"})'
  BY FaultType, HappenedStays DEF CoordinatorCrash, IngestFaultKinds
<1>7. OrderInv' BY DEF CoordinatorCrash, kafkaVars, OrderInv, RoutedOnce, Reading
<1> QED BY <1>1, <1>4, <1>5, <1>6, <1>7 DEF IInv, LostOnlyByCrash

\* Every action keeps the invariant.
LEMMA NextIInv == IInv /\ [Next]_vars => IInv'
<1> SUFFICES ASSUME IInv, [Next]_vars PROVE IInv' OBVIOUS
<1>1. CASE CoordinatorStart \/ Idle \/ UNCHANGED vars
  <2>1. UNCHANGED <<kafkaVars, loop, http, results, handled, shard, faults>>
    BY <1>1 DEF CoordinatorStart, Idle, vars, coordVars
  <2>2. TopicInv' /\ OrderInv' BY <2>1, KeptTopic, KeptOrder DEF IInv
  <2>3. TableInv' BY <2>1 DEF IInv, TableInv
  <2>4. FaultInv' /\ (Happened({"crash", "commit"}) => Happened({"crash", "commit"})')
    BY <2>1 DEF IInv, FaultInv, Happened
  <2>5. StatusInv' BY <2>1 DEF IInv, StatusInv, StatusIsOutcome
  <2>6. NothingLost => NothingLost' BY <2>1 DEF NothingLost, kafkaVars
  <2> QED BY <2>2, <2>3, <2>4, <2>5, <2>6 DEF IInv, LostOnlyByCrash
<1> QED
  BY <1>1, SubmitIInv, ReadIInv, ReadFailsIInv, RouteMessageIInv, ServeIInv, CrashIInv DEF Next

\* The invariant holds in every reachable state.
LEMMA IInvHolds == Spec => []IInv
BY InitIInv, NextIInv, PTL DEF Spec

\* Because the offset is committed before a message is routed, no crash and no
\* failed commit makes the loop route a position twice or go back.
THEOREM RoutedOnceHolds == Spec => []RoutedOnce
<1>1. IInv => RoutedOnce BY DEF IInv, OrderInv
<1> QED BY <1>1, IInvHolds, PTL

\* The result table of the coordinator never contradicts the shards.
THEOREM StatusIsOutcomeHolds == Spec => []StatusIsOutcome
<1>1. IInv => StatusIsOutcome BY DEF IInv, StatusInv
<1> QED BY <1>1, IInvHolds, PTL

\* A message leaves the topic without being routed or carried out only in a
\* crash of the coordinator or a failed commit of the offset.
THEOREM LostOnlyByCrashHolds == Spec => []LostOnlyByCrash
<1>1. IInv => LostOnlyByCrash BY DEF IInv
<1> QED BY <1>1, IInvHolds, PTL

-----------------------------------------------------------------------------
(***************************************************************************)
(* The maps.  A file that cannot be written is the map of the beginning,   *)
(* whatever the monitor has in memory.                                     *)
(***************************************************************************)
MapInv ==
  /\ writable => fileMap = monMap
  /\ ~writable => fileMap = Home /\ coordMap = Home

\* The copies of the map are in step at the start and after every action.
LEMMA MapInvHolds == RebalanceSpec => []MapInv
<1>1. RebalanceInit => MapInv BY DEF RebalanceInit, MapInv
<1>2. MapInv /\ [RebalanceNext]_rebalanceVars => MapInv'
  <2> SUFFICES ASSUME MapInv, [RebalanceNext]_rebalanceVars PROVE MapInv' OBVIOUS
  <2>1. CASE UNCHANGED maps BY <2>1 DEF MapInv, maps
  <2>2. ASSUME NEW j \in jobs, UpdatePartition(j) PROVE MapInv'
    BY <2>2 DEF UpdatePartition, Saved, MapInv
  <2>3. CASE MonitorRestart BY <2>3 DEF MonitorRestart, MapInv
  <2>4. CASE CoordinatorRestart BY <2>4 DEF CoordinatorRestart, MapInv
  <2>5. ASSUME NEW j \in jobs, PickPartition(j) \/ RecordMigration(j) PROVE UNCHANGED maps
    BY <2>5, Zenon DEF PickPartition, RecordMigration
  <2>6. ASSUME NEW s \in Shards, Commit(s) \/ ShardRestart(s) PROVE UNCHANGED maps
    BY <2>6 DEF Commit, ShardRestart
  <2>7. CASE PollShards \/ CheckHotspots \/ CooldownEnds
    BY <2>7, <2>1 DEF PollShards, CheckHotspots, CooldownEnds
  <2>8. CASE AtRest \/ UNCHANGED rebalanceVars BY <2>8, <2>1 DEF AtRest, rebalanceVars
  <2> QED BY <2>1, <2>2, <2>3, <2>4, <2>5, <2>6, <2>7, <2>8 DEF RebalanceNext, Migrate
<1> QED BY <1>1, <1>2, PTL DEF RebalanceSpec

\* Where the file can be written, UpdatePartition's save under the map's lock
\* keeps it equal to the monitor's map through any interleaving of migrations.
THEOREM FileIsMapHolds == RebalanceSpec => []FileIsMap
<1>1. MapInv => FileIsMap BY DEF MapInv, FileIsMap
<1> QED BY <1>1, MapInvHolds, PTL

\* With the file read-only, no restart of the coordinator brings a migration
\* into its routing.
THEOREM RoutedHomeHolds == RebalanceSpec => []RoutedHome
<1>1. MapInv => RoutedHome BY DEF MapInv, RoutedHome
<1> QED BY <1>1, MapInvHolds, PTL

-----------------------------------------------------------------------------
(***************************************************************************)
(* The hotspot rule.                                                       *)
(***************************************************************************)
IsJob(j) ==
  j \in [id : {j.id}, hot : {j.hot}, cool : Shards, pc : {j.pc}, part : {j.part}, burst : {j.burst}]

RateTypes ==
  /\ committed \in [Shards -> Nat]
  /\ since \in [Shards -> Nat] /\ burst \in [Shards -> Nat]
  /\ metrics \in [Shards -> Int] /\ prev \in [Shards -> Int]
  /\ poller \in {"sleeping", "polled"}
  /\ monMap \in [Partitions -> Shards] /\ fileMap \in [Partitions -> Shards]
  /\ \A j \in jobs : IsJob(j)
  /\ emptied \subseteq Shards
  /\ Shards \ AllShards(monMap) \subseteq emptied
  /\ events \in [RebalanceFaultKinds -> Nat]
  /\ \A k \in RebalanceFaultKinds : events[k] <= RebalanceFaults[k]

\* the count that the next rate is taken from
Base(s) == IF metrics[s] = Unknown THEN 0 ELSE metrics[s]

\* n commits, counted up to one above the threshold, cover a difference d
Covers(n, d) == n > Threshold \/ d <= n

(***************************************************************************)
(* A shard that every round has polled: between the rounds, prev is the    *)
(* last metrics and since covers what the shard committed after them;      *)
(* between poll and check, burst covers the rate.                          *)
(***************************************************************************)
RateInv ==
  /\ \A s \in Shards \ emptied :
       /\ Covers(since[s], committed[s] - Base(s))
       /\ poller = "sleeping" => prev[s] = Base(s)
       /\ poller = "polled" => metrics[s] # Unknown /\ Covers(burst[s], metrics[s] - prev[s])
  /\ \A j \in jobs : j.hot \in emptied \/ j.burst > Threshold

Regular == ~Occurred({"monitor", "poll"})

RebalanceInv == RateTypes /\ (Regular => RateInv)

\* A fault that has happened has happened.
LEMMA FaultMonotonic ==
  ASSUME RateTypes, NEW k \in RebalanceFaultKinds, Event(k)
  PROVE  /\ events' \in [RebalanceFaultKinds -> Nat]
         /\ \A m \in RebalanceFaultKinds : events'[m] <= events[m]
         /\ events'[k] < events[k]
         /\ \A m \in RebalanceFaultKinds : m # k => events'[m] = events[m]
BY DEF RateTypes, Event

\* The kinds that the hotspot rule depends on.
LEMMA RegularMeans ==
  /\ Regular <=> /\ ~(events["monitor"] < RebalanceFaults["monitor"])
                 /\ ~(events["poll"] < RebalanceFaults["poll"])
  /\ Regular' <=> /\ ~(events'["monitor"] < RebalanceFaults["monitor"])
                  /\ ~(events'["poll"] < RebalanceFaults["poll"])
BY DEF Regular, Occurred

\* At the start every shard with a partition is about to be polled from zero.
LEMMA InitRebalanceInv == RebalanceInit => RebalanceInv
<1> SUFFICES ASSUME RebalanceInit PROVE RebalanceInv OBVIOUS
<1> USE RebalanceAssumption
<1>1. RateTypes BY DEF RebalanceInit, RateTypes, AllShards, Unknown
<1>2. RateInv BY DEF RebalanceInit, RateInv, Base, Covers, Unknown
<1> QED BY <1>1, <1>2 DEF RebalanceInv

\* The counters of a shard, which only its own steps change.
LEMMA ShardIInv ==
  ASSUME RebalanceInv, NEW s \in Shards, Commit(s) \/ ShardRestart(s)
  PROVE  RebalanceInv'
<1> USE RebalanceAssumption
<1> RateTypes BY DEF RebalanceInv
<1>1. CASE Commit(s)
  <2>c. UNCHANGED <<burst, emptied, metrics, prev, poller, jobs, monMap, fileMap, events>>
    BY <1>1, Zenon DEF Commit, pollVars, jobVars, maps
  <2>d. committed' \in [Shards -> Nat] /\ since' \in [Shards -> Nat] BY <1>1 DEF Commit, RateTypes
  <2>1. RateTypes' BY <2>c, <2>d, Zenon DEF RateTypes, AllShards, IsJob
  <2>2. Regular' = Regular BY <1>1 DEF Commit, Regular, Occurred
  <2>3. ASSUME RateInv PROVE RateInv'
    BY <1>1, <2>3 DEF Commit, RateInv, RateTypes, pollVars, jobVars, Base, Covers, Unknown
  <2> QED BY <2>1, <2>2, <2>3 DEF RebalanceInv
<1>2. CASE ShardRestart(s)
  <2>0. Event("shard") BY <1>2 DEF ShardRestart
  <2>1. RateTypes'
    BY <1>2, <2>0, FaultMonotonic DEF ShardRestart, RateTypes, pollVars, jobVars, maps, history, AllShards, IsJob, RebalanceFaultKinds
  <2>2. Regular' => Regular
    BY <2>0, FaultMonotonic, RegularMeans DEF RebalanceFaultKinds, RateTypes
  <2>3. ASSUME RateInv PROVE RateInv'
    BY <1>2, <2>3 DEF ShardRestart, RateInv, RateTypes, pollVars, jobVars, history, Base, Covers, Unknown
  <2> QED BY <2>1, <2>2, <2>3 DEF RebalanceInv
<1> QED BY <1>1, <1>2

\* A poll that every shard with a partition answers starts a new interval for
\* all of them.
LEMMA PollIInv ==
  ASSUME RebalanceInv, PollShards
  PROVE  RebalanceInv'
<1> USE RebalanceAssumption
<1> RateTypes BY DEF RebalanceInv
<1> PICK down \in SUBSET AllShards(monMap) :
      /\ down = {} \/ events["poll"] > 0
      /\ metrics' = [s \in Shards |->
           IF s \in AllShards(monMap) \ down THEN committed[s] ELSE metrics[s]]
      /\ events' = [events EXCEPT !["round"] = @ - 1, !["poll"] = IF down = {} THEN @ ELSE @ - 1]
  BY Zenon DEF PollShards
<1>1. /\ events' \in [RebalanceFaultKinds -> Nat]
      /\ \A k \in RebalanceFaultKinds : events'[k] <= events[k]
      /\ events'["monitor"] = events["monitor"]
      /\ down # {} => events'["poll"] < events["poll"]
  BY DEF PollShards, RateTypes, RebalanceFaultKinds
<1>2. RateTypes'
  BY <1>1 DEF PollShards, RateTypes, jobVars, maps, AllShards, IsJob, RebalanceFaultKinds
<1>3. ASSUME Regular' PROVE Regular /\ down = {}
  BY <1>1, <1>3, RegularMeans DEF RateTypes, RebalanceFaultKinds
<1>4. ASSUME RateInv, down = {} PROVE RateInv'
  <2>1. ASSUME NEW s \in Shards \ emptied
        PROVE  metrics'[s] = committed[s] /\ committed[s] \in Nat /\ s \in Shards
    BY <1>4 DEF RateTypes
  <2>2. /\ poller = "sleeping" /\ poller' = "polled" /\ burst' = since /\ since' = [s \in Shards |-> 0]
        /\ UNCHANGED <<committed, emptied, prev, jobs>>
    BY Zenon DEF PollShards, jobVars
  <2>3. ASSUME NEW s \in Shards \ emptied
        PROVE  /\ Covers(since'[s], committed'[s] - Base(s)')
               /\ metrics'[s] # Unknown /\ Covers(burst'[s], metrics'[s] - prev'[s])
    <3>1. prev[s] = Base(s) /\ Covers(since[s], committed[s] - Base(s)) BY <1>4, <2>2, Zenon DEF RateInv
    <3>2. metrics'[s] # Unknown /\ Base(s)' = committed[s] BY ONLY <2>1 DEF Base, Unknown
    <3>3. since'[s] = 0 /\ committed'[s] - Base(s)' = 0 BY ONLY <2>1, <2>2, <3>2
    <3>4. Covers(since'[s], committed'[s] - Base(s)') BY ONLY <3>3 DEF Covers
    <3>5. Covers(burst'[s], metrics'[s] - prev'[s]) BY <2>1, <2>2, <3>1, Zenon
    <3> QED BY <3>2, <3>4, <3>5, Zenon
  <2> QED BY <1>4, <2>2, <2>3 DEF RateInv
<1> QED BY <1>2, <1>3, <1>4 DEF RebalanceInv

\* A round starts a migration only from a shard whose rate is above the
\* threshold, and the rate of a shard that was always polled is its burst.
LEMMA CheckIInv ==
  ASSUME RebalanceInv, CheckHotspots
  PROVE  RebalanceInv'
<1> USE RebalanceAssumption
<1> RateTypes BY DEF RebalanceInv
<1>1. \A j \in jobs' : \/ j \in jobs
                       \/ \E hot \in Hottest, cool \in Coolest :
                            /\ Imbalanced(hot, cool)
                            /\ j = [id |-> NewID, hot |-> hot, cool |-> cool, pc |-> "pick",
                                    part |-> {}, burst |-> burst[hot]]
  BY Zenon DEF CheckHotspots
<1>2. AllShards(monMap) \subseteq Shards BY DEF AllShards, RateTypes
<1>3. \A j \in jobs' : IsJob(j)
  BY <1>1, <1>2 DEF RateTypes, IsJob, Coolest, Known
<1>4. RateTypes'
  BY <1>2, <1>3, Zenon DEF CheckHotspots, RateTypes, maps, history, AllShards, Known
<1>5. Regular' = Regular BY DEF CheckHotspots, Regular, Occurred
<1>6. ASSUME RateInv PROVE RateInv'
  <2>1. ASSUME NEW s \in Shards \ emptied
        PROVE  s \in Known /\ metrics[s] # Unknown /\ prev'[s] = metrics[s]
    BY <1>6 DEF CheckHotspots, RateInv, RateTypes, Known
  <2>2. ASSUME NEW hot \in Hottest, NEW cool \in Coolest, Imbalanced(hot, cool), hot \notin emptied
        PROVE  burst[hot] > Threshold
    <3>1. hot \in Shards \ emptied /\ metrics[hot] - prev[hot] > Threshold
      BY <2>2, <1>2, Zenon DEF Imbalanced, Hottest, Known, Rate
    <3>2. Covers(burst[hot], metrics[hot] - prev[hot]) BY <3>1, <1>6, Zenon DEF RateInv, CheckHotspots
    <3>3. metrics[hot] \in Int /\ prev[hot] \in Int /\ burst[hot] \in Int /\ Threshold \in Int BY <3>1 DEF RateTypes
    <3> QED BY ONLY <3>1, <3>2, <3>3 DEF Covers
  <2>3. ASSUME NEW j \in jobs' PROVE j.hot \in emptied \/ j.burst > Threshold
    <3>1. CASE j \in jobs BY <3>1, <1>6 DEF RateInv
    <3>2. CASE j \notin jobs
      <4>1. PICK hot \in Hottest, cool \in Coolest :
              Imbalanced(hot, cool) /\ j.hot = hot /\ j.burst = burst[hot]
        BY <3>2, <1>1
      <4> QED BY <4>1, <2>2
    <3> QED BY <3>1, <3>2
  <2> QED BY <1>6, <2>1, <2>3, Zenon DEF CheckHotspots, RateInv, history, Base, Covers
<1> QED BY <1>4, <1>5, <1>6 DEF RebalanceInv

\* A migration adds the shard that it empties to those the rule does not cover.
LEMMA MigrateIInv ==
  ASSUME RebalanceInv, NEW j \in jobs, Migrate(j)
  PROVE  RebalanceInv'
<1> USE RebalanceAssumption
<1> RateTypes /\ IsJob(j) BY DEF RebalanceInv, RateTypes
<1>1. \A k \in jobs' : IsJob(k) /\ (k \in jobs \/ (k.hot = j.hot /\ k.burst = j.burst))
  <2>1. CASE PickPartition(j)
    <3>1. ASSUME NEW p \in Partitions
          PROVE  LET k == [j EXCEPT !.pc = "move", !.part = {p}]
                 IN  IsJob(k) /\ k.hot = j.hot /\ k.burst = j.burst
      BY Zenon DEF IsJob
    <3> QED BY <2>1, <3>1, Zenon DEF PickPartition, Becomes, RateTypes, GetPartitionsForShard
  <2>2. CASE UpdatePartition(j)
    <3>1. LET k == [j EXCEPT !.pc = "record"] IN IsJob(k) /\ k.hot = j.hot /\ k.burst = j.burst
      BY DEF IsJob
    <3> QED BY <2>2, <3>1, Zenon DEF UpdatePartition, Becomes, RateTypes
  <2>3. CASE RecordMigration(j) BY <2>3 DEF RecordMigration, RateTypes
  <2> QED BY <2>1, <2>2, <2>3 DEF Migrate
<1>2. /\ UNCHANGED <<committed, since, burst, pollVars, events>>
      /\ emptied \subseteq emptied'
  BY Zenon DEF Migrate, PickPartition, UpdatePartition, RecordMigration, history
<1>3. /\ monMap' \in [Partitions -> Shards] /\ fileMap' \in [Partitions -> Shards]
      /\ emptied' \subseteq Shards /\ Shards \ AllShards(monMap)' \subseteq emptied'
  <2>1. CASE UpdatePartition(j) BY <2>1 DEF UpdatePartition, Saved, RateTypes, IsJob, AllShards
  <2>2. CASE PickPartition(j) \/ RecordMigration(j)
    BY <2>2, Zenon DEF PickPartition, RecordMigration, history, maps, RateTypes, AllShards
  <2> QED BY <2>1, <2>2 DEF Migrate
<1>4. RateTypes' BY <1>1, <1>2, <1>3 DEF RateTypes, pollVars
<1>5. Regular' = Regular BY <1>2 DEF Regular, Occurred
<1>6. ASSUME RateInv PROVE RateInv' BY <1>1, <1>2, <1>6, Zenon DEF RateInv, pollVars, Base
<1> QED BY <1>4, <1>5, <1>6 DEF RebalanceInv

\* Every action keeps the invariant.
LEMMA NextRebalanceInv == RebalanceInv /\ [RebalanceNext]_rebalanceVars => RebalanceInv'
<1> SUFFICES ASSUME RebalanceInv, [RebalanceNext]_rebalanceVars PROVE RebalanceInv' OBVIOUS
<1> USE RebalanceAssumption
<1> RateTypes BY DEF RebalanceInv
<1>1. CASE MonitorRestart
  <2>0. Event("monitor") BY <1>1 DEF MonitorRestart
  <2>1. RateTypes'
    BY <1>1, <2>0, FaultMonotonic DEF MonitorRestart, RateTypes, AllShards, Unknown, RebalanceFaultKinds
  <2>2. ~Regular' BY <2>0, FaultMonotonic, RegularMeans DEF RebalanceFaultKinds, RateTypes
  <2> QED BY <2>1, <2>2 DEF RebalanceInv
<1>2. CASE CoordinatorRestart
  <2>0. Event("coordinator") BY <1>2 DEF CoordinatorRestart
  <2>1. RateTypes'
    BY <1>2, <2>0, FaultMonotonic DEF CoordinatorRestart, RateTypes, pollVars, jobVars, history, AllShards, IsJob, RebalanceFaultKinds
  <2>2. Regular' => Regular BY <2>0, FaultMonotonic, RegularMeans DEF RebalanceFaultKinds, RateTypes
  <2>3. ASSUME RateInv PROVE RateInv'
    BY <1>2, <2>3 DEF CoordinatorRestart, RateInv, pollVars, jobVars, history, Base
  <2> QED BY <2>1, <2>2, <2>3 DEF RebalanceInv
<1>3. CASE CooldownEnds \/ AtRest \/ UNCHANGED rebalanceVars
  <2>1. UNCHANGED <<committed, history, pollVars, jobs, maps, events>>
    BY <1>3 DEF CooldownEnds, AtRest, rebalanceVars, jobVars
  <2>2. RateTypes' BY <2>1 DEF RateTypes, pollVars, history, maps, AllShards, IsJob
  <2>3. Regular' = Regular BY <2>1 DEF Regular, Occurred
  <2>4. ASSUME RateInv PROVE RateInv' BY <2>1, <2>4 DEF RateInv, pollVars, history, Base
  <2> QED BY <2>2, <2>3, <2>4 DEF RebalanceInv
<1> QED BY <1>1, <1>2, <1>3, ShardIInv, PollIInv, CheckIInv, MigrateIInv DEF RebalanceNext

\* Without a monitor restart or a missed poll, a migration relieves a shard
\* that committed more than the threshold between two polls, or one that had
\* once lost all its partitions.
THEOREM HotIsHotHolds == RebalanceSpec => []HotIsHot
<1>1. RebalanceInv => HotIsHot BY DEF RebalanceInv, Regular, RateInv, HotIsHot
<1> QED BY <1>1, InitRebalanceInv, NextRebalanceInv, PTL DEF RebalanceSpec
=============================================================================
