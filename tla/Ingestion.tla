----------------------------- MODULE Ingestion -----------------------------
(***************************************************************************)
(* How a transaction reaches the router: POST /submit at the API gateway,  *)
(* the Kafka topic, the coordinator's Kafka loop, and the coordinator's    *)
(* own HTTP endpoints /submit and /transfer with their result table.       *)
(*                                                                         *)
(* Route is one step here, as for a single-shard transaction: the shard's  *)
(* per-transaction mutex makes concurrent calls take turns.  ShardServer   *)
(* and TwoPC have its steps, and those of a cross-shard transaction.       *)
(***************************************************************************)
EXTENDS Integers, Sequences, FiniteSets

CONSTANTS
  Txns,          \* transaction IDs
  Submissions,   \* POST /submit requests at the gateway
  Requests,      \* POST /submit and /transfer requests at the coordinator
  TxnOf,         \* the transaction that a submission or request carries
  Malformed,     \* transactions with a missing field or no positive amount
  SelfTransfer,  \* transactions whose source is their destination
  RecentCap,     \* capacity of the buffer of recent transactions
  IngestFaults   \* IngestFaults[k]: how many faults of kind k may happen

IngestFaultKinds == {"crash", "publish", "unstored", "commit", "route"}

ASSUME IngestionAssumption ==
  /\ TxnOf \in [Submissions \cup Requests -> Txns]
  /\ Malformed \subseteq Txns /\ SelfTransfer \subseteq Txns
  /\ RecentCap \in Nat \ {0}
  /\ IngestFaults \in [IngestFaultKinds -> Nat]

VARIABLES
  gateway,   \* gateway[s]: "new", or the answer that was given
  topic,     \* the messages of the topic
  offset,    \* the group's committed offset
  up,        \* the coordinator process runs
  loop,      \* the Kafka loop: its pc, and the position it is routing
  handled,   \* history: the positions that were routed, in that order
  http,      \* http[q]: the pc of the handler of q, and what Route returned
  results,   \* results[t]: HTTPConsumer.results, "none" when absent
  recent,    \* HTTPConsumer.recentTxns
  shard,     \* shard[t]: the outcome of t in the shards' idempotency tables
  faults     \* faults[k]: faults of kind k that may still happen

kafkaVars == <<topic, offset>>
coordVars == <<up, loop, http, results, recent>>
vars == <<gateway, kafkaVars, coordVars, handled, shard, faults>>

Outcomes == {"COMMITTED", "ABORTED"}

Fault(k) == faults[k] > 0 /\ faults' = [faults EXCEPT ![k] = @ - 1]

Reading == [pc |-> "reading", at |-> 0]

-----------------------------------------------------------------------------
(***************************************************************************)
(* The gateway.  HandleSubmit checks the fields and publishes.             *)
(***************************************************************************)
Answer(s, a) == gateway' = [gateway EXCEPT ![s] = a]

Publish(t) == topic' = Append(topic, t)

HandleSubmit(s) ==
  /\ gateway[s] = "new"
  /\ \/ /\ TxnOf[s] \in Malformed
        /\ Answer(s, "rejected") /\ UNCHANGED <<topic, faults>>
     \/ /\ TxnOf[s] \notin Malformed
        /\ Answer(s, "accepted") /\ Publish(TxnOf[s]) /\ UNCHANGED faults
     \/ /\ TxnOf[s] \notin Malformed /\ Fault("publish")   \* WriteMessages fails, written or not
        /\ Answer(s, "failed") /\ (Publish(TxnOf[s]) \/ UNCHANGED topic)
     \/ /\ TxnOf[s] \notin Malformed /\ Fault("unstored")  \* the writer asks for no broker ack
        /\ Answer(s, "accepted") /\ UNCHANGED topic
  /\ UNCHANGED <<offset, coordVars, handled, shard>>

-----------------------------------------------------------------------------
(***************************************************************************)
(* Route, as its callers see it.  A decided transaction is answered from   *)
(* the idempotency table; an error leaves it undecided, or decided with    *)
(* the answer lost.                                                        *)
(***************************************************************************)
Route(t, res) ==
  \/ /\ shard[t] \in Outcomes
     /\ res = shard[t]
     /\ UNCHANGED <<shard, faults>>
  \/ /\ shard[t] = "none"
     /\ res \in Outcomes
     /\ shard' = [shard EXCEPT ![t] = res]
     /\ UNCHANGED faults
  \/ /\ res = "error"
     /\ Fault("route")
     /\ IF shard[t] = "none"
          THEN \E s \in Outcomes \cup {"none"} : shard' = [shard EXCEPT ![t] = s]
          ELSE UNCHANGED shard

RouteResults == Outcomes \cup {"error"}

-----------------------------------------------------------------------------
(***************************************************************************)
(* The Kafka loop.  With a consumer group, ReadMessage commits the offset  *)
(* of the message before it returns it.                                    *)
(***************************************************************************)
M_FetchMessage ==
  /\ up /\ loop.pc = "reading" /\ offset < Len(topic)
  /\ loop' = [pc |-> "routing", at |-> offset + 1]
  /\ UNCHANGED <<gateway, kafkaVars, up, http, results, recent, handled, shard, faults>>

M_ReadMessageSkips ==
  /\ up /\ loop.pc = "reading" /\ offset < Len(topic)
  /\ offset' = offset + 2
  /\ loop' = [pc |-> "routing", at |-> offset + 1]
  /\ UNCHANGED <<gateway, topic, up, http, results, recent, handled, shard, faults>>

ReadMessage ==
  /\ up /\ loop.pc = "reading" /\ offset < Len(topic)
  /\ offset' = offset + 1
  /\ loop' = [pc |-> "routing", at |-> offset + 1]
  /\ UNCHANGED <<gateway, topic, up, http, results, recent, handled, shard, faults>>

\* The commit fails, at the broker or on its way back: the loop returns.
ReadMessageFails ==
  /\ up /\ loop.pc = "reading" /\ offset < Len(topic)
  /\ Fault("commit")
  /\ offset' \in {offset, offset + 1}
  /\ loop' = [Reading EXCEPT !.pc = "stopped"]
  /\ UNCHANGED <<gateway, topic, up, http, results, recent, handled, shard>>

\* The result is only logged.
M_RouteMessageStuck ==
  /\ up /\ loop.pc = "routing"
  /\ \E res \in RouteResults : Route(topic[loop.at], res)
  /\ UNCHANGED <<gateway, kafkaVars, up, loop, http, results, recent, handled>>

RouteMessage ==
  /\ up /\ loop.pc = "routing"
  /\ \E res \in RouteResults : Route(topic[loop.at], res)
  /\ handled' = Append(handled, loop.at)
  /\ loop' = Reading
  /\ UNCHANGED <<gateway, kafkaVars, up, http, results, recent>>

-----------------------------------------------------------------------------
(***************************************************************************)
(* handleSubmit and HandleTransferDirect at the coordinator.               *)
(***************************************************************************)
ValidateTransaction(t) == t \notin Malformed \cup SelfTransfer

Validate(q) ==
  /\ up /\ http[q].pc = "new"
  /\ http' = [http EXCEPT ![q].pc = IF ValidateTransaction(TxnOf[q]) THEN "routing" ELSE "done"]
  /\ UNCHANGED <<gateway, kafkaVars, up, loop, results, recent, handled, shard, faults>>

M_RouteRequestErrorAborts(q) ==
  /\ up /\ http[q].pc = "routing"
  /\ \E res \in RouteResults :
       /\ Route(TxnOf[q], res)
       /\ http' = [http EXCEPT ![q] = [pc |-> "routed", res |-> IF res = "error" THEN "ABORTED" ELSE res]]
  /\ UNCHANGED <<gateway, kafkaVars, up, loop, results, recent, handled>>

RouteRequest(q) ==
  /\ up /\ http[q].pc = "routing"
  /\ \E res \in RouteResults :
       /\ Route(TxnOf[q], res)
       /\ http' = [http EXCEPT ![q] =
            IF res = "error" THEN [pc |-> "done", res |-> res] ELSE [pc |-> "routed", res |-> res]]
  /\ UNCHANGED <<gateway, kafkaVars, up, loop, results, recent, handled>>

StoreResult(q) ==
  /\ up /\ http[q].pc = "routed"
  /\ results' = [results EXCEPT ![TxnOf[q]] = http[q].res]
  /\ http' = [http EXCEPT ![q].pc = "recording"]
  /\ UNCHANGED <<gateway, kafkaVars, up, loop, recent, handled, shard, faults>>

\* addRecentTxn drops the oldest entry of a full buffer.
WithRecent(r, t) == Append(IF Len(r) >= RecentCap THEN Tail(r) ELSE r, t)

AddRecentTxn(q) ==
  /\ up /\ http[q].pc = "recording"
  /\ recent' = WithRecent(recent, TxnOf[q])
  /\ http' = [http EXCEPT ![q].pc = "done"]
  /\ UNCHANGED <<gateway, kafkaVars, up, loop, results, handled, shard, faults>>

-----------------------------------------------------------------------------
(***************************************************************************)
(* The coordinator keeps all of this in memory.  A call that was under way *)
(* may still be carried out by the shard.                                  *)
(***************************************************************************)
UnderWay(t) ==
  \/ loop.pc = "routing" /\ topic[loop.at] = t
  \/ \E q \in Requests : http[q].pc = "routing" /\ TxnOf[q] = t

CoordinatorCrash ==
  /\ up /\ Fault("crash")
  /\ up' = FALSE
  /\ loop' = Reading
  /\ http' = [q \in Requests |-> IF http[q].pc = "new" THEN http[q] ELSE [http[q] EXCEPT !.pc = "done"]]
  /\ results' = [t \in Txns |-> "none"]
  /\ recent' = <<>>
  /\ shard' \in {f \in [Txns -> Outcomes \cup {"none"}] :
                  \A t \in Txns : f[t] = shard[t] \/ (shard[t] = "none" /\ UnderWay(t))}
  /\ UNCHANGED <<gateway, kafkaVars, handled>>

CoordinatorStart ==
  /\ ~up /\ up' = TRUE
  /\ UNCHANGED <<gateway, kafkaVars, loop, http, results, recent, handled, shard, faults>>

Init ==
  /\ gateway = [s \in Submissions |-> "new"]
  /\ topic = <<>> /\ offset = 0
  /\ up = TRUE /\ loop = Reading /\ handled = <<>>
  /\ http = [q \in Requests |-> [pc |-> "new", res |-> "error"]]
  /\ results = [t \in Txns |-> "none"]
  /\ recent = <<>>
  /\ shard = [t \in Txns |-> "none"]
  /\ faults = IngestFaults

Serve(q) == Validate(q) \/ RouteRequest(q) \/ StoreResult(q) \/ AddRecentTxn(q)

\* Nobody submits anything and the topic is read to its end, or by nobody.
Idle ==
  /\ \A s \in Submissions : gateway[s] # "new"
  /\ up /\ \A q \in Requests : http[q].pc = "done"
  /\ loop.pc = "stopped" \/ (loop.pc = "reading" /\ offset = Len(topic))
  /\ UNCHANGED vars

Next ==
  \/ \E s \in Submissions : HandleSubmit(s)
  \/ ReadMessage \/ ReadMessageFails \/ RouteMessage
  \/ \E q \in Requests : Serve(q)
  \/ CoordinatorCrash \/ CoordinatorStart
  \/ Idle

Spec == Init /\ [][Next]_vars

(***************************************************************************)
(* While the coordinator runs, its loop keeps going.  The clients, the     *)
(* HTTP handlers, the faults and the restart of a dead coordinator are     *)
(* under no obligation.                                                    *)
(***************************************************************************)
FairSpec == Spec /\ WF_vars(ReadMessage \/ RouteMessage)

-----------------------------------------------------------------------------
(***************************************************************************)
(* Properties.                                                             *)
(***************************************************************************)

Happened(kinds) == \E k \in kinds : faults[k] < IngestFaults[k]

\* The coordinator routes a message of the topic at most once, in the order
\* of the topic, through crashes and failed offset commits.
RoutedOnce == \A i, j \in DOMAIN handled : i < j => handled[i] < handled[j]

\* While the Kafka loop runs, every message is read sooner or later: those
\* published while the coordinator was down included (IEEE_REPORT_FOUNDATION:
\* "transactions published while the coordinator is down are consumed when it
\* restarts"), and whatever errors Route returns.  An error of ReadMessage
\* ends the loop for good.
ReadEventually ==
  \A n \in 1 .. Cardinality(Submissions) :
    (up /\ Len(topic) >= n) ~> (offset >= n \/ ~up \/ loop.pc = "stopped")

\* What /status reports as the result of a transaction is its outcome in the
\* shards, whatever duplicates and lost answers there were.
StatusIsOutcome == \A t \in Txns : results[t] # "none" => results[t] = shard[t]

\* IEEE_REPORT_FOUNDATION: "zero data loss guaranteed by WAL + Kafka
\* buffering": a message of the topic is still to be read, is being routed,
\* or was routed, or was carried out by the shard before a crash.
NothingLost ==
  \A n \in DOMAIN topic :
    \/ n > offset
    \/ loop.pc = "routing" /\ loop.at = n
    \/ \E i \in DOMAIN handled : handled[i] = n
    \/ shard[topic[n]] \in Outcomes

\* The same, and it holds: only a crash of the coordinator or a failed commit
\* of the offset can lose a message.
LostOnlyByCrash == NothingLost \/ Happened({"crash", "commit"})
=============================================================================
