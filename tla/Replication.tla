---------------------------- MODULE Replication ----------------------------
(***************************************************************************)
(* One shard's replica group: the primary's Replicate and its quorum loop  *)
(* (shard/replication/primary.go, client.go), the followers' receiver      *)
(* (follower.go), and the election that promotes a replica and reroutes    *)
(* the shard's partitions (shard/failover/election.go).                    *)
(*                                                                         *)
(* An entry is what a handler hands to wal.Append and then to Replicate.   *)
(* A replica's log is the sequence of entries in its WAL file, so the      *)
(* LogID of an entry is its position minus one and NextLogID the length.   *)
(***************************************************************************)
EXTENDS Integers, Sequences, FiniteSets

CONSTANTS
  Replicas, Primary,   \* the group, and the replica started as PRIMARY
  QuorumSize,          \* replicas, the primary included, that must have an entry
  Entries,             \* the entries that handlers append
  ShardPartitions,     \* the shard's partitions in the shard map
  ReplicaSet,          \* the election's list of addresses, in its order
  ReplicaFaults        \* the mixes of faults considered: f[k] is how many faults of
                       \* kind k may happen in mix f; "election" bounds the calls
                       \* of TriggerElection and "entry" the entries appended

ReplicaFaultKinds == {"crash", "timeout", "append", "unreachable", "election", "entry"}

ASSUME ReplicasAssumption ==
  /\ IsFiniteSet(Replicas) /\ Primary \in Replicas
  /\ QuorumSize \in Nat
  /\ ReplicaSet \in Seq(Replicas)
  /\ ReplicaFaults \subseteq [ReplicaFaultKinds -> Nat]

VARIABLES
  log,        \* log[r]: the entries in r's WAL
  alive,      \* alive[r]: r's process runs
  role,       \* role[r]: "PRIMARY" or "FOLLOWER", in memory
  lastLogID,  \* lastLogID[r]: FollowerReceiver.lastLogID
  home,       \* home[e]: the replica whose handler appended e
  verdict,    \* verdict[e]: where the Replicate call for e stands
  post,       \* post[e][r]: the POST /replicate of e, as it stands at r
  ack,        \* ack[e][r]: what SendEntry returned to the primary's goroutine
  taken,      \* taken[e]: the followers whose result was read from ackChan
  election,   \* the running TriggerElection, or pc = "idle"
  routed,     \* routed[p]: the address the shard map has for partition p
  faults      \* faults[k]: faults of kind k that may still happen

replicaVars == <<log, alive, role, lastLogID, faults>>
callVars == <<home, verdict, post, ack, taken>>
electVars == <<election, routed>>
vars == <<replicaVars, callVars, electVars>>

NoElection == [pc |-> "idle", next |-> 0, found |-> <<>>, best |-> Primary, moving |-> {}]

NextLogID(r) == Len(log[r])

Holds(r, e) == \E i \in DOMAIN log[r] : log[r][i] = e

LogID(e) == (CHOOSE i \in DOMAIN log[home[e]] : log[home[e]][i] = e) - 1

Fault(k) == faults[k] > 0 /\ faults' = [faults EXCEPT ![k] = @ - 1]

\* main.go adds followers to the replicator of the process started as
\* PRIMARY only; a promoted replica keeps a replicator without followers.
FollowersOf(r) == IF r = Primary THEN Replicas \ {Primary} ELSE {}

Needed == QuorumSize - 1

-----------------------------------------------------------------------------
(***************************************************************************)
(* The primary's side.                                                     *)
(***************************************************************************)

\* A handler of the replica that the router picked appends e to its WAL.
AppendEntry(e) ==
  /\ verdict[e] = "idle" /\ Fault("entry")
  /\ \E p \in ShardPartitions :
       /\ alive[routed[p]]
       /\ log' = [log EXCEPT ![routed[p]] = Append(@, e)]
       /\ home' = [home EXCEPT ![e] = routed[p]]
  /\ verdict' = [verdict EXCEPT ![e] = "logged"]
  /\ UNCHANGED <<alive, role, lastLogID, post, ack, taken, electVars>>

\* Replicate: decide at once, or send the entry to every follower.
Replicate(e) ==
  LET F == FollowersOf(home[e]) IN
  /\ verdict[e] = "logged"
  /\ verdict' = [verdict EXCEPT ![e] =
       IF Needed <= 0 THEN "ok" ELSE IF F = {} THEN "failed" ELSE "waiting"]
  /\ IF F = {} \/ Needed <= 0
       THEN UNCHANGED <<post, ack>>
       ELSE /\ post' = [post EXCEPT ![e] = [r \in Replicas |-> IF r \in F THEN "flying" ELSE "none"]]
            /\ ack' = [ack EXCEPT ![e] = [r \in Replicas |-> IF r \in F THEN "waiting" ELSE "none"]]
  /\ UNCHANGED <<replicaVars, home, taken, electVars>>

\* The loop over ackChan reads the result of follower r.
Oks(e, read) == Cardinality({r \in read : ack[e][r] = "ok"})

M_VerdictAfterTooEager(e, read) ==
  IF Oks(e, read) >= Needed THEN "ok"
  ELSE IF Oks(e, read) # Cardinality(read) THEN "failed" ELSE "waiting"

VerdictAfter(e, read) ==
  LET remaining == Cardinality(FollowersOf(home[e]) \ read) IN
  CASE Oks(e, read) >= Needed -> "ok"
    [] Oks(e, read) < Needed /\ Oks(e, read) + remaining < Needed -> "failed"
    [] OTHER -> "waiting"

M_TakeAckOnlyOk(e, r) ==
  /\ verdict[e] = "waiting"
  /\ r \notin taken[e] /\ ack[e][r] \in {"ok", "error"}
  /\ IF ack[e][r] = "error"
       THEN UNCHANGED <<taken, verdict>>
       ELSE /\ taken' = [taken EXCEPT ![e] = @ \cup {r}]
            /\ verdict' = [verdict EXCEPT ![e] = VerdictAfter(e, taken[e] \cup {r})]
  /\ UNCHANGED <<replicaVars, home, post, ack, electVars>>

TakeAck(e, r) ==
  /\ verdict[e] = "waiting"
  /\ r \notin taken[e] /\ ack[e][r] \in {"ok", "error"}
  /\ taken' = [taken EXCEPT ![e] = @ \cup {r}]
  /\ verdict' = [verdict EXCEPT ![e] = VerdictAfter(e, taken[e] \cup {r})]
  /\ UNCHANGED <<replicaVars, home, post, ack, electVars>>

\* The 5 s client timeout; the request itself may still arrive.
M_SendAgain(e, r) ==
  /\ ack[e][r] = "waiting"
  /\ Fault("timeout")
  /\ post' = [post EXCEPT ![e][r] = "flying"]
  /\ UNCHANGED <<log, alive, role, lastLogID, home, verdict, ack, taken, electVars>>

SendTimesOut(e, r) ==
  /\ ack[e][r] = "waiting"
  /\ Fault("timeout")
  /\ ack' = [ack EXCEPT ![e][r] = "error"]
  /\ UNCHANGED <<log, alive, role, lastLogID, home, verdict, post, taken, electVars>>

-----------------------------------------------------------------------------
(***************************************************************************)
(* The follower's side: ReceiveEntry appends the entry under a LogID of    *)
(* its own log, in the order in which the requests happen to arrive, ...   *)
(***************************************************************************)
PostState(e, r, s) == post' = [post EXCEPT ![e][r] = s]

M_ReceiveEntryLazily(e, r) ==
  /\ post[e][r] = "flying" /\ alive[r]
  /\ PostState(e, r, "stored")
  /\ UNCHANGED <<replicaVars, home, verdict, ack, taken, electVars>>

ReceiveEntry(e, r) ==
  /\ post[e][r] = "flying" /\ alive[r]
  /\ log' = [log EXCEPT ![r] = Append(@, e)]
  /\ PostState(e, r, "stored")
  /\ UNCHANGED <<alive, role, lastLogID, faults, home, verdict, ack, taken, electVars>>

ReceiveFails(e, r) ==
  /\ post[e][r] = "flying" /\ alive[r]
  /\ Fault("append")
  /\ PostState(e, r, "rejected")
  /\ UNCHANGED <<log, alive, role, lastLogID, home, verdict, ack, taken, electVars>>

\* ... and notes the primary's LogID, then handleReplicate answers 200, or
\* 500 when the append failed.  An answer nobody waits for is dropped.
Respond(e, r) ==
  /\ post[e][r] \in {"stored", "rejected"}
  /\ lastLogID' = IF post[e][r] = "stored" THEN [lastLogID EXCEPT ![r] = LogID(e)] ELSE lastLogID
  /\ ack' = [ack EXCEPT ![e][r] =
       IF @ # "waiting" THEN @ ELSE IF post[e][r] = "stored" THEN "ok" ELSE "error"]
  /\ PostState(e, r, "gone")
  /\ UNCHANGED <<log, alive, role, faults, home, verdict, taken, electVars>>

\* The connection is refused because the follower is down.
Refused(e, r) ==
  /\ post[e][r] = "flying" /\ ~alive[r]
  /\ PostState(e, r, "gone")
  /\ ack' = [ack EXCEPT ![e][r] = IF @ = "waiting" THEN "error" ELSE @]
  /\ UNCHANGED <<replicaVars, home, verdict, taken, electVars>>

-----------------------------------------------------------------------------
(***************************************************************************)
(* A replica dies: its WAL stays, its handlers and its in-memory state go. *)
(* The role comes back from SHARD_ROLE, not from an earlier promotion.     *)
(***************************************************************************)
Crash(r) ==
  LET Broken(e, q) == q = r /\ post[e][q] \in {"stored", "rejected"} IN
  /\ alive[r]
  /\ Fault("crash")
  /\ alive' = [alive EXCEPT ![r] = FALSE]
  /\ lastLogID' = [lastLogID EXCEPT ![r] = 0]
  /\ role' = [role EXCEPT ![r] = IF r = Primary THEN "PRIMARY" ELSE "FOLLOWER"]
  /\ verdict' = [e \in Entries |->
       IF home[e] = r /\ verdict[e] \in {"logged", "waiting"} THEN "crashed" ELSE verdict[e]]
  /\ post' = [e \in Entries |-> [q \in Replicas |->
       IF Broken(e, q) THEN "gone" ELSE post[e][q]]]
  /\ ack' = [e \in Entries |-> [q \in Replicas |->
       IF ack[e][q] = "waiting" /\ (Broken(e, q) \/ home[e] = r) THEN "error" ELSE ack[e][q]]]
  /\ UNCHANGED <<log, home, taken, electVars>>

Restart(r) ==
  /\ ~alive[r]
  /\ alive' = [alive EXCEPT ![r] = TRUE]
  /\ UNCHANGED <<log, role, lastLogID, faults, callVars, electVars>>

-----------------------------------------------------------------------------
(***************************************************************************)
(* TriggerElection: ask every replica for its log index, one after the     *)
(* other; promote the best that answered; reroute the partitions.          *)
(***************************************************************************)
StartElection ==
  /\ election = NoElection
  /\ Fault("election")
  /\ election' = [NoElection EXCEPT !.pc = "polling", !.next = 1]
  /\ UNCHANGED <<log, alive, role, lastLogID, callVars, routed>>

Poll ==
  LET r == ReplicaSet[election.next] IN
  /\ election.pc = "polling" /\ election.next <= Len(ReplicaSet)
  /\ \/ /\ alive[r]
        /\ election' = [election EXCEPT !.next = @ + 1,
                          !.found = Append(@, [addr |-> r, index |-> NextLogID(r)])]
        /\ UNCHANGED faults
     \/ /\ IF alive[r] THEN Fault("unreachable") ELSE UNCHANGED faults
        /\ election' = [election EXCEPT !.next = @ + 1]
  /\ UNCHANGED <<log, alive, role, lastLogID, callVars, routed>>

\* b is the first candidate with the highest index.
IsBest(found, b) ==
  \E i \in DOMAIN found :
    /\ found[i].addr = b
    /\ \A j \in DOMAIN found : found[j].index <= found[i].index
    /\ \A j \in 1 .. i - 1 : found[j].index < found[i].index

Promote ==
  /\ election.pc = "polling" /\ election.next > Len(ReplicaSet)
  /\ \/ \E b \in Replicas :
          /\ IsBest(election.found, b)
          /\ \/ /\ alive[b]
                /\ role' = [role EXCEPT ![b] = "PRIMARY"]
                /\ election' = [election EXCEPT !.pc = "rerouting", !.best = b, !.moving = ShardPartitions]
                /\ UNCHANGED faults
             \/ /\ alive[b] /\ Fault("unreachable")   \* the answer of /promote is lost
                /\ role' = [role EXCEPT ![b] = "PRIMARY"]
                /\ election' = NoElection
             \/ ~alive[b] /\ election' = NoElection /\ UNCHANGED <<role, faults>>
     \/ election.found = <<>> /\ election' = NoElection /\ UNCHANGED <<role, faults>>
  /\ UNCHANGED <<log, alive, lastLogID, callVars, routed>>

\* UpdatePartition for one partition; the map's lock is released between two.
M_UpdatePartitionOnce(p) ==
  /\ election.pc = "rerouting" /\ p \in election.moving
  /\ routed' = [routed EXCEPT ![p] = election.best]
  /\ election' = NoElection
  /\ UNCHANGED <<replicaVars, callVars>>

UpdatePartition(p) ==
  /\ election.pc = "rerouting" /\ p \in election.moving
  /\ routed' = [routed EXCEPT ![p] = election.best]
  /\ election' = IF election.moving = {p} THEN NoElection
                 ELSE [election EXCEPT !.moving = @ \ {p}]
  /\ UNCHANGED <<replicaVars, callVars>>

-----------------------------------------------------------------------------
Init ==
  /\ log = [r \in Replicas |-> <<>>]
  /\ alive = [r \in Replicas |-> TRUE]
  /\ role = [r \in Replicas |-> IF r = Primary THEN "PRIMARY" ELSE "FOLLOWER"]
  /\ lastLogID = [r \in Replicas |-> 0]
  /\ home = [e \in Entries |-> Primary]
  /\ verdict = [e \in Entries |-> "idle"]
  /\ post = [e \in Entries |-> [r \in Replicas |-> "none"]]
  /\ ack = [e \in Entries |-> [r \in Replicas |-> "none"]]
  /\ taken = [e \in Entries |-> {}]
  /\ election = NoElection
  /\ routed = [p \in ShardPartitions |-> Primary]
  /\ faults \in ReplicaFaults

Serve(e, r) == ReceiveEntry(e, r) \/ Respond(e, r) \/ Refused(e, r)

Elect == StartElection \/ Poll \/ Promote \/ \E p \in ShardPartitions : UpdatePartition(p)

\* Nothing left to do: the group waits for the next transaction.
Quiet ==
  /\ \A e \in Entries : verdict[e] \notin {"logged", "waiting"}
  /\ \A e \in Entries, r \in Replicas : post[e][r] \in {"none", "gone"}
  /\ election = NoElection

Next ==
  \/ \E e \in Entries : AppendEntry(e) \/ Replicate(e)
  \/ \E e \in Entries, r \in Replicas :
       Serve(e, r) \/ TakeAck(e, r) \/ SendTimesOut(e, r) \/ ReceiveFails(e, r)
  \/ \E r \in Replicas : Crash(r) \/ Restart(r)
  \/ Elect
  \/ Quiet /\ UNCHANGED vars

Spec == Init /\ [][Next]_vars

(***************************************************************************)
(* The goroutines run and requests are carried; faults, restarts, new      *)
(* entries and elections are under no obligation.                          *)
(***************************************************************************)
FairSpec ==
  /\ Spec
  /\ WF_vars(\E e \in Entries : Replicate(e))
  /\ WF_vars(\E e \in Entries, r \in Replicas : Serve(e, r) \/ TakeAck(e, r))

-----------------------------------------------------------------------------
(***************************************************************************)
(* Properties.                                                             *)
(***************************************************************************)

\* primary.go: when Replicate returns nil, a quorum of the replicas has the
\* entry in its WAL, and keeps it through crashes, late requests and
\* elections.
QuorumPersisted ==
  \A e \in Entries : verdict[e] = "ok" =>
    Cardinality({r \in Replicas : Holds(r, e)}) >= QuorumSize

\* Replicate gives up only when the quorum is out of reach: too many of the
\* followers it asked had failed (or it has no follower to ask).
GivesUpOnlyWhenHopeless ==
  \A e \in Entries : verdict[e] = "failed" =>
    Cardinality({r \in taken[e] : ack[e][r] = "error"})
      > Cardinality(FollowersOf(home[e])) - Needed

\* No replica logs an entry twice, and none logs an entry that its sender
\* does not have in its own log: SendEntry is never retried.
LoggedOnce ==
  \A r \in Replicas :
    /\ \A i, j \in DOMAIN log[r] : log[r][i] = log[r][j] => i = j
    /\ \A e \in Entries : Holds(r, e) => Holds(home[e], e)

\* Every Replicate call returns, whatever followers crash or time out.
ReplicateReturns ==
  \A e \in Entries : verdict[e] = "logged" ~> verdict[e] \in {"ok", "failed", "crashed"}

\* Between two elections all partitions of the shard are routed to one
\* address.
RoutedTogether == election.pc # "rerouting" => \A p, q \in ShardPartitions : routed[p] = routed[q]
=============================================================================
