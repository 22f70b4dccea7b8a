----------------------------- MODULE Rebalance -----------------------------
(***************************************************************************)
(* The load monitor (load-monitor/monitor.go) and the shard map            *)
(* (coordinator/shardmap/shard_map.go): the monitor's copy, the file, and  *)
(* the copy that the coordinator loaded when it started.                   *)
(***************************************************************************)
EXTENDS Integers, FiniteSets

CONSTANTS
  Shards, Partitions,
  Home,             \* Home[p]: the shard that holds the accounts of p, and
                    \* the assignment in the shard map at the beginning
  Threshold,        \* thresholdDepth
  MaxCommitted,     \* bound on a shard's counter of committed transactions
  RebalanceFaults   \* RebalanceFaults[k]: how many events of kind k may happen

RebalanceFaultKinds == {"poll", "shard", "monitor", "coordinator", "round"}

ASSUME RebalanceAssumption ==
  /\ Home \in [Partitions -> Shards]
  /\ Threshold \in Nat /\ MaxCommitted \in Nat
  /\ RebalanceFaults \in [RebalanceFaultKinds -> Nat]

VARIABLES
  committed,   \* committed[s]: ShardServer.committedCount
  since,       \* history: commits of s since the last poll, counted up to one
               \* above the threshold
  burst,       \* history: commits of s between the last two polls
  emptied,     \* history: shards that were at some time without a partition in
               \* the monitor's map, and so not polled
  metrics,     \* metrics[s]: the last count polled, Unknown before the first
  prev,        \* prev[s]: prevCommitted
  poller,      \* "sleeping", or "polled" between pollShards and checkHotspots
  jobs,        \* the running migratePartition goroutines
  cooling,     \* the last one completed less than the cooldown ago
  monMap, fileMap, coordMap,  \* the three copies of the shard map
  writable,    \* the map's file can be written; docker-compose.yml mounts it
               \* read-only, and then every save fails
  events       \* events[k]: events of kind k that may still happen

pollVars == <<metrics, prev, poller>>
jobVars == <<jobs, cooling>>
maps == <<monMap, fileMap, coordMap, writable>>
history == <<since, burst, emptied>>
rebalanceVars == <<committed, history, pollVars, jobVars, maps, events>>

Unknown == -1

Event(k) == events[k] > 0 /\ events' = [events EXCEPT ![k] = @ - 1]

AllShards(m) == {m[p] : p \in Partitions}

GetPartitionsForShard(m, s) == {p \in Partitions : m[p] = s}

-----------------------------------------------------------------------------
(***************************************************************************)
(* The shards: committedCount is in memory and restarts at zero.           *)
(***************************************************************************)
Commit(s) ==
  /\ committed[s] < MaxCommitted
  /\ committed' = [committed EXCEPT ![s] = @ + 1]
  /\ since' = [since EXCEPT ![s] = IF @ > Threshold THEN @ ELSE @ + 1]
  /\ UNCHANGED <<burst, emptied, pollVars, jobVars, maps, events>>

ShardRestart(s) ==
  /\ committed[s] > 0 /\ Event("shard")
  /\ committed' = [committed EXCEPT ![s] = 0]
  /\ UNCHANGED <<history, pollVars, jobVars, maps>>

-----------------------------------------------------------------------------
(***************************************************************************)
(* The polling loop.  A shard that does not answer keeps its old metrics.  *)
(***************************************************************************)
PollShards ==
  /\ poller = "sleeping" /\ events["round"] > 0
  /\ \E down \in SUBSET AllShards(monMap) :
       /\ down = {} \/ events["poll"] > 0
       /\ metrics' = [s \in Shards |->
            IF s \in AllShards(monMap) \ down THEN committed[s] ELSE metrics[s]]
       /\ events' = [events EXCEPT !["round"] = @ - 1, !["poll"] = IF down = {} THEN @ ELSE @ - 1]
  /\ poller' = "polled"
  /\ burst' = since /\ since' = [s \in Shards |-> 0]
  /\ UNCHANGED <<committed, emptied, prev, jobVars, maps>>

Known == {s \in AllShards(monMap) : metrics[s] # Unknown}

Rate(s) == metrics[s] - prev[s]

Hottest == {s \in Known : Rate(s) > -1 /\ \A u \in Known : Rate(u) <= Rate(s)}

Coolest == {s \in Known : \A u \in Known : Rate(u) >= Rate(s)}

M_ImbalancedNotHot(hot, cool) ==
  /\ Rate(hot) - Rate(cool) > Threshold \div 2
  /\ hot # cool

Imbalanced(hot, cool) ==
  /\ Rate(hot) > Threshold
  /\ Rate(hot) - Rate(cool) > Threshold \div 2
  /\ hot # cool

NewID == CHOOSE i \in 1 .. Cardinality(jobs) + 1 : \A j \in jobs : j.id # i

\* One round: the rates, then at most one migration, unless one completed
\* within the cooldown.
CheckHotspots ==
  /\ poller = "polled" /\ poller' = "sleeping"
  /\ prev' = [s \in Shards |-> IF s \in Known THEN metrics[s] ELSE prev[s]]
  /\ \/ \E hot \in Hottest, cool \in Coolest :
          /\ Imbalanced(hot, cool) /\ ~cooling
          /\ jobs' = jobs \cup {[id |-> NewID, hot |-> hot, cool |-> cool, pc |-> "pick",
                                 part |-> {}, burst |-> burst[hot]]}
     \/ /\ cooling \/ \A hot \in Hottest, cool \in Coolest : ~Imbalanced(hot, cool)
        /\ UNCHANGED jobs
  /\ UNCHANGED <<committed, history, metrics, cooling, maps, events>>

CooldownEnds ==
  /\ cooling /\ cooling' = FALSE
  /\ UNCHANGED <<committed, history, pollVars, jobs, maps, events>>

-----------------------------------------------------------------------------
(***************************************************************************)
(* migratePartition, a goroutine of its own.                               *)
(***************************************************************************)
Becomes(j, k) == jobs' = (jobs \ {j}) \cup {k}

M_PickPartitionSpins(j) ==
  /\ j.pc = "pick"
  /\ \/ \E p \in GetPartitionsForShard(monMap, j.hot) : Becomes(j, [j EXCEPT !.pc = "move", !.part = {p}])
     \/ GetPartitionsForShard(monMap, j.hot) = {} /\ UNCHANGED jobs
  /\ UNCHANGED <<committed, history, pollVars, cooling, maps, events>>

PickPartition(j) ==
  /\ j.pc = "pick"
  /\ \/ \E p \in GetPartitionsForShard(monMap, j.hot) : Becomes(j, [j EXCEPT !.pc = "move", !.part = {p}])
     \/ GetPartitionsForShard(monMap, j.hot) = {} /\ jobs' = jobs \ {j}
  /\ UNCHANGED <<committed, history, pollVars, cooling, maps, events>>

\* UpdatePartition sets the assignment and saves the map under its lock; the
\* error of a failed save is dropped.
M_SavedStale(m) == fileMap

M_SavedAlways(m) == m

Saved(m) == IF writable THEN m ELSE fileMap

UpdatePartition(j) ==
  /\ j.pc = "move"
  /\ monMap' = [p \in Partitions |-> IF p \in j.part THEN j.cool ELSE monMap[p]]
  /\ fileMap' = Saved(monMap')
  /\ emptied' = emptied \cup (Shards \ AllShards(monMap'))
  /\ Becomes(j, [j EXCEPT !.pc = "record"])
  /\ UNCHANGED <<committed, since, burst, pollVars, cooling, coordMap, writable, events>>

\* The record is what the cooldown counts from.
RecordMigration(j) ==
  /\ j.pc = "record"
  /\ cooling' = TRUE
  /\ jobs' = jobs \ {j}
  /\ UNCHANGED <<committed, history, pollVars, maps, events>>

-----------------------------------------------------------------------------
(***************************************************************************)
(* Restarts: both programs load the map from the file, and only then.      *)
(***************************************************************************)
MonitorRestart ==
  /\ Event("monitor")
  /\ metrics' = [s \in Shards |-> Unknown] /\ prev' = [s \in Shards |-> 0] /\ poller' = "sleeping"
  /\ jobs' = {} /\ cooling' = FALSE
  /\ monMap' = fileMap
  /\ emptied' = emptied \cup (Shards \ AllShards(monMap'))
  /\ UNCHANGED <<committed, since, burst, fileMap, coordMap, writable>>

CoordinatorRestart ==
  /\ Event("coordinator")
  /\ coordMap' = fileMap
  /\ UNCHANGED <<committed, history, pollVars, jobVars, monMap, fileMap, writable>>

RebalanceInit ==
  /\ committed = [s \in Shards |-> 0] /\ since = [s \in Shards |-> 0] /\ burst = [s \in Shards |-> 0]
  /\ emptied = Shards \ AllShards(Home)
  /\ metrics = [s \in Shards |-> Unknown] /\ prev = [s \in Shards |-> 0] /\ poller = "sleeping"
  /\ jobs = {} /\ cooling = FALSE
  /\ monMap = Home /\ fileMap = Home /\ coordMap = Home /\ writable \in BOOLEAN
  /\ events = RebalanceFaults

Migrate(j) == PickPartition(j) \/ UpdatePartition(j) \/ RecordMigration(j)

\* The bound on the rounds is reached and the shards are silent.
AtRest ==
  /\ events["round"] = 0 /\ poller = "sleeping" /\ jobs = {}
  /\ UNCHANGED rebalanceVars

RebalanceNext ==
  \/ \E s \in Shards : Commit(s) \/ ShardRestart(s)
  \/ PollShards \/ CheckHotspots \/ CooldownEnds
  \/ \E j \in jobs : Migrate(j)
  \/ MonitorRestart \/ CoordinatorRestart
  \/ AtRest

RebalanceSpec == RebalanceInit /\ [][RebalanceNext]_rebalanceVars

\* The goroutines of the monitor run.
Fairness == WF_rebalanceVars(\E j \in jobs : Migrate(j))

FairRebalanceSpec == RebalanceSpec /\ Fairness

-----------------------------------------------------------------------------
(***************************************************************************)
(* Properties.                                                             *)
(***************************************************************************)

Occurred(kinds) == \E k \in kinds : events[k] < RebalanceFaults[k]

\* With the map mounted read-only the coordinator routes every partition to
\* the shard that holds its accounts, through all restarts: no migration moves
\* balances (monitor.go: "Keep migration as a control-plane rebalancing
\* event").  A writable map brings the migrations to a restarted coordinator.
RoutedHome == ~writable => coordMap = Home

\* Where the map can be saved, a restarted monitor goes on with the map that
\* the migrations so far have made, however they interleaved.
FileIsMap == writable => fileMap = monMap

\* A migration that was started comes to an end, also when another one took
\* the hot shard's last partition in the meantime.
MigrationsEnd == jobs # {} ~> jobs = {}

\* monitor.go: "rate per poll interval": the shard that a migration relieves
\* committed more than the threshold between the last two polls.  After a
\* restart of the monitor, a poll that a shard did not answer, or a time in
\* which the shard had no partition and was not polled at all, the difference
\* of the counters spans more than that.
HotIsHot ==
  ~Occurred({"monitor", "poll"}) => \A j \in jobs : j.hot \in emptied \/ j.burst > Threshold
=============================================================================
