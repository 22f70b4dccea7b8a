--------------------------- MODULE PartitionMove ---------------------------
(***************************************************************************)
(* Moving a partition between shards with the shards' halt, receive and    *)
(* resume handlers (shard/server/shard_server.go, HaltAndSnapshotPartition *)
(* to ResumePartition, and shard/partition/partition.go).  The caller of   *)
(* the handlers is outside the repository: it follows the documented       *)
(* order halt, snapshot, transfer, resume, then routes to the new shard.   *)
(*                                                                         *)
(* A transaction is one step that debits and credits the accounts on the   *)
(* shards they are routed to, and logs that; TwoPC has its inner steps.    *)
(***************************************************************************)
EXTENDS Ledger, FiniteSetsExt

CONSTANTS
  Shards, Partitions, Accounts,
  GetPartition,   \* GetPartition[acc]: the partition that the hash gives
  Home,           \* Home[p]: the shard that owns p at the beginning
  Opening,        \* the balance every account is created with
  MoveFaults      \* MoveFaults[k]: how many events of kind k may happen;
                  \* "traffic" bounds the transfers while a partition moves

MoveFaultKinds == {"crash", "transfer", "traffic", "move", "lost"}

ASSUME MoveAssumption ==
  /\ GetPartition \in [Accounts -> Partitions] /\ Home \in [Partitions -> Shards]
  /\ Opening \in Nat
  /\ MoveFaults \in [MoveFaultKinds -> Nat]

VARIABLES
  ledger,      \* ledger[s]: the balances in memory
  logged,      \* logged[s]: the balances that a replay of the WAL gives
  partitions,  \* partitions[s][p]: Manager.partitions, "ABSENT" if not there
  route,       \* route[p]: the shard that transactions go to
  move,        \* the move under way; sent: a snapshot has been taken to be sent on
  past,        \* history: what the moving partition held since the halt
  events       \* events[k]: events of kind k that may still happen

books == <<ledger, logged>>
moveVars == <<books, partitions, route, move, past, events>>

Event(k) == events[k] > 0 /\ events' = [events EXCEPT ![k] = @ - 1]

NoMove == [pc |-> "none"]

Moving == move.pc # "none"

Members(p) == {a \in Accounts : GetPartition[a] = p}

\* The balances of partition p in ledger l.
Part(l, p) == [a \in DOMAIN l \cap Members(p) |-> l[a]]

\* past follows the source's partition from the halt to the snapshot.
Watch ==
  past' = CASE move'.pc = "halted" -> (IF move.pc = "halted" THEN past ELSE {})
                                      \cup {Part(ledger'[move'.from], move'.part)}
            [] move'.pc \in {"receive", "received"} -> past
            [] OTHER -> {}

-----------------------------------------------------------------------------
(***************************************************************************)
(* Transactions: no path looks at the partition's state.                   *)
(***************************************************************************)
Balance(l, a) == IF AccountExists(l, a) THEN l[a] ELSE 0

Post(bs, s, a, n) == [bs EXCEPT ![s] = SetBalance(@, a, Int64(Balance(@, a) + n))]

Transfer(src, dst) ==
  LET s == route[GetPartition[src]]
      d == route[GetPartition[dst]]
  IN  /\ src # dst
      /\ Event(IF Moving THEN "traffic" ELSE "transfer")
      /\ ValidateDebit(ledger[s], src, 1) /\ AccountExists(ledger[d], dst)
      /\ ledger' = Post(Post(ledger, s, src, -1), d, dst, 1)
      /\ logged' = Post(Post(logged, s, src, -1), d, dst, 1)
      /\ UNCHANGED <<partitions, route, move>> /\ Watch

\* The ledger is what the WAL gives, the manager what the configuration says.
Configured(s) == [p \in Partitions |-> IF Home[p] = s THEN "ACTIVE" ELSE "ABSENT"]

ShardCrash(s) ==
  /\ Event("crash")
  /\ ledger' = [ledger EXCEPT ![s] = logged[s]]
  /\ partitions' = [partitions EXCEPT ![s] = Configured(s)]
  /\ UNCHANGED <<logged, route, move>> /\ Watch

-----------------------------------------------------------------------------
(***************************************************************************)
(* The handlers.                                                           *)
(***************************************************************************)
BeginMove(p, to) ==
  /\ ~Moving /\ to # route[p] /\ Event("move")
  /\ move' = [pc |-> "halt", part |-> p, from |-> route[p], to |-> to,
              snap |-> NewLedger, todo |-> {}, sent |-> FALSE]
  /\ UNCHANGED <<books, partitions, route>> /\ Watch

\* The shard answers with an error if it does not own the partition.
M_HaltPartitionNothing ==
  /\ move.pc = "halt"
  /\ partitions[move.from][move.part] # "ABSENT"
  /\ move' = [move EXCEPT !.pc = "halted"]
  /\ UNCHANGED <<books, partitions, route, events>> /\ Watch

HaltPartition ==
  /\ move.pc = "halt"
  /\ \/ /\ partitions[move.from][move.part] # "ABSENT"
        /\ partitions' = [partitions EXCEPT ![move.from][move.part] = "HALTED"]
        /\ move' = [move EXCEPT !.pc = "halted"]
     \/ /\ partitions[move.from][move.part] = "ABSENT"
        /\ move' = NoMove /\ UNCHANGED partitions
  /\ UNCHANGED <<books, route, events>> /\ Watch

M_SnapshotByAccount ==
  LET missing == (DOMAIN ledger[move.from] \cap Members(move.part)) \ DOMAIN move.snap
  IN  /\ move.pc = "halted"
      /\ \/ \E a \in missing : move' = [move EXCEPT !.snap = SetBalance(@, a, ledger[move.from][a])]
         \/ missing = {} /\ move' = [move EXCEPT !.pc = "receive", !.todo = DOMAIN move.snap, !.sent = TRUE]
      /\ UNCHANGED <<books, partitions, route, events>>
      /\ past' = past \cup {Part(ledger[move.from], move.part)}

\* Ledger.Snapshot copies the map under the ledger's lock.
Snapshot ==
  /\ move.pc = "halted"
  /\ LET snap == Part(ledger[move.from], move.part)
     IN  move' = [move EXCEPT !.pc = "receive", !.snap = snap, !.todo = DOMAIN snap, !.sent = TRUE]
  /\ UNCHANGED <<books, partitions, route, past, events>>

\* The caller gives the move up, before it has sent anything on, and resumes
\* the partition where it was.
GiveUp ==
  /\ move.pc = "halted" /\ ~move.sent
  /\ partitions' = [partitions EXCEPT ![move.from][move.part] = IF @ = "ABSENT" THEN @ ELSE "ACTIVE"]
  /\ move' = NoMove
  /\ UNCHANGED <<books, route, events>> /\ Watch

\* ReceivePartition sets one balance after the other, in any order, and logs
\* nothing.
M_ReceiveBalanceAdds(a) ==
  /\ move.pc = "receive" /\ a \in move.todo
  /\ ledger' = Post(ledger, move.to, a, move.snap[a])
  /\ move' = [move EXCEPT !.todo = @ \ {a}]
  /\ UNCHANGED <<logged, partitions, route, past, events>>

ReceiveBalance(a) ==
  /\ move.pc = "receive" /\ a \in move.todo
  /\ ledger' = [ledger EXCEPT ![move.to] = SetBalance(@, a, move.snap[a])]
  /\ move' = [move EXCEPT !.todo = @ \ {a}]
  /\ UNCHANGED <<logged, partitions, route, past, events>>

M_AddPartitionEarly ==
  /\ move.pc = "receive"
  /\ partitions' = [partitions EXCEPT ![move.to][move.part] = "ACTIVE"]
  /\ move' = [move EXCEPT !.pc = "received"]
  /\ UNCHANGED <<books, route, past, events>>

AddPartition ==
  /\ move.pc = "receive" /\ move.todo = {}
  /\ partitions' = [partitions EXCEPT ![move.to][move.part] = "ACTIVE"]
  /\ move' = [move EXCEPT !.pc = "received"]
  /\ UNCHANGED <<books, route, past, events>>

\* The caller missed the answer of the receive and sends it again, or starts
\* the move over.
Retry ==
  /\ move.pc = "received" /\ Event("lost")
  /\ \/ move' = [move EXCEPT !.pc = "receive", !.todo = DOMAIN move.snap]
     \/ move' = [move EXCEPT !.pc = "halt"]
  /\ UNCHANGED <<books, partitions, route>> /\ Watch

\* An error of the resume (the partition is not there) ends the move as it is.
ResumePartition ==
  /\ move.pc = "received" /\ move' = NoMove
  /\ \/ /\ partitions[move.to][move.part] # "ABSENT"
        /\ partitions' = [partitions EXCEPT ![move.to][move.part] = "ACTIVE"]
        /\ route' = [route EXCEPT ![move.part] = move.to]
     \/ /\ partitions[move.to][move.part] = "ABSENT"
        /\ UNCHANGED <<partitions, route>>
  /\ UNCHANGED <<books, events>> /\ Watch

MoveInit ==
  /\ ledger = [s \in Shards |-> [a \in {b \in Accounts : Home[GetPartition[b]] = s} |-> Opening]]
  /\ logged = ledger
  /\ partitions = [s \in Shards |-> Configured(s)]
  /\ route = Home /\ move = NoMove /\ past = {}
  /\ events = MoveFaults

\* The bounds are reached.
Settled == ~Moving /\ UNCHANGED moveVars

MoveNext ==
  \/ \E src, dst \in Accounts : Transfer(src, dst)
  \/ \E s \in Shards : ShardCrash(s)
  \/ \E p \in Partitions, to \in Shards : BeginMove(p, to)
  \/ HaltPartition \/ Snapshot \/ GiveUp
  \/ \E a \in Accounts : ReceiveBalance(a)
  \/ AddPartition \/ Retry \/ ResumePartition
  \/ Settled

MoveSpec == MoveInit /\ [][MoveNext]_moveVars

-----------------------------------------------------------------------------
(***************************************************************************)
(* Properties.                                                             *)
(***************************************************************************)

Happened(kinds) == \E k \in kinds : events[k] < MoveFaults[k]

\* The snapshot that is sent on is one that the partition really held at some
\* moment after the halt, whatever transactions and crashes came in between:
\* HaltAndSnapshotPartition copies the ledger in one piece.
SnapshotWasHeld == move.pc \in {"receive", "received"} => move.snap \in past

\* Once the shard has answered a receive, it holds the snapshot and nothing
\* else of the partition, also after a repeated receive, a second snapshot,
\* a copy left over from an earlier stay and transfers on the source.  Only
\* a crash can take it away: ReceivePartition logs nothing.
TargetHoldsSnapshot ==
  move.pc = "received" /\ ~Happened({"crash"}) => Part(ledger[move.to], move.part) = move.snap

\* Nowhere is a partition ACTIVE on two shards (Manager.IsActive): the source
\* is halted before the target adds it.  A shard that restarts takes the
\* partitions of its configuration for ACTIVE.
OneActiveOwner ==
  ~Happened({"crash"}) =>
    \A p \in Partitions : Cardinality({s \in Shards : partitions[s][p] = "ACTIVE"}) <= 1

\* The report: the protocol "ensures no data loss during live rebalancing":
\* the balances that transactions are routed to add up to what was deposited,
\* through retried and abandoned moves and moves back, if no shard crashes
\* and no transfer runs during a move.
NoDataLoss ==
  LET Routed(a) == Balance(ledger[route[GetPartition[a]]], a)
  IN  ~Happened({"crash", "traffic"}) =>
        MapThenSumSet(Routed, Accounts) = Opening * Cardinality(Accounts)
=============================================================================
