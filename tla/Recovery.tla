------------------------------ MODULE Recovery ------------------------------
(***************************************************************************)
(* The write-ahead log of one shard (shard/wal/wal.go, entries only) and   *)
(* its replay at start-up (shard/recovery/recovery.go).  A log is the      *)
(* sequence of entries in the file, oldest first.                          *)
(***************************************************************************)
EXTENDS Ledger, Sequences, FiniteSetsExt

CONSTANT NoAccount   \* the account of an entry that names none

Operations == {"DEBIT", "CREDIT", "CREATE_ACCOUNT", "PREPARED"}
Markers == {"COMMITTED", "ABORTED"}

(***************************************************************************)
(* The entry Append writes, and the marker MarkCommitted or MarkAborted    *)
(* writes.  Timestamps and the Committed flag are never read back.         *)
(***************************************************************************)
WALEntry(op, t, a, n) == [op |-> op, txn |-> t, account |-> a, amount |-> n]

Marker(op, t) == WALEntry(op, t, NoAccount, 0)

Logged(log, op, t) == \E i \in DOMAIN log : log[i].op = op /\ log[i].txn = t

(***************************************************************************)
(* buildFinalStateMap: a COMMITTED record always wins over an ABORTED one, *)
(* whatever their order; a transaction with neither is in flight.          *)
(***************************************************************************)
FinalState(log, t) ==
  CASE Logged(log, "COMMITTED", t) -> "COMMITTED"
    [] ~Logged(log, "COMMITTED", t) /\ Logged(log, "ABORTED", t) -> "ABORTED"
    [] OTHER -> "IN_FLIGHT"

(***************************************************************************)
(* The entries Recover applies: those of committed transactions.           *)
(***************************************************************************)
M_ReplayedUnlessAborted(log) == {i \in DOMAIN log : FinalState(log, log[i].txn) # "ABORTED"}

Replayed(log) == {i \in DOMAIN log : FinalState(log, log[i].txn) = "COMMITTED"}

(***************************************************************************)
(* The balances Recover leaves in an empty ledger: the last committed      *)
(* CREATE_ACCOUNT of the account, plus the credits and minus the debits of *)
(* every entry whose transaction committed.  Entries are not deduplicated. *)
(* An account that is only moved is created at zero.                       *)
(***************************************************************************)
Recover(log) ==
  LET replayed   == Replayed(log)
      Of(a, ops) == {i \in replayed : log[i].account = a /\ log[i].op \in ops}
      Opening(a) == IF Of(a, {"CREATE_ACCOUNT"}) = {} THEN 0
                    ELSE log[Max(Of(a, {"CREATE_ACCOUNT"}))].amount
      Delta(i)   == IF log[i].op = "DEBIT" THEN -log[i].amount ELSE log[i].amount
      accounts   == {log[i].account : i \in {j \in replayed :
                       log[j].op \in {"CREATE_ACCOUNT", "DEBIT", "CREDIT"}}}
  IN  [a \in accounts |->
         Int64(Opening(a) + MapThenSumSet(Delta, Of(a, {"DEBIT", "CREDIT"})))]

(***************************************************************************)
(* The state NewShardServer puts in seenTxns for transaction t after       *)
(* Recover: PendingTxns become PREPARED, then the committed and aborted    *)
(* ones overwrite them.  A transaction that only logged operations is      *)
(* forgotten ("NONE").                                                     *)
(***************************************************************************)
RecoveredState(log, t) ==
  CASE FinalState(log, t) # "IN_FLIGHT" -> FinalState(log, t)
    [] FinalState(log, t) = "IN_FLIGHT" /\ Logged(log, "PREPARED", t) -> "PREPARED"
    [] OTHER -> "NONE"
=============================================================================
