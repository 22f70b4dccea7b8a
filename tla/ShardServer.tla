---------------------------- MODULE ShardServer ----------------------------
(***************************************************************************)
(* The shard servers (shard/server/shard_server.go): each has a write-     *)
(* ahead log, an in-memory ledger and the map seenTxns, and serves RPCs in *)
(* concurrent goroutines.  A goroutine is a record of the set calls; its   *)
(* pc is the next WAL write or ledger operation it will make, so handlers  *)
(* interleave, and a shard crashes, between any two of them.  Every step   *)
(* makes at most one WAL write or one ledger operation, except that a      *)
(* PREPARE whose write fails takes its reservation back in the same step.  *)
(* The bookkeeping in seenTxns is protected by the handler's transaction   *)
(* mutex, so it is part of the step next to it.                            *)
(***************************************************************************)
EXTENDS Recovery

CONSTANTS
  Shards, Accounts,
  Home,                         \* Home[a]: the shard that serves account a
  Transfers,                    \* transaction IDs of transfers
  Source, Destination, Amount,  \* the fields of transfer t
  Submissions, TxnOf,           \* client submissions; two may carry the same transfer
  Stripe,                       \* Stripe[t]: the mutex that t hashes to
  CreateTxn,                    \* CreateTxn[a]: the ID "create-<a>"
  Openings,                     \* opening balances create requests ask for
  InitTxn, InitialLog,          \* what NewShardServer logged at first start-up
  Faults                        \* Faults[k]: how many faults of kind k may happen

TxnIDs == Transfers \cup {CreateTxn[a] : a \in Accounts} \cup {InitTxn}

(***************************************************************************)
(* Faults of the environment: a shard process dies, the client's HTTP      *)
(* timeout fires, a request is lost, the log's buffered writer fails, its  *)
(* fsync fails, replication misses its quorum, a coordinator dies.         *)
(* "create" bounds the account-creation requests.                          *)
(***************************************************************************)
FaultKinds == {"crash", "timeout", "loss", "flush", "fsync", "replicate", "coordinator", "create"}

TxnStates == {"NONE", "PENDING", "PREPARED", "COMMITTED", "ABORTED"}

RunningAt == {"logDebit", "logCredit", "applyTransfer", "reserve", "logPrepared",
              "applyCredit", "logCommitted", "logAborted", "markAborted"}

Answers == {"ok", "error", "PREPARED", "COMMITTED", "ABORTED"}

Calls == [sub : Submissions, kind : {"EXECUTE", "PREPARE", "COMMIT", "ABORT"},
          op : {"TRANSFER", "DEBIT", "CREDIT"}, try : Nat, shard : Shards,
          live : BOOLEAN, pc : {"sent"} \cup RunningAt \cup Answers]

WALEntries ==
  [op : Operations, txn : TxnIDs, account : Accounts, amount : Int]
    \cup [op : Markers, txn : TxnIDs, account : {NoAccount}, amount : {0}]

CreateStates == [pc : {"idle", "createLedger", "logCommitted", "logAborted"},
                 account : Accounts \cup {NoAccount}, amount : Int]

NoCreate == [pc |-> "idle", account |-> NoAccount, amount |-> 0]

ASSUME ConstantsAssumption ==
  /\ Home \in [Accounts -> Shards]
  /\ Source \in [Transfers -> Accounts]
  /\ Destination \in [Transfers -> Accounts]
  /\ Amount \in [Transfers -> Int]
  /\ TxnOf \in [Submissions -> Transfers]
  /\ DOMAIN CreateTxn = Accounts
  /\ \A a \in Accounts : CreateTxn[a] \notin Transfers /\ CreateTxn[a] # InitTxn
  /\ InitTxn \notin Transfers
  /\ NoAccount \notin Accounts
  /\ Openings \subseteq Int
  /\ Faults \in [FaultKinds -> Nat]

ASSUME InitialLogAssumption ==
  /\ InitialLog \in [Shards -> Seq(WALEntries)]
  /\ \A s \in Shards : \A i \in DOMAIN InitialLog[s] :
       /\ InitialLog[s][i].txn = InitTxn
       /\ InitialLog[s][i].op \in {"CREATE_ACCOUNT", "COMMITTED"}

VARIABLES
  wal,       \* wal[s]: the entries in the log file of shard s
  sealed,    \* sealed[s]: the log's bufio.Writer holds a sticky error
  ledger,    \* ledger[s]: the balances in memory
  seen,      \* seen[s][t]: seenTxns, "NONE" when t is not in the map
  up,        \* up[s]: the process is running
  creating,  \* creating[s]: the account creation holding createMu
  calls,     \* the RPCs sent, running, or answered and not yet received
  budget     \* budget[k]: faults of kind k that may still happen

shardVars == <<wal, sealed, ledger, seen, up, creating, calls, budget>>

-----------------------------------------------------------------------------
Txn(c) == TxnOf[c.sub]

AccountOf(c) == IF c.op = "CREDIT" THEN Destination[Txn(c)] ELSE Source[Txn(c)]

Spend(k) == budget[k] > 0 /\ budget' = [budget EXCEPT ![k] = @ - 1]

(***************************************************************************)
(* wal.Append, MarkCommitted and MarkAborted write, flush and fsync one    *)
(* line under the log's mutex.  When the flush fails, bufio.Writer keeps   *)
(* the error and refuses every later write; when only the fsync fails, the *)
(* line is in the file although the caller is told that it is not.         *)
(***************************************************************************)
Write(s, e) ==
  /\ ~sealed[s]
  /\ wal' = [wal EXCEPT ![s] = Append(@, e)]
  /\ UNCHANGED <<sealed, budget>>

WriteFails(s, e) ==
  \/ /\ sealed[s]
     /\ UNCHANGED <<wal, sealed, budget>>
  \/ /\ ~sealed[s]
     /\ Spend("flush")
     /\ sealed' = [sealed EXCEPT ![s] = TRUE]
     /\ UNCHANGED wal
  \/ /\ ~sealed[s]
     /\ Spend("fsync")
     /\ wal' = [wal EXCEPT ![s] = Append(@, e)]
     /\ UNCHANGED sealed

NoWrite == UNCHANGED <<wal, sealed, budget>>

(***************************************************************************)
(* Control flow of a handler goroutine.  A handler whose client has given  *)
(* up (live = FALSE) runs to its end; its answer goes nowhere.             *)
(***************************************************************************)
Goto(c, label) == calls' = (calls \ {c}) \cup {[c EXCEPT !.pc = label]}

Return(c, answer) ==
  calls' = (calls \ {c}) \cup (IF c.live THEN {[c EXCEPT !.pc = answer]} ELSE {})

State(c) == seen[c.shard][Txn(c)]

SetState(c, state) == seen' = [seen EXCEPT ![c.shard][Txn(c)] = state]

SetLedger(c, l) == ledger' = [ledger EXCEPT ![c.shard] = l]

Running(c) == c.pc \in RunningAt

(***************************************************************************)
(* txnMutex: a handler starts when no running handler of the shard holds   *)
(* the stripe of its transaction.  It keeps the stripe until it returns.   *)
(***************************************************************************)
Acquire(c) ==
  /\ up[c.shard]
  /\ c.pc = "sent"
  /\ \A d \in calls : (d.shard = c.shard /\ Running(d)) => Stripe[Txn(d)] # Stripe[Txn(c)]

frame == UNCHANGED <<up, creating>>

-----------------------------------------------------------------------------
(***************************************************************************)
(* ExecuteSingleShard: both accounts live on this shard.                   *)
(***************************************************************************)
ExecuteSeen(c) ==
  /\ c.kind = "EXECUTE" /\ Acquire(c)
  /\ State(c) # "NONE"
  /\ Return(c, State(c))
  /\ UNCHANGED <<ledger, seen>> /\ NoWrite /\ frame

BeginExecute(c) ==
  /\ c.kind = "EXECUTE" /\ Acquire(c)
  /\ State(c) = "NONE"
  /\ IF ValidateDebit(ledger[c.shard], Source[Txn(c)], Amount[Txn(c)])
       THEN SetState(c, "PENDING") /\ Goto(c, "logDebit")
       ELSE SetState(c, "ABORTED") /\ Goto(c, "logAborted")
  /\ UNCHANGED ledger /\ NoWrite /\ frame

\* deferred deleteTxnState: the transaction is forgotten
Forget(c) == SetState(c, "NONE") /\ Return(c, "error")

LogDebit(c) ==
  LET e == WALEntry("DEBIT", Txn(c), Source[Txn(c)], Amount[Txn(c)]) IN
  /\ c.pc = "logDebit"
  /\ \/ Write(c.shard, e) /\ Goto(c, "logCredit") /\ UNCHANGED seen
     \/ WriteFails(c.shard, e) /\ Forget(c)
  /\ UNCHANGED ledger /\ frame

LogCredit(c) ==
  LET e == WALEntry("CREDIT", Txn(c), Destination[Txn(c)], Amount[Txn(c)]) IN
  /\ c.pc = "logCredit"
  /\ \/ Write(c.shard, e) /\ Goto(c, "applyTransfer") /\ UNCHANGED seen
     \/ WriteFails(c.shard, e) /\ Forget(c)
  /\ UNCHANGED ledger /\ frame

(***************************************************************************)
(* The DEBIT or the CREDIT entry just logged does not reach its quorum.    *)
(***************************************************************************)
ReplicationFails(c) ==
  /\ c.pc \in {"logCredit", "applyTransfer"}
  /\ Spend("replicate")
  /\ Forget(c)
  /\ UNCHANGED <<wal, sealed, ledger>> /\ frame

M_ApplyTransferStepSpins(c) ==
  LET l == ledger[c.shard] IN
  /\ c.pc = "applyTransfer"
  /\ \/ /\ CanApplyTransfer(l, Source[Txn(c)], Destination[Txn(c)], Amount[Txn(c)])
        /\ SetLedger(c, ApplyTransfer(l, Source[Txn(c)], Destination[Txn(c)], Amount[Txn(c)]))
        /\ Goto(c, "logCommitted")
     \/ /\ ~CanApplyTransfer(l, Source[Txn(c)], Destination[Txn(c)], Amount[Txn(c)])
        /\ UNCHANGED <<calls, ledger>>
  /\ UNCHANGED seen /\ NoWrite /\ frame

ApplyTransferStep(c) ==
  LET l == ledger[c.shard] IN
  /\ c.pc = "applyTransfer"
  /\ \/ /\ CanApplyTransfer(l, Source[Txn(c)], Destination[Txn(c)], Amount[Txn(c)])
        /\ SetLedger(c, ApplyTransfer(l, Source[Txn(c)], Destination[Txn(c)], Amount[Txn(c)]))
        /\ Goto(c, "logCommitted")
     \/ /\ ~CanApplyTransfer(l, Source[Txn(c)], Destination[Txn(c)], Amount[Txn(c)])
        /\ Goto(c, "logAborted")
        /\ UNCHANGED ledger
  /\ UNCHANGED seen /\ NoWrite /\ frame

(***************************************************************************)
(* The end of ExecuteSingleShard and CommitTransaction: the COMMITTED      *)
(* record.  When it cannot be written, the transaction still counts as     *)
(* committed in memory and the client gets an error.                       *)
(***************************************************************************)
M_LogCommittedIgnoresError(c) ==
  /\ c.pc = "logCommitted"
  /\ \/ Write(c.shard, Marker("COMMITTED", Txn(c)))
     \/ WriteFails(c.shard, Marker("COMMITTED", Txn(c)))
  /\ Return(c, IF c.kind = "EXECUTE" THEN "COMMITTED" ELSE "ok")
  /\ SetState(c, "COMMITTED")
  /\ UNCHANGED ledger /\ frame

M_LogCommittedForgets(c) ==
  /\ c.pc = "logCommitted"
  /\ \/ /\ Write(c.shard, Marker("COMMITTED", Txn(c)))
        /\ SetState(c, "COMMITTED")
        /\ Return(c, IF c.kind = "EXECUTE" THEN "COMMITTED" ELSE "ok")
     \/ WriteFails(c.shard, Marker("COMMITTED", Txn(c))) /\ Forget(c)
  /\ UNCHANGED ledger /\ frame

LogCommitted(c) ==
  /\ c.pc = "logCommitted"
  /\ \/ /\ Write(c.shard, Marker("COMMITTED", Txn(c)))
        /\ Return(c, IF c.kind = "EXECUTE" THEN "COMMITTED" ELSE "ok")
     \/ /\ WriteFails(c.shard, Marker("COMMITTED", Txn(c)))
        /\ Return(c, "error")
  /\ SetState(c, "COMMITTED")
  /\ UNCHANGED ledger /\ frame

(***************************************************************************)
(* A transfer or a PREPARE is rejected: MarkAborted, its error discarded.  *)
(***************************************************************************)
LogAborted(c) ==
  /\ c.pc = "logAborted"
  /\ \/ Write(c.shard, Marker("ABORTED", Txn(c)))
     \/ WriteFails(c.shard, Marker("ABORTED", Txn(c)))
  /\ SetState(c, "ABORTED")
  /\ Return(c, IF c.kind = "EXECUTE" THEN "ABORTED" ELSE "error")
  /\ UNCHANGED ledger /\ frame

-----------------------------------------------------------------------------
(***************************************************************************)
(* PrepareTransaction: a DEBIT reserves the funds in the ledger before     *)
(* PREPARED is logged; a CREDIT only needs the account to exist.           *)
(***************************************************************************)
PrepareSeen(c) ==
  /\ c.kind = "PREPARE" /\ Acquire(c)
  /\ State(c) # "NONE"
  /\ Return(c, IF State(c) \in {"PREPARED", "COMMITTED"} THEN "ok" ELSE "error")
  /\ UNCHANGED <<ledger, seen>> /\ NoWrite /\ frame

M_BeginPrepareAgain(c) ==
  /\ c.kind = "PREPARE" /\ Acquire(c)
  /\ SetState(c, "PENDING")
  /\ Goto(c, IF c.op = "DEBIT" THEN "reserve" ELSE "logPrepared")
  /\ UNCHANGED ledger /\ NoWrite /\ frame

BeginPrepare(c) ==
  LET valid == IF c.op = "DEBIT"
                 THEN ValidateDebit(ledger[c.shard], AccountOf(c), Amount[Txn(c)])
                 ELSE AccountExists(ledger[c.shard], AccountOf(c)) IN
  /\ c.kind = "PREPARE" /\ Acquire(c)
  /\ State(c) = "NONE"
  /\ SetState(c, "PENDING")
  /\ Goto(c, IF ~valid THEN "logAborted"
             ELSE IF c.op = "DEBIT" THEN "reserve" ELSE "logPrepared")
  /\ UNCHANGED ledger /\ NoWrite /\ frame

Reserve(c) ==
  LET l == ledger[c.shard] IN
  /\ c.pc = "reserve"
  /\ \/ /\ ValidateDebit(l, AccountOf(c), Amount[Txn(c)])
        /\ SetLedger(c, ApplyDebit(l, AccountOf(c), Amount[Txn(c)]))
        /\ Goto(c, "logPrepared")
     \/ /\ ~ValidateDebit(l, AccountOf(c), Amount[Txn(c)])
        /\ Goto(c, "logAborted")
        /\ UNCHANGED ledger
  /\ UNCHANGED seen /\ NoWrite /\ frame

LogPrepared(c) ==
  LET e == WALEntry("PREPARED", Txn(c), AccountOf(c), Amount[Txn(c)]) IN
  /\ c.pc = "logPrepared"
  /\ \/ /\ Write(c.shard, e)
        /\ SetState(c, "PREPARED")
        /\ Return(c, "ok")
        /\ UNCHANGED ledger
     \/ /\ WriteFails(c.shard, e)
        /\ IF c.op = "DEBIT"
             THEN SetLedger(c, RollbackDebit(ledger[c.shard], AccountOf(c), Amount[Txn(c)]))
             ELSE UNCHANGED ledger
        /\ Forget(c)
  /\ frame

(***************************************************************************)
(* CommitTransaction: logs the operation, applies a CREDIT (a DEBIT was    *)
(* applied by PREPARE), then LogCommitted.  A transaction the shard does   *)
(* not know may be committed.  A replication failure is only logged.       *)
(***************************************************************************)
CommitSeen(c) ==
  /\ c.kind = "COMMIT" /\ Acquire(c)
  /\ State(c) \in {"COMMITTED", "ABORTED"}
  /\ Return(c, IF State(c) = "COMMITTED" THEN "ok" ELSE "error")
  /\ UNCHANGED <<ledger, seen>> /\ NoWrite /\ frame

M_BeginCommitAgain(c) ==
  /\ c.kind = "COMMIT" /\ Acquire(c)
  /\ State(c) # "ABORTED"
  /\ Write(c.shard, WALEntry(c.op, Txn(c), AccountOf(c), Amount[Txn(c)]))
  /\ Goto(c, IF c.op = "CREDIT" THEN "applyCredit" ELSE "logCommitted")
  /\ UNCHANGED <<ledger, seen>> /\ frame

BeginCommit(c) ==
  LET e == WALEntry(c.op, Txn(c), AccountOf(c), Amount[Txn(c)]) IN
  /\ c.kind = "COMMIT" /\ Acquire(c)
  /\ State(c) \notin {"COMMITTED", "ABORTED"}
  /\ \/ Write(c.shard, e) /\ Goto(c, IF c.op = "CREDIT" THEN "applyCredit" ELSE "logCommitted")
     \/ WriteFails(c.shard, e) /\ Return(c, "error")
  /\ UNCHANGED <<ledger, seen>> /\ frame

ApplyCreditStep(c) ==
  LET l == ledger[c.shard] IN
  /\ c.pc = "applyCredit"
  /\ \/ /\ CanApplyCredit(l, AccountOf(c), Amount[Txn(c)])
        /\ SetLedger(c, ApplyCredit(l, AccountOf(c), Amount[Txn(c)]))
        /\ Goto(c, "logCommitted")
     \/ /\ ~CanApplyCredit(l, AccountOf(c), Amount[Txn(c)])
        /\ Return(c, "error")
        /\ UNCHANGED ledger
  /\ UNCHANGED seen /\ NoWrite /\ frame

(***************************************************************************)
(* AbortTransaction: gives a reservation back, then logs ABORTED.  An      *)
(* unknown transaction is recorded as aborted too.                         *)
(***************************************************************************)
AbortSeen(c) ==
  /\ c.kind = "ABORT" /\ Acquire(c)
  /\ State(c) = "ABORTED"
  /\ Return(c, "ok")
  /\ UNCHANGED <<ledger, seen>> /\ NoWrite /\ frame

BeginAbort(c) ==
  /\ c.kind = "ABORT" /\ Acquire(c)
  /\ State(c) # "ABORTED"
  /\ IF c.op = "DEBIT" /\ State(c) = "PREPARED"
       THEN SetLedger(c, RollbackDebit(ledger[c.shard], AccountOf(c), Amount[Txn(c)]))
       ELSE UNCHANGED ledger
  /\ Goto(c, "markAborted")
  /\ UNCHANGED seen /\ NoWrite /\ frame

MarkAborted(c) ==
  /\ c.pc = "markAborted"
  /\ \/ /\ Write(c.shard, Marker("ABORTED", Txn(c)))
        /\ SetState(c, "ABORTED")
        /\ Return(c, "ok")
     \/ /\ WriteFails(c.shard, Marker("ABORTED", Txn(c)))
        /\ Return(c, "error")
        /\ UNCHANGED seen
  /\ UNCHANGED ledger /\ frame

-----------------------------------------------------------------------------
(***************************************************************************)
(* CreateAccountWithWAL, one at a time per shard (createMu).  A request    *)
(* for an existing account returns ErrAccountExists and changes nothing.   *)
(***************************************************************************)
createFrame == UNCHANGED <<up, calls>>

CreatePC(s, label) == creating' = [creating EXCEPT ![s].pc = label]

CreateDone(s) == creating' = [creating EXCEPT ![s] = NoCreate]

BeginCreate(a, opening) ==
  LET s == Home[a]
      e == WALEntry("CREATE_ACCOUNT", CreateTxn[a], a, opening) IN
  /\ up[s] /\ creating[s] = NoCreate
  /\ ~AccountExists(ledger[s], a)
  /\ ~sealed[s]
  /\ Spend("create")
  /\ wal' = [wal EXCEPT ![s] = Append(@, e)]
  /\ creating' = [creating EXCEPT ![s] = [pc |-> "createLedger", account |-> a, amount |-> opening]]
  /\ UNCHANGED <<sealed, ledger, seen>> /\ createFrame

BeginCreateFails(a, opening) ==
  /\ up[Home[a]] /\ creating[Home[a]] = NoCreate
  /\ ~AccountExists(ledger[Home[a]], a)
  /\ WriteFails(Home[a], WALEntry("CREATE_ACCOUNT", CreateTxn[a], a, opening))
  /\ UNCHANGED <<ledger, seen, creating>> /\ createFrame

CreateLedger(s) ==
  LET k == creating[s] IN
  /\ k.pc = "createLedger"
  /\ \/ /\ CanCreateAccount(ledger[s], k.account, k.amount)
        /\ ledger' = [ledger EXCEPT ![s] = SetBalance(@, k.account, k.amount)]
        /\ CreatePC(s, "logCommitted")
     \/ /\ ~CanCreateAccount(ledger[s], k.account, k.amount)
        /\ CreatePC(s, "logAborted")
        /\ UNCHANGED ledger
  /\ UNCHANGED seen /\ NoWrite /\ createFrame

LogCreated(s) ==
  LET e == Marker("COMMITTED", CreateTxn[creating[s].account]) IN
  /\ creating[s].pc = "logCommitted"
  /\ Write(s, e) \/ WriteFails(s, e)
  /\ seen' = [seen EXCEPT ![s][CreateTxn[creating[s].account]] = "COMMITTED"]
  /\ CreateDone(s)
  /\ UNCHANGED ledger /\ createFrame

LogCreateAborted(s) ==
  LET e == Marker("ABORTED", CreateTxn[creating[s].account]) IN
  /\ creating[s].pc = "logAborted"
  /\ Write(s, e) \/ WriteFails(s, e)
  /\ CreateDone(s)
  /\ UNCHANGED <<ledger, seen>> /\ createFrame

-----------------------------------------------------------------------------
(***************************************************************************)
(* A process dies: its memory is gone, its running handlers with it; their *)
(* clients get a broken connection.  A request that had not reached the    *)
(* process may still be refused, lost, or served after the restart.        *)
(***************************************************************************)
Crash(s) ==
  LET victims == {c \in calls : c.shard = s /\ Running(c)} IN
  /\ up[s]
  /\ Spend("crash")
  /\ up' = [up EXCEPT ![s] = FALSE]
  /\ ledger' = [ledger EXCEPT ![s] = NewLedger]
  /\ seen' = [seen EXCEPT ![s] = [t \in TxnIDs |-> "NONE"]]
  /\ creating' = [creating EXCEPT ![s] = NoCreate]
  /\ sealed' = [sealed EXCEPT ![s] = FALSE]
  /\ calls' = (calls \ victims) \cup {[c EXCEPT !.pc = "error"] : c \in {d \in victims : d.live}}
  /\ UNCHANGED wal

(***************************************************************************)
(* NewShardServer on a log that is not empty.                              *)
(***************************************************************************)
Restart(s) ==
  /\ ~up[s]
  /\ up' = [up EXCEPT ![s] = TRUE]
  /\ ledger' = [ledger EXCEPT ![s] = Recover(wal[s])]
  /\ seen' = [seen EXCEPT ![s] = [t \in TxnIDs |-> RecoveredState(wal[s], t)]]
  /\ UNCHANGED <<wal, sealed, creating, calls, budget>>

(***************************************************************************)
(* A request that never reaches its shard: the shard is down, or the       *)
(* request is lost on the way.                                             *)
(***************************************************************************)
Refused(c) ==
  /\ c.pc = "sent" /\ ~up[c.shard]
  /\ Return(c, "error")
  /\ UNCHANGED <<ledger, seen>> /\ NoWrite /\ frame

Lost(c) ==
  /\ c.pc = "sent"
  /\ Spend("loss")
  /\ Return(c, "error")
  /\ UNCHANGED <<wal, sealed, ledger, seen>> /\ frame

-----------------------------------------------------------------------------
ShardInit ==
  /\ wal = InitialLog
  /\ sealed = [s \in Shards |-> FALSE]
  /\ ledger = [s \in Shards |-> Recover(InitialLog[s])]
  /\ seen = [s \in Shards |-> [t \in TxnIDs |-> RecoveredState(InitialLog[s], t)]]
  /\ up = [s \in Shards |-> TRUE]
  /\ creating = [s \in Shards |-> NoCreate]
  /\ calls = {}
  /\ budget = Faults

Handle(c) ==
  \/ ExecuteSeen(c) \/ BeginExecute(c) \/ LogDebit(c) \/ LogCredit(c)
  \/ ReplicationFails(c) \/ ApplyTransferStep(c)
  \/ PrepareSeen(c) \/ BeginPrepare(c) \/ Reserve(c) \/ LogPrepared(c)
  \/ CommitSeen(c) \/ BeginCommit(c) \/ ApplyCreditStep(c) \/ LogCommitted(c)
  \/ AbortSeen(c) \/ BeginAbort(c) \/ MarkAborted(c) \/ LogAborted(c)

Network(c) == Refused(c) \/ Lost(c)

Create ==
  \/ \E a \in Accounts, opening \in Openings :
       BeginCreate(a, opening) \/ BeginCreateFails(a, opening)
  \/ \E s \in Shards : CreateLedger(s) \/ LogCreated(s) \/ LogCreateAborted(s)

ShardNext ==
  \/ \E c \in calls : Handle(c) \/ Network(c)
  \/ Create
  \/ \E s \in Shards : Crash(s) \/ Restart(s)

ShardTypeOK ==
  /\ wal \in [Shards -> Seq(WALEntries)]
  /\ sealed \in [Shards -> BOOLEAN]
  /\ DOMAIN ledger = Shards
  /\ \A s \in Shards : DOMAIN ledger[s] \subseteq Accounts
  /\ seen \in [Shards -> [TxnIDs -> TxnStates]]
  /\ up \in [Shards -> BOOLEAN]
  /\ creating \in [Shards -> CreateStates]
  /\ calls \subseteq Calls
  /\ budget \in [FaultKinds -> Nat]
=============================================================================
