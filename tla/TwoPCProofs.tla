---------------------------- MODULE TwoPCProofs ----------------------------
(***************************************************************************)
(* Theorems about TwoPC and their proofs.                                  *)
(***************************************************************************)
EXTENDS TwoPCInvariants, TLAPS

-----------------------------------------------------------------------------
(***************************************************************************)
(* The log.                                                                *)
(***************************************************************************)

\* Appending an entry logs that entry and nothing else (wal.Append).
LEMMA LoggedAppend ==
  ASSUME NEW S, NEW log \in Seq(S), NEW e \in S, NEW op, NEW t
  PROVE  Logged(Append(log, e), op, t) <=> Logged(log, op, t) \/ (e.op = op /\ e.txn = t)
<1> DEFINE new == Append(log, e)
<1>1. /\ DOMAIN new = 1 .. Len(log) + 1
      /\ DOMAIN log = 1 .. Len(log)
      /\ Len(log) \in Nat
      /\ \A i \in 1 .. Len(log) : new[i] = log[i]
      /\ new[Len(log) + 1] = e
  OBVIOUS
<1>2. ASSUME Logged(new, op, t) PROVE Logged(log, op, t) \/ (e.op = op /\ e.txn = t)
  BY <1>1, <1>2 DEF Logged
<1>3. ASSUME Logged(log, op, t) PROVE Logged(new, op, t)
  BY <1>1, <1>3 DEF Logged
<1>4. ASSUME e.op = op, e.txn = t PROVE Logged(new, op, t)
  <2>1. Len(log) + 1 \in DOMAIN new BY <1>1
  <2> QED BY <2>1, <1>1, <1>4 DEF Logged
<1> QED BY <1>2, <1>3, <1>4

\* The entries the handlers and the account creation write are well-formed
\* (WALEntry and Marker, the arguments of Append, MarkCommitted, MarkAborted).
LEMMA EntryType ==
  ASSUME NEW t \in TxnIDs, NEW a \in Accounts, NEW n \in Int
  PROVE  /\ \A op \in Operations : WALEntry(op, t, a, n) \in WALEntries
         /\ \A op \in Markers : Marker(op, t) \in WALEntries
BY DEF WALEntries, WALEntry, Marker

\* A write, whether it succeeds, fails in the buffer or fails in fsync,
\* appends its entry to its own shard's log or leaves the logs alone.
LEMMA WriteEffect ==
  ASSUME TypeOK, NEW s \in Shards, NEW e \in WALEntries, Write(s, e) \/ WriteFails(s, e)
  PROVE  /\ wal' \in [Shards -> Seq(WALEntries)]
         /\ sealed' \in [Shards -> BOOLEAN]
         /\ budget' \in [FaultKinds -> Nat]
         /\ wal' = wal \/ wal' = [wal EXCEPT ![s] = Append(@, e)]
<1> USE DEF TypeOK, ShardTypeOK
<1>1. Append(wal[s], e) \in Seq(WALEntries) OBVIOUS
<1>2. \A k \in FaultKinds : Spend(k) => budget' \in [FaultKinds -> Nat] BY DEF Spend
<1>3. {"flush", "fsync"} \subseteq FaultKinds BY DEF FaultKinds
<1> QED BY <1>1, <1>2, <1>3, Zenon DEF Write, WriteFails

-----------------------------------------------------------------------------
\* A submission names a transfer that is a transaction ID.
LEMMA SubmissionTxn ==
  ASSUME NEW x \in Submissions
  PROVE  TxnOf[x] \in Transfers /\ TxnOf[x] \in TxnIDs
BY ConstantsAssumption DEF TxnIDs

\* The fields of a call have the types the handlers rely on.
LEMMA CallFacts ==
  ASSUME TypeOK, NEW c \in calls
  PROVE  /\ c \in Calls /\ c.sub \in Submissions /\ c.shard \in Shards
         /\ Txn(c) \in Transfers /\ Txn(c) \in TxnIDs
         /\ AccountOf(c) \in Accounts
         /\ Source[Txn(c)] \in Accounts /\ Destination[Txn(c)] \in Accounts
         /\ Amount[Txn(c)] \in Int
         /\ State(c) \in TxnStates
<1>1. c \in Calls /\ c.sub \in Submissions /\ c.shard \in Shards
  BY DEF TypeOK, ShardTypeOK, Calls
<1>2. Txn(c) \in Transfers BY <1>1, ConstantsAssumption DEF Txn
<1>3. Txn(c) \in TxnIDs BY <1>2 DEF TxnIDs
<1>4. State(c) \in TxnStates BY <1>1, <1>3 DEF TypeOK, ShardTypeOK, State
<1> QED BY <1>1, <1>2, <1>3, <1>4, ConstantsAssumption DEF AccountOf

\* Leaving seenTxns alone is writing back the state it holds.
LEMMA SeenSame ==
  ASSUME TypeOK, NEW c \in calls
  PROVE  seen = [seen EXCEPT ![c.shard][Txn(c)] = State(c)]
BY CallFacts, Zenon DEF TypeOK, ShardTypeOK, State

\* Goto and Return, told apart by the label alone.
LEMMA MoveFacts ==
  ASSUME NEW c
  PROVE  /\ \A l \in RunningAt : Goto(c, l) => MovesTo(c, l)
         /\ \A l \in Answers : Return(c, l) => MovesTo(c, l)
         /\ \A l : Forget(c) => MovesTo(c, "error") /\ seen' = [seen EXCEPT ![c.shard][Txn(c)] = "NONE"]
<1>1. \A l \in Answers : l \notin RunningAt BY DEF Answers, RunningAt
<1>2. "error" \in Answers BY DEF Answers
<1> QED BY <1>1, <1>2 DEF Goto, Return, MovesTo, Forget, SetState

\* The handler mutex: no handler that gets the mutex finds its transaction
\* PENDING, and neither does a running COMMIT or ABORT (txnMutex).
LEMMA NotPending ==
  ASSUME TypeInv, NEW c \in calls,
         Acquire(c) \/ (Running(c) /\ c.kind \in {"COMMIT", "ABORT"})
  PROVE  State(c) # "PENDING"
<1> SUFFICES ASSUME State(c) = "PENDING" PROVE FALSE OBVIOUS
<1>1. c.shard \in Shards /\ Txn(c) \in Transfers BY CallFacts DEF TypeInv
<1>2. PICK d \in calls : /\ d.shard = c.shard /\ Txn(d) = Txn(c)
                         /\ d.kind \in {"EXECUTE", "PREPARE"} /\ Running(d)
  BY <1>1 DEF TypeInv, PendingHeld, State
<1>3. CASE Acquire(c) BY <1>2, <1>3 DEF Acquire
<1>4. CASE Running(c) /\ c.kind \in {"COMMIT", "ABORT"}
  <2>1. c = d BY <1>2, <1>4 DEF TypeInv, Mutex
  <2> QED BY <2>1, <1>2, <1>4
<1> QED BY <1>3, <1>4

\* The steps of ExecuteSingleShard that write nothing.
LEMMA ExecuteRows ==
  ASSUME TypeInv, NEW c \in calls,
         ExecuteSeen(c) \/ BeginExecute(c) \/ ApplyTransferStep(c) \/ ReplicationFails(c)
  PROVE  SomeRow(c)
<1> DEFINE Lands(l, v, w, ok) == Takes(c, l, v, w, ok) /\ l \in RunningAt \cup Answers /\ v \in TxnStates
<1>1. /\ seen = [seen EXCEPT ![c.shard][Txn(c)] = State(c)]
      /\ State(c) \in TxnStates
      /\ Acquire(c) => c.pc = "sent" /\ State(c) # "PENDING"
  BY SeenSame, CallFacts, NotPending DEF TypeInv, Acquire
<1>2. NoWrite => Writes(c, "none", TRUE) BY DEF NoWrite, Writes
<1>3. /\ \A l \in RunningAt : Goto(c, l) => MovesTo(c, l)
      /\ \A l \in Answers : Return(c, l) => MovesTo(c, l)
      /\ Forget(c) => MovesTo(c, "error") /\ seen' = [seen EXCEPT ![c.shard][Txn(c)] = "NONE"]
  BY MoveFacts
<1>4. WellFormed(c) /\ c \in Calls BY CallFacts DEF TypeInv
<1> USE DEF Takes, Row, ExecuteRow, RunningAt, Answers, TxnStates
<1>6. CASE ExecuteSeen(c)
  <2>1. Lands(State(c), State(c), "none", TRUE)
    BY <1>6, <1>1, <1>3, <1>2, Zenon DEF ExecuteSeen
  <2> QED BY <2>1, Zenon DEF SomeRow, Entries, Operations, Markers, ExecuteSeen
<1>7. CASE BeginExecute(c)
  <2>1. ValidateDebit(ledger[c.shard], Source[Txn(c)], Amount[Txn(c)]) => Lands("logDebit", "PENDING", "none", TRUE)
    BY <1>7, <1>1, <1>3, <1>2, Zenon DEF BeginExecute, SetState
  <2>2. ~ValidateDebit(ledger[c.shard], Source[Txn(c)], Amount[Txn(c)]) => Lands("logAborted", "ABORTED", "none", TRUE)
    BY <1>7, <1>1, <1>3, <1>2, Zenon DEF BeginExecute, SetState
  <2> QED BY <2>1, <2>2, <1>7, Zenon DEF SomeRow, Entries, Operations, Markers, BeginExecute
<1>8. CASE ApplyTransferStep(c)
  <2>1. Goto(c, "logCommitted") => Lands("logCommitted", State(c), "none", TRUE)
    BY <1>8, <1>1, <1>3, <1>2, <1>4, Zenon DEF ApplyTransferStep, WellFormed, KindsAt
  <2>2. Goto(c, "logAborted") => Lands("logAborted", State(c), "none", TRUE)
    BY <1>8, <1>1, <1>3, <1>2, <1>4, Zenon DEF ApplyTransferStep, WellFormed, KindsAt
  <2> QED BY <2>1, <2>2, <1>8, Zenon DEF SomeRow, Entries, Operations, Markers, ApplyTransferStep
<1>9. CASE ReplicationFails(c)
  <2>1. Lands("error", "NONE", "none", TRUE)
    BY <1>9, <1>1, <1>3, <1>4, Zenon DEF ReplicationFails, WellFormed, KindsAt, Writes
  <2> QED BY <2>1, Zenon DEF SomeRow, Entries, Operations, Markers, ReplicationFails
<1> QED BY <1>6, <1>7, <1>8, <1>9

\* ExecuteSingleShard writes the two operations.
LEMMA ExecuteWriteRows ==
  ASSUME TypeInv, NEW c \in calls,
         LogDebit(c) \/ LogCredit(c)
  PROVE  SomeRow(c)
<1> DEFINE Lands(l, v, w, ok) == Takes(c, l, v, w, ok) /\ l \in RunningAt \cup Answers /\ v \in TxnStates
<1>1. /\ seen = [seen EXCEPT ![c.shard][Txn(c)] = State(c)]
      /\ State(c) \in TxnStates
      /\ Acquire(c) => c.pc = "sent" /\ State(c) # "PENDING"
  BY SeenSame, CallFacts, NotPending DEF TypeInv, Acquire
<1>3. /\ \A l \in RunningAt : Goto(c, l) => MovesTo(c, l)
      /\ \A l \in Answers : Return(c, l) => MovesTo(c, l)
      /\ Forget(c) => MovesTo(c, "error") /\ seen' = [seen EXCEPT ![c.shard][Txn(c)] = "NONE"]
  BY MoveFacts
<1>4. WellFormed(c) /\ c \in Calls BY CallFacts DEF TypeInv
<1>5. /\ \A op \in Operations, a \in {AccountOf(c), Source[Txn(c)], Destination[Txn(c)]} :
             WALEntry(op, Txn(c), a, Amount[Txn(c)]) \in WALEntries
      /\ \A op \in Markers : Marker(op, Txn(c)) \in WALEntries
  BY CallFacts, EntryType DEF TypeInv
<1> USE DEF Takes, Row, ExecuteRow, RunningAt, Answers, TxnStates
<1>6. CASE LogDebit(c)
  <2> DEFINE e == WALEntry("DEBIT", Txn(c), Source[Txn(c)], Amount[Txn(c)])
  <2>e. (Write(c.shard, e) => Writes(c, "DEBIT", TRUE)) /\ (WriteFails(c.shard, e) => Writes(c, "DEBIT", FALSE))
    BY <1>5 DEF Writes, Operations, WALEntry
  <2>1. (Write(c.shard, e) /\ Goto(c, "logCredit") /\ UNCHANGED seen) => Lands("logCredit", State(c), "DEBIT", TRUE)
    BY <1>6, <1>1, <1>3, <2>e, <1>4, Zenon DEF LogDebit, WellFormed, KindsAt
  <2>2. (WriteFails(c.shard, e) /\ Forget(c)) => Lands("error", "NONE", "DEBIT", FALSE)
    BY <1>6, <1>1, <1>3, <2>e, <1>4, Zenon DEF LogDebit, WellFormed, KindsAt
  <2> QED BY <2>1, <2>2, <1>6, Zenon DEF SomeRow, Entries, Operations, Markers, LogDebit
<1>7. CASE LogCredit(c)
  <2> DEFINE e == WALEntry("CREDIT", Txn(c), Destination[Txn(c)], Amount[Txn(c)])
  <2>e. (Write(c.shard, e) => Writes(c, "CREDIT", TRUE)) /\ (WriteFails(c.shard, e) => Writes(c, "CREDIT", FALSE))
    BY <1>5 DEF Writes, Operations, WALEntry
  <2>1. (Write(c.shard, e) /\ Goto(c, "applyTransfer") /\ UNCHANGED seen) => Lands("applyTransfer", State(c), "CREDIT", TRUE)
    BY <1>7, <1>1, <1>3, <2>e, <1>4, Zenon DEF LogCredit, WellFormed, KindsAt
  <2>2. (WriteFails(c.shard, e) /\ Forget(c)) => Lands("error", "NONE", "CREDIT", FALSE)
    BY <1>7, <1>1, <1>3, <2>e, <1>4, Zenon DEF LogCredit, WellFormed, KindsAt
  <2> QED BY <2>1, <2>2, <1>7, Zenon DEF SomeRow, Entries, Operations, Markers, LogCredit
<1> QED BY <1>6, <1>7

\* The handlers write their verdicts.
LEMMA VerdictRows ==
  ASSUME TypeInv, NEW c \in calls,
         LogCommitted(c) \/ LogAborted(c) \/ MarkAborted(c)
  PROVE  SomeRow(c)
<1> DEFINE Lands(l, v, w, ok) == Takes(c, l, v, w, ok) /\ l \in RunningAt \cup Answers /\ v \in TxnStates
<1>1. /\ seen = [seen EXCEPT ![c.shard][Txn(c)] = State(c)]
      /\ State(c) \in TxnStates
      /\ Acquire(c) => c.pc = "sent" /\ State(c) # "PENDING"
  BY SeenSame, CallFacts, NotPending DEF TypeInv, Acquire
<1>3. /\ \A l \in RunningAt : Goto(c, l) => MovesTo(c, l)
      /\ \A l \in Answers : Return(c, l) => MovesTo(c, l)
      /\ Forget(c) => MovesTo(c, "error") /\ seen' = [seen EXCEPT ![c.shard][Txn(c)] = "NONE"]
  BY MoveFacts
<1>4. WellFormed(c) /\ c \in Calls BY CallFacts DEF TypeInv
<1>5. /\ \A op \in Operations, a \in {AccountOf(c), Source[Txn(c)], Destination[Txn(c)]} :
             WALEntry(op, Txn(c), a, Amount[Txn(c)]) \in WALEntries
      /\ \A op \in Markers : Marker(op, Txn(c)) \in WALEntries
  BY CallFacts, EntryType DEF TypeInv
<1> USE DEF Takes, Row, ExecuteRow, PrepareRow, CommitRow, AbortRow, RunningAt, Answers, TxnStates
<1>6. CASE LogCommitted(c)
  <2> DEFINE e == Marker("COMMITTED", Txn(c))
  <2>e. (Write(c.shard, e) => Writes(c, "COMMITTED", TRUE)) /\ (WriteFails(c.shard, e) => Writes(c, "COMMITTED", FALSE))
    BY <1>5 DEF Writes, Operations, Markers, Marker, WALEntry
  <2>1. (Write(c.shard, e) /\ Return(c, IF c.kind = "EXECUTE" THEN "COMMITTED" ELSE "ok")) => Lands((IF c.kind = "EXECUTE" THEN "COMMITTED" ELSE "ok"), "COMMITTED", "COMMITTED", TRUE)
    BY <1>6, <1>1, <1>3, <2>e, <1>4, Zenon DEF LogCommitted, WellFormed, KindsAt, SetState
  <2>2. (WriteFails(c.shard, e) /\ Return(c, "error")) => Lands("error", "COMMITTED", "COMMITTED", FALSE)
    BY <1>6, <1>1, <1>3, <2>e, <1>4, Zenon DEF LogCommitted, WellFormed, KindsAt, SetState
  <2> QED BY <2>1, <2>2, <1>6, Zenon DEF SomeRow, Entries, Operations, Markers, LogCommitted
<1>7. CASE LogAborted(c)
  <2> DEFINE e == Marker("ABORTED", Txn(c))
  <2>e. (Write(c.shard, e) => Writes(c, "ABORTED", TRUE)) /\ (WriteFails(c.shard, e) => Writes(c, "ABORTED", FALSE))
    BY <1>5 DEF Writes, Operations, Markers, Marker, WALEntry
  <2>1. Write(c.shard, e) => Lands((IF c.kind = "EXECUTE" THEN "ABORTED" ELSE "error"), "ABORTED", "ABORTED", TRUE)
    BY <1>7, <1>1, <1>3, <2>e, <1>4, Zenon DEF LogAborted, WellFormed, KindsAt, SetState
  <2>2. WriteFails(c.shard, e) => Lands((IF c.kind = "EXECUTE" THEN "ABORTED" ELSE "error"), "ABORTED", "ABORTED", FALSE)
    BY <1>7, <1>1, <1>3, <2>e, <1>4, Zenon DEF LogAborted, WellFormed, KindsAt, SetState
  <2> QED BY <2>1, <2>2, <1>7, Zenon DEF SomeRow, Entries, Operations, Markers, LogAborted
<1>8. CASE MarkAborted(c)
  <2> DEFINE e == Marker("ABORTED", Txn(c))
  <2>e. (Write(c.shard, e) => Writes(c, "ABORTED", TRUE)) /\ (WriteFails(c.shard, e) => Writes(c, "ABORTED", FALSE))
    BY <1>5 DEF Writes, Operations, Markers, Marker, WALEntry
  <2>1. (Write(c.shard, e) /\ SetState(c, "ABORTED") /\ Return(c, "ok")) => Lands("ok", "ABORTED", "ABORTED", TRUE)
    BY <1>8, <1>1, <1>3, <2>e, <1>4, Zenon DEF MarkAborted, WellFormed, KindsAt, SetState
  <2>2. (WriteFails(c.shard, e) /\ Return(c, "error") /\ UNCHANGED seen) => Lands("error", State(c), "ABORTED", FALSE)
    BY <1>8, <1>1, <1>3, <2>e, <1>4, Zenon DEF MarkAborted, WellFormed, KindsAt, SetState
  <2> QED BY <2>1, <2>2, <1>8, Zenon DEF SomeRow, Entries, Operations, Markers, MarkAborted
<1> QED BY <1>6, <1>7, <1>8

\* The steps of PrepareTransaction, but for a rejection.
LEMMA PrepareRows ==
  ASSUME TypeInv, NEW c \in calls,
         PrepareSeen(c) \/ BeginPrepare(c) \/ Reserve(c) \/ LogPrepared(c)
  PROVE  SomeRow(c)
<1> DEFINE Lands(l, v, w, ok) == Takes(c, l, v, w, ok) /\ l \in RunningAt \cup Answers /\ v \in TxnStates
<1>1. /\ seen = [seen EXCEPT ![c.shard][Txn(c)] = State(c)]
      /\ State(c) \in TxnStates
      /\ Acquire(c) => c.pc = "sent" /\ State(c) # "PENDING"
  BY SeenSame, CallFacts, NotPending, Zenon DEF TypeInv, Acquire
<1>2. NoWrite => Writes(c, "none", TRUE) BY DEF NoWrite, Writes
<1>3. /\ \A l \in RunningAt : Goto(c, l) => MovesTo(c, l)
      /\ \A l \in Answers : Return(c, l) => MovesTo(c, l)
      /\ Forget(c) => MovesTo(c, "error") /\ seen' = [seen EXCEPT ![c.shard][Txn(c)] = "NONE"]
  BY MoveFacts
<1>4. WellFormed(c) /\ c \in Calls BY CallFacts DEF TypeInv
<1>5. /\ \A op \in Operations, a \in {AccountOf(c), Source[Txn(c)], Destination[Txn(c)]} :
             WALEntry(op, Txn(c), a, Amount[Txn(c)]) \in WALEntries
      /\ \A op \in Markers : Marker(op, Txn(c)) \in WALEntries
  BY CallFacts, EntryType DEF TypeInv
<1> USE DEF Takes, Row, PrepareRow, RunningAt, Answers, TxnStates
<1>6. CASE PrepareSeen(c)
  <2>1. Lands((IF State(c) \in {"PREPARED", "COMMITTED"} THEN "ok" ELSE "error"), State(c), "none", TRUE)
    BY <1>6, <1>1, <1>3, <1>2, Zenon DEF PrepareSeen
  <2> QED BY <2>1, Zenon DEF SomeRow, Entries, Operations, Markers, PrepareSeen
<1>7. CASE BeginPrepare(c)
  <2>1. Goto(c, "logAborted") => Lands("logAborted", "PENDING", "none", TRUE)
    BY <1>7, <1>1, <1>3, <1>2, Zenon DEF BeginPrepare, SetState
  <2>2. Goto(c, "reserve") => Lands("reserve", "PENDING", "none", TRUE)
    BY <1>7, <1>1, <1>3, <1>2, Zenon DEF BeginPrepare, SetState
  <2>3. Goto(c, "logPrepared") => Lands("logPrepared", "PENDING", "none", TRUE)
    BY <1>7, <1>1, <1>3, <1>2, Zenon DEF BeginPrepare, SetState
  <2> QED BY <2>1, <2>2, <2>3, <1>7, Zenon DEF SomeRow, Entries, Operations, Markers, BeginPrepare
<1>8. CASE Reserve(c)
  <2>1. Goto(c, "logPrepared") => Lands("logPrepared", State(c), "none", TRUE)
    BY <1>8, <1>1, <1>3, <1>2, <1>4, Zenon DEF Reserve, WellFormed, KindsAt
  <2>2. Goto(c, "logAborted") => Lands("logAborted", State(c), "none", TRUE)
    BY <1>8, <1>1, <1>3, <1>2, <1>4, Zenon DEF Reserve, WellFormed, KindsAt
  <2> QED BY <2>1, <2>2, <1>8, Zenon DEF SomeRow, Entries, Operations, Markers, Reserve
<1>9. CASE LogPrepared(c)
  <2> DEFINE e == WALEntry("PREPARED", Txn(c), AccountOf(c), Amount[Txn(c)])
  <2>e. (Write(c.shard, e) => Writes(c, "PREPARED", TRUE)) /\ (WriteFails(c.shard, e) => Writes(c, "PREPARED", FALSE))
    BY <1>5 DEF Writes, Operations, WALEntry
  <2>1. (Write(c.shard, e) /\ SetState(c, "PREPARED") /\ Return(c, "ok")) => Lands("ok", "PREPARED", "PREPARED", TRUE)
    BY <1>9, <1>1, <1>3, <2>e, <1>4, Zenon DEF LogPrepared, WellFormed, KindsAt, SetState
  <2>2. (WriteFails(c.shard, e) /\ Forget(c)) => Lands("error", "NONE", "PREPARED", FALSE)
    BY <1>9, <1>1, <1>3, <2>e, <1>4, Zenon DEF LogPrepared, WellFormed, KindsAt, SetState
  <2> QED BY <2>1, <2>2, <1>9, Zenon DEF SomeRow, Entries, Operations, Markers, LogPrepared
<1> QED BY <1>6, <1>7, <1>8, <1>9

\* The steps of CommitTransaction up to its verdict.
LEMMA CommitRows ==
  ASSUME TypeInv, NEW c \in calls,
         CommitSeen(c) \/ BeginCommit(c) \/ ApplyCreditStep(c)
  PROVE  SomeRow(c)
<1> DEFINE Lands(l, v, w, ok) == Takes(c, l, v, w, ok) /\ l \in RunningAt \cup Answers /\ v \in TxnStates
<1>1. /\ seen = [seen EXCEPT ![c.shard][Txn(c)] = State(c)]
      /\ State(c) \in TxnStates
      /\ Acquire(c) => c.pc = "sent" /\ State(c) # "PENDING"
  BY SeenSame, CallFacts, NotPending DEF TypeInv, Acquire
<1>2. NoWrite => Writes(c, "none", TRUE) BY DEF NoWrite, Writes
<1>3. /\ \A l \in RunningAt : Goto(c, l) => MovesTo(c, l)
      /\ \A l \in Answers : Return(c, l) => MovesTo(c, l)
      /\ Forget(c) => MovesTo(c, "error") /\ seen' = [seen EXCEPT ![c.shard][Txn(c)] = "NONE"]
  BY MoveFacts
<1>4. WellFormed(c) /\ c \in Calls BY CallFacts DEF TypeInv
<1>5. /\ \A op \in Operations, a \in {AccountOf(c), Source[Txn(c)], Destination[Txn(c)]} :
             WALEntry(op, Txn(c), a, Amount[Txn(c)]) \in WALEntries
      /\ \A op \in Markers : Marker(op, Txn(c)) \in WALEntries
  BY CallFacts, EntryType DEF TypeInv
<1> USE DEF Takes, Row, CommitRow, RunningAt, Answers, TxnStates
<1>6. CASE CommitSeen(c)
  <2>1. Lands((IF State(c) = "COMMITTED" THEN "ok" ELSE "error"), State(c), "none", TRUE)
    BY <1>6, <1>1, <1>3, <1>2, Zenon DEF CommitSeen
  <2> QED BY <2>1, Zenon DEF SomeRow, Entries, Operations, Markers, CommitSeen
<1>7. CASE BeginCommit(c)
  <2> DEFINE e == WALEntry(c.op, Txn(c), AccountOf(c), Amount[Txn(c)])
  <2>e. (Write(c.shard, e) => Writes(c, c.op, TRUE)) /\ (WriteFails(c.shard, e) => Writes(c, c.op, FALSE))
    BY <1>7, <1>5, <1>4 DEF Writes, Operations, WALEntry, WellFormed, Calls, BeginCommit
  <2>1. (Write(c.shard, e) /\ Goto(c, IF c.op = "CREDIT" THEN "applyCredit" ELSE "logCommitted")) => Lands((IF c.op = "CREDIT" THEN "applyCredit" ELSE "logCommitted"), State(c), c.op, TRUE)
    BY <1>7, <1>1, <1>3, <2>e, <1>4, Zenon DEF BeginCommit, WellFormed, Calls
  <2>2. (WriteFails(c.shard, e) /\ Return(c, "error")) => Lands("error", State(c), c.op, FALSE)
    BY <1>7, <1>1, <1>3, <2>e, <1>4, Zenon DEF BeginCommit, WellFormed, Calls
  <2>o. c.op \in Entries BY <1>7, <1>4 DEF BeginCommit, WellFormed, Calls, Entries, Operations
  <2> QED BY <2>o, <2>1, <2>2, <1>7, Zenon DEF SomeRow, Entries, Operations, Markers, BeginCommit
<1>8. CASE ApplyCreditStep(c)
  <2>1. Goto(c, "logCommitted") => Lands("logCommitted", State(c), "none", TRUE)
    BY <1>8, <1>1, <1>3, <1>2, <1>4, Zenon DEF ApplyCreditStep, WellFormed, KindsAt
  <2>2. Return(c, "error") => Lands("error", State(c), "none", TRUE)
    BY <1>8, <1>1, <1>3, <1>2, <1>4, Zenon DEF ApplyCreditStep, WellFormed, KindsAt
  <2> QED BY <2>1, <2>2, <1>8, Zenon DEF SomeRow, Entries, Operations, Markers, ApplyCreditStep
<1> QED BY <1>6, <1>7, <1>8

\* The steps of AbortTransaction up to its verdict, and requests that never arrive.
LEMMA AbortRows ==
  ASSUME TypeInv, NEW c \in calls,
         AbortSeen(c) \/ BeginAbort(c) \/ Refused(c) \/ Lost(c)
  PROVE  SomeRow(c)
<1> DEFINE Lands(l, v, w, ok) == Takes(c, l, v, w, ok) /\ l \in RunningAt \cup Answers /\ v \in TxnStates
<1>1. /\ seen = [seen EXCEPT ![c.shard][Txn(c)] = State(c)]
      /\ State(c) \in TxnStates
      /\ Acquire(c) => c.pc = "sent" /\ State(c) # "PENDING"
  BY SeenSame, CallFacts, NotPending, Zenon DEF TypeInv, Acquire
<1>2. NoWrite => Writes(c, "none", TRUE) BY DEF NoWrite, Writes
<1>3. /\ \A l \in RunningAt : Goto(c, l) => MovesTo(c, l)
      /\ \A l \in Answers : Return(c, l) => MovesTo(c, l)
      /\ Forget(c) => MovesTo(c, "error") /\ seen' = [seen EXCEPT ![c.shard][Txn(c)] = "NONE"]
  BY MoveFacts
<1>4. WellFormed(c) /\ c \in Calls BY CallFacts DEF TypeInv
<1> USE DEF Takes, Row, AbortRow, NetworkRow, RunningAt, Answers, TxnStates
<1>6. CASE AbortSeen(c)
  <2>1. Lands("ok", State(c), "none", TRUE)
    BY <1>6, <1>1, <1>3, <1>2, Zenon DEF AbortSeen
  <2> QED BY <2>1, Zenon DEF SomeRow, Entries, Operations, Markers, AbortSeen
<1>7. CASE BeginAbort(c)
  <2>1. Lands("markAborted", State(c), "none", TRUE)
    BY <1>7, <1>1, <1>3, <1>2, Zenon DEF BeginAbort
  <2> QED BY <2>1, Zenon DEF SomeRow, Entries, Operations, Markers, BeginAbort
<1>8. CASE Refused(c)
  <2>1. Lands("error", State(c), "none", TRUE)
    BY <1>8, <1>1, <1>3, <1>2, Zenon DEF Refused
  <2> QED BY <2>1, Zenon DEF SomeRow, Entries, Operations, Markers, Refused
<1>9. CASE Lost(c)
  <2>1. Lands("error", State(c), "none", TRUE)
    BY <1>9, <1>1, <1>3 DEF Lost, Writes
  <2> QED BY <2>1, Zenon DEF SomeRow, Entries, Operations, Markers, Lost
<1> QED BY <1>6, <1>7, <1>8, <1>9

\* Every step of a handler, and every request that is refused or lost, is a
\* row of the table.
LEMMA HandlerRow ==
  ASSUME TypeInv, NEW c \in calls, Handle(c) \/ Network(c)
  PROVE  SomeRow(c)
BY ExecuteRows, ExecuteWriteRows, VerdictRows, PrepareRows, CommitRows, AbortRows, Zenon
   DEF Handle, Network

\* What a row leaves in the logs and in the fault budget.
LEMMA WritesEffect ==
  ASSUME TypeOK, NEW c \in calls, NEW w \in Entries, NEW ok \in BOOLEAN, Writes(c, w, ok)
  PROVE  /\ wal' \in [Shards -> Seq(WALEntries)]
         /\ sealed' \in [Shards -> BOOLEAN]
         /\ budget' \in [FaultKinds -> Nat]
         /\ \/ wal' = wal
            \/ \E e \in WALEntries : /\ e.op = w /\ e.txn = Txn(c) /\ w # "none"
                                     /\ wal' = [wal EXCEPT ![c.shard] = Append(@, e)]
         /\ (w # "none" /\ ok) => Logged(wal'[c.shard], w, Txn(c))
<1>1. c.shard \in Shards /\ wal[c.shard] \in Seq(WALEntries)
  BY CallFacts DEF TypeOK, ShardTypeOK
<1>2. CASE w = "none"
  <2>1. Spend("replicate") \/ Spend("loss") => budget' \in [FaultKinds -> Nat]
    BY DEF Spend, TypeOK, ShardTypeOK, FaultKinds
  <2> QED BY <1>2, <2>1 DEF Writes, TypeOK, ShardTypeOK
<1>3. CASE w # "none"
  <2>1. PICK e \in WALEntries : /\ e.op = w /\ e.txn = Txn(c)
                                /\ IF ok THEN Write(c.shard, e) ELSE WriteFails(c.shard, e)
    BY <1>3 DEF Writes
  <2>2. /\ wal' \in [Shards -> Seq(WALEntries)]
        /\ sealed' \in [Shards -> BOOLEAN]
        /\ budget' \in [FaultKinds -> Nat]
        /\ wal' = wal \/ wal' = [wal EXCEPT ![c.shard] = Append(@, e)]
    BY <1>1, <2>1, WriteEffect
  <2>3. ok => wal'[c.shard] = Append(wal[c.shard], e)
    BY <1>1, <2>1 DEF Write, TypeOK, ShardTypeOK
  <2>4. Logged(Append(wal[c.shard], e), w, Txn(c)) BY <1>1, <2>1, LoggedAppend
  <2> QED BY <1>3, <2>1, <2>2, <2>3, <2>4, Zenon
<1> QED BY <1>2, <1>3

-----------------------------------------------------------------------------
(***************************************************************************)
(* What a handler's step does to the ledger of its shard: nothing, or one  *)
(* operation of ledger.go whose checks it has passed.                      *)
(***************************************************************************)
LedgerMove(c) ==
  LET l == ledger[c.shard]
      n == Amount[Txn(c)] IN
  \/ UNCHANGED ledger
  \/ SetLedger(c, l)
  \/ \E a \in Accounts : ValidateDebit(l, a, n) /\ SetLedger(c, ApplyDebit(l, a, n))
  \/ \E a \in Accounts : CanApplyCredit(l, a, n) /\ SetLedger(c, ApplyCredit(l, a, n))
  \/ \E a, b \in Accounts : CanApplyTransfer(l, a, b, n) /\ SetLedger(c, ApplyTransfer(l, a, b, n))

\* The handlers change a ledger only through checked debits, credits and
\* transfers; up and the account creation are not theirs.
LEMMA LedgerSteps ==
  ASSUME TypeOK, NEW c \in calls, Handle(c) \/ Network(c)
  PROVE  LedgerMove(c) /\ UNCHANGED <<up, creating>>
<1>1. AccountOf(c) \in Accounts /\ Source[Txn(c)] \in Accounts /\ Destination[Txn(c)] \in Accounts
  BY CallFacts
<1>2. \/ UNCHANGED ledger
      \/ Reserve(c) \/ LogPrepared(c) \/ ApplyCreditStep(c) \/ BeginAbort(c) \/ ApplyTransferStep(c)
  BY Zenon DEF Handle, Network, ExecuteSeen, BeginExecute, LogDebit, LogCredit, ReplicationFails,
     PrepareSeen, BeginPrepare, CommitSeen, BeginCommit, LogCommitted, AbortSeen, MarkAborted,
     LogAborted, Refused, Lost
<1>3. UNCHANGED <<up, creating>>
  BY Zenon DEF Handle, Network, ExecuteSeen, BeginExecute, LogDebit, LogCredit, ReplicationFails,
     PrepareSeen, BeginPrepare, CommitSeen, BeginCommit, LogCommitted, AbortSeen, MarkAborted,
     LogAborted, Refused, Lost, Reserve, LogPrepared, ApplyCreditStep, BeginAbort,
     ApplyTransferStep, frame
<1>4. ASSUME UNCHANGED ledger PROVE LedgerMove(c) BY <1>4 DEF LedgerMove
<1>5. ASSUME Reserve(c) PROVE LedgerMove(c) BY <1>1, <1>5, Zenon DEF LedgerMove, Reserve
<1>6. ASSUME LogPrepared(c) PROVE LedgerMove(c) BY <1>1, <1>6, Zenon DEF LedgerMove, LogPrepared, RollbackDebit
<1>7. ASSUME ApplyCreditStep(c) PROVE LedgerMove(c) BY <1>1, <1>7, Zenon DEF LedgerMove, ApplyCreditStep
<1>8. ASSUME BeginAbort(c) PROVE LedgerMove(c) BY <1>1, <1>8, Zenon DEF LedgerMove, BeginAbort, RollbackDebit
<1>9. ASSUME ApplyTransferStep(c) PROVE LedgerMove(c) BY <1>1, <1>9, Zenon DEF LedgerMove, ApplyTransferStep
<1> QED BY <1>2, <1>3, <1>4, <1>5, <1>6, <1>7, <1>8, <1>9

\* Handlers open and close no account.
LEMMA LedgerMoveDomain ==
  ASSUME TypeOK, NEW c \in calls, LedgerMove(c)
  PROVE  DOMAIN ledger' = Shards /\ \A s \in Shards : DOMAIN ledger'[s] = DOMAIN ledger[s]
<1>1. /\ c.shard \in Shards /\ DOMAIN ledger = Shards
  BY CallFacts DEF TypeOK, ShardTypeOK
<1>2. \A l, a, b, n : /\ DOMAIN ApplyDebit(l, a, n) = DOMAIN l
                      /\ DOMAIN ApplyCredit(l, a, n) = DOMAIN l
                      /\ DOMAIN ApplyTransfer(l, a, b, n) = DOMAIN l
  BY DEF ApplyDebit, ApplyCredit, ApplyTransfer
<1>3. \A l : (SetLedger(c, l) /\ DOMAIN l = DOMAIN ledger[c.shard]) =>
         DOMAIN ledger' = Shards /\ \A s \in Shards : DOMAIN ledger'[s] = DOMAIN ledger[s]
  BY <1>1 DEF SetLedger
<1>4. CASE UNCHANGED ledger BY <1>1, <1>4
<1>5. UNCHANGED ledger \/ \E l : SetLedger(c, l) /\ DOMAIN l = DOMAIN ledger[c.shard]
  BY <1>2 DEF LedgerMove
<1> QED BY <1>3, <1>4, <1>5

-----------------------------------------------------------------------------
(***************************************************************************)
(* What the proofs of the invariants use of a row.                         *)
(***************************************************************************)
LogEffect(c) ==
  \/ wal' = wal
  \/ \E e \in WALEntries :
       /\ e.txn = Txn(c)
       /\ wal' = [wal EXCEPT ![c.shard] = Append(@, e)]
       /\ e.op = "COMMITTED" => c.pc = "logCommitted"
       /\ e.op = "ABORTED" => c.pc \in {"logAborted", "markAborted"}

HandlerEffect(c, l, v) ==
  /\ MovesTo(c, l)
  /\ seen' = [seen EXCEPT ![c.shard][Txn(c)] = v]
  /\ LogEffect(c)
  /\ c.pc \in {"sent"} \cup RunningAt
  /\ c.kind \in KindsAt(l)
  /\ l \in RunningAt => Running(c) \/ Acquire(c)
  /\ v = "PENDING" => \/ l \in RunningAt /\ c.kind \in {"EXECUTE", "PREPARE"}
                      \/ State(c) = "PENDING" /\ ~Running(c)
  /\ v = "COMMITTED" => State(c) = "COMMITTED" \/ c.pc = "logCommitted"
  /\ v = "PREPARED" => State(c) = "PREPARED" \/ Logged(wal'[c.shard], "PREPARED", Txn(c))
  /\ (c.kind = "PREPARE" /\ l = "ok") =>
       State(c) \in {"PREPARED", "COMMITTED"} \/ Logged(wal'[c.shard], "PREPARED", Txn(c))
  /\ c.pc \in {"logCommitted", "logAborted", "markAborted"} => l \notin RunningAt
  /\ (c.kind = "PREPARE" /\ c.pc = "logAborted") => l = "error"

\* Every step of a handler, and every request that is refused or lost, has
\* the effect HandlerEffect describes and leaves the rest within its types.
LEMMA HandlerStep ==
  ASSUME TypeInv, NEW c \in calls, Handle(c) \/ Network(c)
  PROVE  /\ \E l \in RunningAt \cup Answers, v \in TxnStates : HandlerEffect(c, l, v)
         /\ HandlerFrame
<1>1. PICK l \in RunningAt \cup Answers, v \in TxnStates, w \in Entries, ok \in BOOLEAN :
             Takes(c, l, v, w, ok)
  BY HandlerRow, Zenon DEF SomeRow
<1>2. /\ wal' \in [Shards -> Seq(WALEntries)]
      /\ sealed' \in [Shards -> BOOLEAN]
      /\ budget' \in [FaultKinds -> Nat]
      /\ \/ wal' = wal
         \/ \E e \in WALEntries : /\ e.op = w /\ e.txn = Txn(c) /\ w # "none"
                                  /\ wal' = [wal EXCEPT ![c.shard] = Append(@, e)]
      /\ (w # "none" /\ ok) => Logged(wal'[c.shard], w, Txn(c))
  BY <1>1, WritesEffect DEF Takes, TypeInv
<1>3. HandlerFrame
  BY <1>2, LedgerSteps, LedgerMoveDomain, Zenon DEF HandlerFrame, TypeInv
<1>4. /\ c.kind \in KindsAt(c.pc) /\ c.kind \in {"EXECUTE", "PREPARE", "COMMIT", "ABORT"}
      /\ Acquire(c) => State(c) # "PENDING"
      /\ (Running(c) /\ c.kind \in {"COMMIT", "ABORT"}) => State(c) # "PENDING"
  BY CallFacts, NotPending DEF TypeInv, WellFormed, Calls
<1>5. Row(c, l, v, w, ok) BY <1>1 DEF Takes
<1> USE DEF Row, ExecuteRow, PrepareRow, CommitRow, AbortRow, NetworkRow
<1>6. /\ w = "COMMITTED" => c.pc = "logCommitted"
      /\ w = "ABORTED" => c.pc \in {"logAborted", "markAborted"}
      /\ c.pc \in {"sent"} \cup RunningAt
      /\ c.pc \in {"logCommitted", "logAborted", "markAborted"} => l \notin RunningAt
      /\ (c.kind = "PREPARE" /\ c.pc = "logAborted") => l = "error"
  BY <1>5, <1>4 DEF RunningAt, TxnStates
<1>7. c.kind \in KindsAt(l) /\ (l \in RunningAt => Running(c) \/ Acquire(c))
  BY <1>5, <1>4 DEF RunningAt, KindsAt, Running, TxnStates
<1>8. /\ v = "PENDING" => \/ l \in RunningAt /\ c.kind \in {"EXECUTE", "PREPARE"}
                          \/ State(c) = "PENDING" /\ ~Running(c)
      /\ v = "COMMITTED" => State(c) = "COMMITTED" \/ c.pc = "logCommitted"
      /\ v = "PREPARED" => State(c) = "PREPARED" \/ (w = "PREPARED" /\ ok)
      /\ (c.kind = "PREPARE" /\ l = "ok") =>
           State(c) \in {"PREPARED", "COMMITTED"} \/ (w = "PREPARED" /\ ok)
  BY <1>5, <1>4 DEF RunningAt, Running, TxnStates, KindsAt
<1> HIDE DEF Row
<1>9. LogEffect(c) BY <1>2, <1>6 DEF LogEffect
<1>10. HandlerEffect(c, l, v) BY <1>1, <1>2, <1>6, <1>7, <1>8, <1>9 DEF HandlerEffect, Takes
<1> QED BY <1>3, <1>10

-----------------------------------------------------------------------------
(***************************************************************************)
(* The type invariant.                                                     *)
(***************************************************************************)

\* Replay opens only accounts of the shard's log (recovery.Recover).
LEMMA RecoverDomain ==
  ASSUME NEW log \in Seq(WALEntries)
  PROVE  DOMAIN Recover(log) \subseteq Accounts
<1>1. \A i \in DOMAIN log : log[i] \in WALEntries OBVIOUS
<1>2. \A e \in WALEntries : e.op \in {"CREATE_ACCOUNT", "DEBIT", "CREDIT"} => e.account \in Accounts
  BY DEF WALEntries, Operations, Markers
<1>3. DOMAIN Recover(log) = {log[i].account : i \in {j \in Replayed(log) :
                               log[j].op \in {"CREATE_ACCOUNT", "DEBIT", "CREDIT"}}}
  BY Zenon DEF Recover
<1>4. Replayed(log) \subseteq DOMAIN log BY DEF Replayed
<1> QED BY <1>1, <1>2, <1>3, <1>4

\* The states NewShardServer rebuilds: never PENDING, COMMITTED and PREPARED
\* only with the record that says so.
LEMMA RecoveredStates ==
  ASSUME NEW log, NEW t
  PROVE  /\ RecoveredState(log, t) \in TxnStates \ {"PENDING"}
         /\ RecoveredState(log, t) = "COMMITTED" => Logged(log, "COMMITTED", t)
         /\ RecoveredState(log, t) = "PREPARED" => Logged(log, "PREPARED", t)
<1>1. /\ FinalState(log, t) \in {"COMMITTED", "ABORTED", "IN_FLIGHT"}
      /\ FinalState(log, t) = "COMMITTED" => Logged(log, "COMMITTED", t)
  BY DEF FinalState
<1>2. CASE FinalState(log, t) # "IN_FLIGHT" BY <1>1, <1>2 DEF RecoveredState, TxnStates
<1>3. CASE FinalState(log, t) = "IN_FLIGHT" /\ Logged(log, "PREPARED", t)
  BY <1>3 DEF RecoveredState, TxnStates
<1>4. CASE FinalState(log, t) = "IN_FLIGHT" /\ ~Logged(log, "PREPARED", t)
  BY <1>4 DEF RecoveredState, TxnStates
<1> QED BY <1>2, <1>3, <1>4

\* The system starts within its types.
LEMMA TypeInvInit == Init => TypeInv
<1> SUFFICES ASSUME Init PROVE TypeInv OBVIOUS
<1> USE DEF Init, ShardInit
<1>1. ShardTypeOK
  <2>1. \A s \in Shards : InitialLog[s] \in Seq(WALEntries) BY InitialLogAssumption, Zenon
  <2>2. \A s \in Shards : DOMAIN ledger[s] \subseteq Accounts BY <2>1, RecoverDomain
  <2>3. seen \in [Shards -> [TxnIDs -> TxnStates]] BY RecoveredStates
  <2>4. creating \in [Shards -> CreateStates] BY DEF NoCreate, CreateStates
  <2> QED BY <2>1, <2>2, <2>3, <2>4, InitialLogAssumption, ConstantsAssumption DEF ShardTypeOK
<1>2. TypeOK
  BY <1>1, CommitAttemptsAssumption DEF TypeOK, Phases, Legs, Sides, Results
<1>3. PendingHeld
  <2>1. \A s \in Shards, t \in Transfers : seen[s][t] # "PENDING"
    BY RecoveredStates DEF TxnIDs
  <2> QED BY <2>1, Zenon DEF PendingHeld
<1>4. CreatingOK BY DEF CreatingOK, NoCreate
<1>5. RoutedInv BY DEF RoutedInv
<1> QED BY <1>2, <1>3, <1>4, <1>5 DEF TypeInv, Mutex

\* A handler step keeps the type invariant.
LEMMA HandlerTypeInv ==
  ASSUME TypeInv, NEW c \in calls, Handle(c) \/ Network(c), UNCHANGED coordVars
  PROVE  TypeInv'
<1>1. PICK l \in RunningAt \cup Answers, v \in TxnStates : HandlerEffect(c, l, v)
  BY HandlerStep
<1>2. HandlerFrame BY HandlerStep
<1>3. /\ c \in Calls /\ c.shard \in Shards /\ Txn(c) \in Transfers /\ Txn(c) \in TxnIDs
  BY CallFacts DEF TypeInv
<1> DEFINE nc == [c EXCEPT !.pc = l]
<1>4. /\ nc \in Calls /\ nc.pc = l /\ nc.sub = c.sub /\ nc.kind = c.kind /\ nc.op = c.op
      /\ nc.shard = c.shard /\ nc.live = c.live /\ nc.try = c.try
  BY <1>3 DEF Calls
<1>5. /\ calls' \subseteq (calls \ {c}) \cup {nc}
      /\ calls \ {c} \subseteq calls'
      /\ l \in RunningAt => nc \in calls'
  BY <1>1 DEF HandlerEffect, MovesTo
<1> HIDE DEF nc
<1>6. TypeOK'
  <2>1. calls' \subseteq Calls BY <1>4, <1>5 DEF TypeInv, TypeOK, ShardTypeOK
  <2>2. seen' \in [Shards -> [TxnIDs -> TxnStates]]
    BY <1>1, <1>3, Zenon DEF HandlerEffect, TypeInv, TypeOK, ShardTypeOK
  <2> QED BY <2>1, <2>2, <1>2 DEF HandlerFrame, TypeInv, TypeOK, ShardTypeOK, coordVars
<1>7. (\A d \in calls : WellFormed(d))'
  <2>1. WellFormed(nc)
    BY <1>1, <1>4 DEF HandlerEffect, WellFormed, TypeInv
  <2> QED BY <2>1, <1>5 DEF TypeInv, WellFormed
<1>8. Mutex'
  <2> SUFFICES ASSUME NEW d \in calls', NEW e \in calls', Running(d), Running(e),
                      d.shard = e.shard, Stripe[Txn(d)] = Stripe[Txn(e)]
               PROVE  d = e
    BY DEF Mutex, Running, Txn
  <2>1. \A b \in calls \ {c} : ~(/\ l \in RunningAt /\ Running(b) /\ b.shard = c.shard
                                 /\ Stripe[Txn(b)] = Stripe[Txn(c)])
    BY <1>1 DEF HandlerEffect, TypeInv, Mutex, Acquire
  <2>2. Running(nc) <=> l \in RunningAt BY <1>4 DEF Running
  <2>3. Txn(nc) = Txn(c) BY <1>4 DEF Txn
  <2> QED BY <1>4, <1>5, <2>1, <2>2, <2>3 DEF TypeInv, Mutex
<1>9. PendingHeld'
  <2> SUFFICES ASSUME NEW s \in Shards, NEW t \in Transfers, seen'[s][t] = "PENDING"
               PROVE  \E d \in calls' : /\ d.shard = s /\ Txn(d) = t
                                        /\ d.kind \in {"EXECUTE", "PREPARE"} /\ Running(d)
    BY DEF PendingHeld
  <2>t. t \in TxnIDs BY DEF TxnIDs
  <2>1. CASE s = c.shard /\ t = Txn(c) /\ l \in RunningAt /\ c.kind \in {"EXECUTE", "PREPARE"}
    <3>1. nc \in calls' /\ Txn(nc) = t /\ Running(nc) BY <2>1, <1>4, <1>5 DEF Txn, Running
    <3> QED BY <3>1, <2>1, <1>4
  <2>2. CASE s = c.shard /\ t = Txn(c) /\ State(c) = "PENDING" /\ ~Running(c)
    <3>1. PICK d \in calls : /\ d.shard = s /\ Txn(d) = t
                             /\ d.kind \in {"EXECUTE", "PREPARE"} /\ Running(d)
      BY <2>2 DEF TypeInv, PendingHeld, State
    <3> QED BY <3>1, <2>2, <1>5
  <2>3. CASE ~(s = c.shard /\ t = Txn(c))
    <3>1. seen[s][t] = "PENDING"
      BY <1>1, <1>3, <2>3, <2>t, Zenon DEF HandlerEffect, TypeInv, TypeOK, ShardTypeOK
    <3>2. PICK d \in calls : /\ d.shard = s /\ Txn(d) = t
                             /\ d.kind \in {"EXECUTE", "PREPARE"} /\ Running(d)
      BY <3>1, Zenon DEF TypeInv, PendingHeld
    <3> QED BY <3>2, <2>3, <1>5
  <2>4. s = c.shard /\ t = Txn(c) => v = "PENDING"
    BY <1>1, <1>3, Zenon DEF HandlerEffect, TypeInv, TypeOK, ShardTypeOK
  <2> QED BY <2>1, <2>2, <2>3, <2>4, <1>1 DEF HandlerEffect
<1>10. CreatingOK' BY <1>2 DEF HandlerFrame, TypeInv, CreatingOK
<1>11. RoutedInv' BY DEF TypeInv, RoutedInv, coordVars
<1> QED BY <1>6, <1>7, <1>8, <1>9, <1>10, <1>11 DEF TypeInv

\* Appending an entry to the log of one shard keeps the logs' type.
LEMMA AppendType ==
  ASSUME NEW logs \in [Shards -> Seq(WALEntries)], NEW s \in Shards, NEW e \in WALEntries
  PROVE  [logs EXCEPT ![s] = Append(@, e)] \in [Shards -> Seq(WALEntries)]
OBVIOUS

\* A fault uses up one of the faults that may still happen.
LEMMA SpendType ==
  ASSUME budget \in [FaultKinds -> Nat], NEW k \in FaultKinds, Spend(k)
  PROVE  budget' \in [FaultKinds -> Nat]
BY DEF Spend

\* The steps of CreateAccountWithWAL only append an entry to the account's
\* shard's log and leave the transfers' states, the nodes and the calls alone.
LEMMA CreateStep ==
  ASSUME TypeInv, Create
  PROVE  /\ CreateEffect
         /\ wal' \in [Shards -> Seq(WALEntries)]
         /\ sealed' \in [Shards -> BOOLEAN]
         /\ budget' \in [FaultKinds -> Nat]
         /\ seen' \in [Shards -> [TxnIDs -> TxnStates]]
         /\ creating' \in [Shards -> CreateStates]
         /\ DOMAIN ledger' = Shards
         /\ \A s \in Shards : DOMAIN ledger'[s] \subseteq Accounts
         /\ CreatingOK'
<1> DEFINE Result ==
         /\ CreateEffect
         /\ wal' \in [Shards -> Seq(WALEntries)]
         /\ sealed' \in [Shards -> BOOLEAN]
         /\ budget' \in [FaultKinds -> Nat]
         /\ seen' \in [Shards -> [TxnIDs -> TxnStates]]
         /\ creating' \in [Shards -> CreateStates]
         /\ DOMAIN ledger' = Shards
         /\ \A s \in Shards : DOMAIN ledger'[s] \subseteq Accounts
         /\ CreatingOK'
<1> USE DEF TypeInv, TypeOK, ShardTypeOK
<1>a. \A a \in Accounts : CreateTxn[a] \in TxnIDs /\ CreateTxn[a] \notin Transfers
  BY ConstantsAssumption, Zenon DEF TxnIDs
<1>b. \A s \in Shards, e \in WALEntries : Write(s, e) \/ WriteFails(s, e) =>
        /\ wal' \in [Shards -> Seq(WALEntries)]
        /\ sealed' \in [Shards -> BOOLEAN]
        /\ budget' \in [FaultKinds -> Nat]
        /\ wal' = wal \/ wal' = [wal EXCEPT ![s] = Append(@, e)]
  BY WriteEffect
<1>c. \A t \in TxnIDs, a \in Accounts, n \in Int :
        WALEntry("CREATE_ACCOUNT", t, a, n) \in WALEntries
  BY EntryType DEF Operations
<1>d. \A t \in TxnIDs, op \in {"COMMITTED", "ABORTED"} : Marker(op, t) \in WALEntries
  BY Zenon DEF Marker, WALEntry, WALEntries, Markers
<1>1. ASSUME NEW a \in Accounts, NEW n \in Openings, BeginCreate(a, n) PROVE Result
  <2> DEFINE e == WALEntry("CREATE_ACCOUNT", CreateTxn[a], a, n)
  <2>1. Home[a] \in Shards /\ n \in Int BY ConstantsAssumption, Zenon
  <2>2. e \in WALEntries /\ e.txn \notin Transfers BY <2>1, <1>a, <1>c DEF WALEntry
  <2>3. wal' = [wal EXCEPT ![Home[a]] = Append(@, e)] BY <1>1 DEF BeginCreate
  <2> HIDE DEF e
  <2>4. wal' \in [Shards -> Seq(WALEntries)]
    <3>1. wal \in [Shards -> Seq(WALEntries)] OBVIOUS
    <3> HIDE DEF TypeInv, Result
    <3> QED BY <2>1, <2>2, <2>3, <3>1, AppendType
  <2>5. budget' \in [FaultKinds -> Nat]
    <3>1. budget \in [FaultKinds -> Nat] /\ "create" \in FaultKinds BY DEF FaultKinds
    <3>2. Spend("create") BY <1>1 DEF BeginCreate
    <3> HIDE DEF TypeInv, Result
    <3> QED BY <3>1, <3>2, SpendType
  <2>6. creating' \in [Shards -> CreateStates] /\ CreatingOK'
    BY <1>1, <2>1, Zenon DEF BeginCreate, CreateStates, CreatingOK
  <2>7. CreateEffect BY <1>1, <2>1, <2>2, <2>3, Zenon DEF BeginCreate, CreateEffect, createFrame
  <2> QED BY <1>1, <2>4, <2>5, <2>6, <2>7, Zenon DEF BeginCreate
<1>2. ASSUME NEW a \in Accounts, NEW n \in Openings, BeginCreateFails(a, n) PROVE Result
  <2> DEFINE e == WALEntry("CREATE_ACCOUNT", CreateTxn[a], a, n)
  <2>1. Home[a] \in Shards /\ n \in Int BY ConstantsAssumption, Zenon
  <2>2. e \in WALEntries /\ e.txn \notin Transfers BY <2>1, <1>a, <1>c DEF WALEntry
  <2>3. WriteFails(Home[a], e) BY <1>2, Zenon DEF BeginCreateFails
  <2> HIDE DEF e
  <2>4. /\ wal' \in [Shards -> Seq(WALEntries)]
        /\ sealed' \in [Shards -> BOOLEAN]
        /\ budget' \in [FaultKinds -> Nat]
        /\ wal' = wal \/ wal' = [wal EXCEPT ![Home[a]] = Append(@, e)]
    BY <2>1, <2>2, <2>3, <1>b, Zenon
  <2>5. CreateEffect BY <1>2, <2>1, <2>2, <2>4, Zenon DEF BeginCreateFails, CreateEffect, createFrame
  <2> QED BY <1>2, <2>4, <2>5, Zenon DEF BeginCreateFails, CreatingOK
<1>3. ASSUME NEW s \in Shards, CreateLedger(s) PROVE Result
  <2>1. creating[s].account \in Accounts BY <1>3, Zenon DEF CreateLedger, CreatingOK
  <2>2. DOMAIN ledger' = Shards /\ \A r \in Shards : DOMAIN ledger'[r] \subseteq Accounts
    BY <1>3, <2>1 DEF CreateLedger, SetBalance
  <2>3. creating' \in [Shards -> CreateStates] /\ CreatingOK'
    <3>1. PICK label \in {"logCommitted", "logAborted"} : creating' = [creating EXCEPT ![s].pc = label]
      BY <1>3 DEF CreateLedger, CreatePC
    <3>2. creating[s] \in CreateStates OBVIOUS
    <3>3. [creating[s] EXCEPT !.pc = label] \in CreateStates BY <3>2, Zenon DEF CreateStates
    <3>4. creating'[s].account = creating[s].account BY <3>1, <3>2 DEF CreateStates
    <3>5. \A r \in Shards : r # s => creating'[r] = creating[r] BY <3>1
    <3>6. creating' \in [Shards -> CreateStates] BY <3>1, <3>3
    <3> QED BY <3>4, <3>5, <3>6, <2>1, Zenon DEF CreatingOK
  <2>4. CreateEffect BY <1>3 DEF CreateLedger, CreateEffect, createFrame, NoWrite
  <2> QED BY <1>3, <2>2, <2>3, <2>4 DEF CreateLedger, NoWrite
<1>4. ASSUME NEW s \in Shards, LogCreated(s) \/ LogCreateAborted(s) PROVE Result
  <2> DEFINE t == CreateTxn[creating[s].account]
  <2>1. t \in TxnIDs /\ t \notin Transfers
    BY <1>4, <1>a, Zenon DEF LogCreated, LogCreateAborted, CreatingOK
  <2>2. PICK op \in {"COMMITTED", "ABORTED"} : Write(s, Marker(op, t)) \/ WriteFails(s, Marker(op, t))
    BY <1>4, Zenon DEF LogCreated, LogCreateAborted
  <2>3. Marker(op, t) \in WALEntries /\ Marker(op, t).txn = t
    BY <2>1, <1>d, Zenon DEF Marker, WALEntry
  <2>4. /\ wal' \in [Shards -> Seq(WALEntries)]
        /\ sealed' \in [Shards -> BOOLEAN]
        /\ budget' \in [FaultKinds -> Nat]
        /\ wal' = wal \/ wal' = [wal EXCEPT ![s] = Append(@, Marker(op, t))]
    BY <2>2, <2>3, <1>b, Zenon
  <2>5. /\ seen' \in [Shards -> [TxnIDs -> TxnStates]]
        /\ \A r \in Shards, u \in Transfers : seen'[r][u] = seen[r][u]
    <3>1. seen' = seen \/ seen' = [seen EXCEPT ![s][t] = "COMMITTED"]
      BY <1>4, Zenon DEF LogCreated, LogCreateAborted
    <3>2. "COMMITTED" \in TxnStates BY DEF TxnStates
    <3>3. Transfers \subseteq TxnIDs BY DEF TxnIDs
    <3>4. seen \in [Shards -> [TxnIDs -> TxnStates]] OBVIOUS
    <3> HIDE DEF t, TypeInv, Result
    <3>5. CASE seen' = seen BY <3>5, <3>4
    <3>6. CASE seen' = [seen EXCEPT ![s][t] = "COMMITTED"]
      <4>1. seen' \in [Shards -> [TxnIDs -> TxnStates]] BY <3>6, <3>2, <3>4, <2>1
      <4>2. ASSUME NEW r \in Shards, NEW u \in Transfers PROVE seen'[r][u] = seen[r][u]
        <5>1. u \in TxnIDs /\ u # t BY <3>3, <2>1
        <5> QED BY <5>1, <3>6, <3>4
      <4> QED BY <4>1, <4>2
    <3> QED BY <3>1, <3>5, <3>6
  <2>6. creating' \in [Shards -> CreateStates] /\ CreatingOK'
    <3>1. creating' = [creating EXCEPT ![s] = NoCreate]
      BY <1>4, Zenon DEF LogCreated, LogCreateAborted, CreateDone
    <3>2. NoCreate \in CreateStates /\ NoCreate.pc = "idle" BY DEF NoCreate, CreateStates
    <3> QED BY <3>1, <3>2 DEF CreatingOK
  <2>7. CreateEffect
    BY <1>4, <2>1, <2>3, <2>4, <2>5, Zenon DEF LogCreated, LogCreateAborted, CreateEffect, createFrame
  <2> QED BY <1>4, <2>4, <2>5, <2>6, <2>7, Zenon DEF LogCreated, LogCreateAborted
<1> QED BY <1>1, <1>2, <1>3, <1>4, Zenon DEF Create

\* An account creation logs nothing about a transfer.
LEMMA CreateLogs ==
  ASSUME TypeInv, CreateEffect, NEW s \in Shards, NEW t \in Transfers, NEW op
  PROVE  Logged(wal'[s], op, t) <=> Logged(wal[s], op, t)
<1>1. CASE wal' = wal BY <1>1
<1>2. CASE wal' # wal
  <2>1. PICK r \in Shards, e \in WALEntries :
          e.txn \notin Transfers /\ wal' = [wal EXCEPT ![r] = Append(@, e)]
    BY <1>2 DEF CreateEffect
  <2>2. wal \in [Shards -> Seq(WALEntries)] BY DEF TypeInv, TypeOK, ShardTypeOK
  <2>3. CASE s = r
    <3>1. wal'[s] = Append(wal[s], e) BY <2>1, <2>2, <2>3
    <3>2. Logged(wal'[s], op, t) <=> Logged(wal[s], op, t) \/ (e.op = op /\ e.txn = t)
      BY <3>1, <2>2, LoggedAppend
    <3> QED BY <3>2, <2>1
  <2>4. CASE s # r
    <3>1. wal'[s] = wal[s] BY <2>1, <2>2, <2>4
    <3> QED BY <3>1
  <2> QED BY <2>3, <2>4
<1> QED BY <1>1, <1>2

\* The steps of CreateAccountWithWAL preserve the inductive type invariant.
LEMMA CreateTypeInv ==
  ASSUME TypeInv, Create, UNCHANGED coordVars
  PROVE  TypeInv'
<1>1. /\ CreateEffect
      /\ wal' \in [Shards -> Seq(WALEntries)]
      /\ sealed' \in [Shards -> BOOLEAN]
      /\ budget' \in [FaultKinds -> Nat]
      /\ seen' \in [Shards -> [TxnIDs -> TxnStates]]
      /\ creating' \in [Shards -> CreateStates]
      /\ DOMAIN ledger' = Shards
      /\ \A s \in Shards : DOMAIN ledger'[s] \subseteq Accounts
      /\ CreatingOK'
  BY CreateStep
<1>2. TypeOK' BY <1>1, Zenon DEF TypeInv, TypeOK, ShardTypeOK, CreateEffect, coordVars
<1>3. (\A c \in calls : WellFormed(c))' BY <1>1, Zenon DEF TypeInv, CreateEffect, WellFormed
<1>4. Mutex' BY <1>1 DEF TypeInv, CreateEffect, Mutex
<1>5. PendingHeld'
  <2> SUFFICES ASSUME NEW s \in Shards, NEW t \in Transfers, seen'[s][t] = "PENDING"
               PROVE  \E d \in calls' : /\ d.shard = s /\ Txn(d) = t
                                        /\ d.kind \in {"EXECUTE", "PREPARE"} /\ Running(d)
    BY DEF PendingHeld, Running, Txn
  <2>1. seen[s][t] = "PENDING" /\ calls' = calls BY <1>1 DEF CreateEffect
  <2> QED BY <2>1 DEF TypeInv, PendingHeld
<1>6. RoutedInv' BY DEF TypeInv, RoutedInv, coordVars
<1> QED BY <1>1, <1>2, <1>3, <1>4, <1>5, <1>6 DEF TypeInv

\* A crash keeps the type invariant: the handlers that held mutexes or left
\* transactions PENDING on the dead shard are gone with its memory.
LEMMA CrashTypeInv ==
  ASSUME TypeInv, NEW s \in Shards, Crash(s), UNCHANGED coordVars
  PROVE  TypeInv'
<1> DEFINE victims == {c \in calls : c.shard = s /\ Running(c)}
           ended == {[c EXCEPT !.pc = "error"] : c \in {d \in victims : d.live}}
<1>1. calls' = (calls \ victims) \cup ended BY DEF Crash
<1>2. \A e \in ended : \E c \in calls :
        /\ e = [c EXCEPT !.pc = "error"] /\ e.pc = "error" /\ e \in Calls
        /\ e.sub = c.sub /\ e.kind = c.kind /\ e.op = c.op /\ e.shard = c.shard
  <2> TAKE e \in ended
  <2>1. PICK c \in calls : e = [c EXCEPT !.pc = "error"] OBVIOUS
  <2>2. c \in Calls BY DEF TypeInv, TypeOK, ShardTypeOK
  <2>3. /\ e.pc = "error" /\ e \in Calls
        /\ e.sub = c.sub /\ e.kind = c.kind /\ e.op = c.op /\ e.shard = c.shard
    BY <2>1, <2>2 DEF Calls, Answers
  <2> QED BY <2>1, <2>3
<1>3. \A e \in ended : ~Running(e) BY <1>2 DEF Running, RunningAt
<1>4. \A c \in calls : c \in victims <=> c.shard = s /\ Running(c) OBVIOUS
<1> HIDE DEF victims, ended
<1>5. TypeOK'
  <2>1. calls' \subseteq Calls BY <1>1, <1>2 DEF TypeInv, TypeOK, ShardTypeOK
  <2>2. seen' \in [Shards -> [TxnIDs -> TxnStates]]
    BY DEF Crash, TypeInv, TypeOK, ShardTypeOK, TxnStates
  <2>3. budget' \in [FaultKinds -> Nat]
    BY DEF Crash, Spend, FaultKinds, TypeInv, TypeOK, ShardTypeOK
  <2>4. creating' \in [Shards -> CreateStates]
    BY DEF Crash, NoCreate, CreateStates, TypeInv, TypeOK, ShardTypeOK
  <2>5. DOMAIN ledger' = Shards /\ \A r \in Shards : DOMAIN ledger'[r] \subseteq Accounts
    BY DEF Crash, NewLedger, TypeInv, TypeOK, ShardTypeOK
  <2> QED BY <2>1, <2>2, <2>3, <2>4, <2>5 DEF Crash, TypeInv, TypeOK, ShardTypeOK, coordVars
<1>6. (\A c \in calls : WellFormed(c))'
  <2>1. \A e \in ended : WellFormed(e)
    BY <1>2 DEF TypeInv, WellFormed, KindsAt, TypeOK, ShardTypeOK, Calls
  <2> QED BY <2>1, <1>1 DEF TypeInv, WellFormed
<1>7. Mutex' BY <1>1, <1>3 DEF TypeInv, Mutex, Running, Txn
<1>8. PendingHeld'
  <2> SUFFICES ASSUME NEW r \in Shards, NEW t \in Transfers, seen'[r][t] = "PENDING"
               PROVE  \E d \in calls' : /\ d.shard = r /\ Txn(d) = t
                                        /\ d.kind \in {"EXECUTE", "PREPARE"} /\ Running(d)
    BY DEF PendingHeld, Running, Txn
  <2>1. r # s /\ seen[r][t] = "PENDING"
    BY DEF Crash, TypeInv, TypeOK, ShardTypeOK, TxnIDs
  <2>2. PICK d \in calls : /\ d.shard = r /\ Txn(d) = t
                           /\ d.kind \in {"EXECUTE", "PREPARE"} /\ Running(d)
    BY <2>1 DEF TypeInv, PendingHeld
  <2> QED BY <2>1, <2>2, <1>1, <1>4
<1>9. CreatingOK'
  <2>1. NoCreate.pc = "idle" BY DEF NoCreate
  <2> QED BY <2>1 DEF Crash, TypeInv, TypeOK, ShardTypeOK, CreatingOK
<1>10. RoutedInv' BY DEF TypeInv, RoutedInv, coordVars
<1> QED BY <1>5, <1>6, <1>7, <1>8, <1>9, <1>10 DEF TypeInv

\* A restart keeps the type invariant: recovery leaves nothing PENDING.
LEMMA RestartTypeInv ==
  ASSUME TypeInv, NEW s \in Shards, Restart(s), UNCHANGED coordVars
  PROVE  TypeInv'
<1>1. wal[s] \in Seq(WALEntries) BY DEF TypeInv, TypeOK, ShardTypeOK
<1>2. DOMAIN Recover(wal[s]) \subseteq Accounts BY <1>1, RecoverDomain
<1>3. \A t \in TxnIDs : RecoveredState(wal[s], t) \in TxnStates \ {"PENDING"}
  BY RecoveredStates
<1>4. TypeOK'
  <2>1. seen' \in [Shards -> [TxnIDs -> TxnStates]]
    BY <1>3 DEF Restart, TypeInv, TypeOK, ShardTypeOK
  <2>2. DOMAIN ledger' = Shards /\ \A r \in Shards : DOMAIN ledger'[r] \subseteq Accounts
    BY <1>2 DEF Restart, TypeInv, TypeOK, ShardTypeOK
  <2> QED BY <2>1, <2>2, Zenon DEF Restart, TypeInv, TypeOK, ShardTypeOK, coordVars
<1>5. PendingHeld'
  <2>1. \A r \in Shards, t \in Transfers : seen'[r][t] = "PENDING" => seen[r][t] = "PENDING"
    BY <1>3, Zenon DEF Restart, TypeInv, TypeOK, ShardTypeOK, TxnIDs
  <2>2. calls' = calls BY DEF Restart
  <2>3. PendingHeld BY DEF TypeInv
  <2> QED BY <2>1, <2>2, <2>3 DEF PendingHeld, Running, Txn
<1>6. RoutedInv' BY DEF TypeInv, RoutedInv, coordVars
<1> QED BY <1>4, <1>5, <1>6, Zenon DEF Restart, TypeInv, WellFormed, Mutex, CreatingOK

-----------------------------------------------------------------------------
\* A call of calls' is an old one, an abandoned old one, or a new request.
LEMMA CallsOrigin ==
  ASSUME TypeInv, NEW D, NEW G, NEW R, CallsEffect(D, G, R), NEW d \in calls'
  PROVE  \/ d \in calls /\ d \notin D \cup G
         \/ \E c \in G : /\ d = [c EXCEPT !.live = FALSE] /\ c \in calls /\ c \in Calls
                         /\ d \in Calls /\ d.live = FALSE
                         /\ d.sub = c.sub /\ d.kind = c.kind /\ d.op = c.op
                         /\ d.shard = c.shard /\ d.pc = c.pc
         \/ d \in R
<1> SUFFICES ASSUME d \in {[c EXCEPT !.live = FALSE] : c \in G}
             PROVE  \E c \in G : /\ d = [c EXCEPT !.live = FALSE] /\ c \in calls /\ c \in Calls
                         /\ d \in Calls /\ d.live = FALSE
                         /\ d.sub = c.sub /\ d.kind = c.kind /\ d.op = c.op
                         /\ d.shard = c.shard /\ d.pc = c.pc
  BY Zenon DEF CallsEffect
<1>1. PICK c \in G : d = [c EXCEPT !.live = FALSE] OBVIOUS
<1>2. c \in calls /\ c \in Calls BY DEF CallsEffect, TypeInv, TypeOK, ShardTypeOK
<1>3. /\ d \in Calls /\ d.live = FALSE
      /\ d.sub = c.sub /\ d.kind = c.kind /\ d.op = c.op
      /\ d.shard = c.shard /\ d.pc = c.pc
  BY <1>1, <1>2, Zenon DEF Calls
<1> QED BY <1>1, <1>2, <1>3

\* A coordinator step keeps the type invariant: it never touches a running
\* handler except to stop listening to it.
LEMMA CoordTypeInv ==
  ASSUME TypeInv, NEW D, NEW G, NEW R, CallsEffect(D, G, R), CoordTypes, localFrame,
         budget' \in [FaultKinds -> Nat]
  PROVE  TypeInv'
<1>1. \A d \in calls' :
         \/ d \in calls /\ d \notin D \cup G
         \/ \E c \in G : /\ d = [c EXCEPT !.live = FALSE] /\ c \in calls /\ c \in Calls
                         /\ d \in Calls /\ d.live = FALSE
                         /\ d.sub = c.sub /\ d.kind = c.kind /\ d.op = c.op
                         /\ d.shard = c.shard /\ d.pc = c.pc
         \/ d \in R
  BY CallsOrigin, Zenon
<1>2. \A r \in R : r \in Calls /\ WellFormed(r) /\ ~Running(r)
  BY DEF CallsEffect, Running, RunningAt
<1>3. TypeOK'
  <2>1. calls' \subseteq Calls BY <1>1, <1>2 DEF TypeInv, TypeOK, ShardTypeOK
  <2> QED BY <2>1 DEF CoordTypes, localFrame, TypeInv, TypeOK, ShardTypeOK
<1>4. (\A c \in calls : WellFormed(c))' BY <1>1, <1>2 DEF TypeInv, WellFormed
<1>5. Mutex'
  <2> SUFFICES ASSUME NEW d \in calls', NEW e \in calls', Running(d), Running(e),
                      d.shard = e.shard, Stripe[Txn(d)] = Stripe[Txn(e)]
               PROVE  d = e
    BY Zenon DEF Mutex, Running, Txn
  <2>1. PICK c \in calls : /\ Running(c) /\ c.shard = d.shard /\ Txn(c) = Txn(d)
                           /\ \/ d = c /\ c \notin G
                              \/ d = [c EXCEPT !.live = FALSE] /\ c \in G
    BY <1>1, <1>2 DEF Running, Txn
  <2>2. PICK b \in calls : /\ Running(b) /\ b.shard = e.shard /\ Txn(b) = Txn(e)
                           /\ \/ e = b /\ b \notin G
                              \/ e = [b EXCEPT !.live = FALSE] /\ b \in G
    BY <1>1, <1>2 DEF Running, Txn
  <2>3. b = c BY <2>1, <2>2 DEF TypeInv, Mutex
  <2> QED BY <2>1, <2>2, <2>3, Zenon
<1>6. PendingHeld'
  <2> SUFFICES ASSUME NEW s \in Shards, NEW t \in Transfers, seen'[s][t] = "PENDING"
               PROVE  \E d \in calls' : /\ d.shard = s /\ Txn(d) = t
                                        /\ d.kind \in {"EXECUTE", "PREPARE"} /\ Running(d)
    BY DEF PendingHeld, Running, Txn
  <2>1. PICK c \in calls : /\ c.shard = s /\ Txn(c) = t
                           /\ c.kind \in {"EXECUTE", "PREPARE"} /\ Running(c)
    BY DEF localFrame, TypeInv, PendingHeld
  <2>2. c \in Calls BY Zenon DEF TypeInv, TypeOK, ShardTypeOK
  <2>3. c \notin D BY <2>1 DEF CallsEffect, Running, RunningAt, Answers
  <2>4. CASE c \notin G BY <2>1, <2>3, <2>4 DEF CallsEffect
  <2>5. CASE c \in G
    <3> DEFINE d == [c EXCEPT !.live = FALSE]
    <3>1. d \in calls' BY <2>5, Zenon DEF CallsEffect
    <3>2. d.shard = c.shard /\ d.sub = c.sub /\ d.kind = c.kind /\ d.pc = c.pc
      BY <2>2 DEF Calls
    <3> HIDE DEF d
    <3> QED BY <3>1, <3>2, <2>1 DEF Running, Txn
  <2> QED BY <2>4, <2>5
<1>7. CreatingOK' BY DEF localFrame, TypeInv, CreatingOK
<1> QED BY <1>3, <1>4, <1>5, <1>6, <1>7 DEF TypeInv, CoordTypes

\* The requests the coordinator sends are well-formed: each goes to the shard
\* of its account (Route, sendPrepares, commitWithRetry, abortAll).
LEMMA RequestFields ==
  ASSUME NEW x, NEW kind, NEW op, NEW n
  PROVE  /\ Request(x, kind, op, n).pc = "sent"
         /\ Request(x, kind, op, n).sub = x /\ Request(x, kind, op, n).kind = kind
         /\ Request(x, kind, op, n).op = op /\ Request(x, kind, op, n).shard = ShardOf(x, op)
BY DEF Request

\* The request that executeSingleShard sends is a well-formed call.
LEMMA RequestExecute ==
  \A x \in Submissions : ~Cross(x) =>
    /\ Request(x, "EXECUTE", "TRANSFER", 1) \in Calls
    /\ WellFormed(Request(x, "EXECUTE", "TRANSFER", 1))
<1> SUFFICES ASSUME NEW x \in Submissions, ~Cross(x)
             PROVE  /\ Request(x, "EXECUTE", "TRANSFER", 1) \in Calls
                    /\ WellFormed(Request(x, "EXECUTE", "TRANSFER", 1))
  OBVIOUS
<1> DEFINE r == Request(x, "EXECUTE", "TRANSFER", 1)
<1>1. ShardOf(x, "TRANSFER") \in Shards
  BY ConstantsAssumption DEF ShardOf, SourceShard, DestShard
<1>2. r \in Calls BY <1>1 DEF Request, Calls
<1>3. /\ r.pc = "sent" /\ r.sub = x /\ r.kind = "EXECUTE" /\ r.op = "TRANSFER"
      /\ r.shard = ShardOf(x, "TRANSFER")
  BY DEF Request
<1>4. KindsAt("sent") = {"EXECUTE", "PREPARE", "COMMIT", "ABORT"} BY DEF KindsAt
<1> HIDE DEF r
<1>5. WellFormed(r) BY <1>3, <1>4 DEF WellFormed
<1> QED BY <1>2, <1>5 DEF r

\* The requests of the two-phase coordinator (prepare, commit, abort) are
\* well-formed calls.
LEMMA RequestCross ==
  \A x \in Submissions, kind \in {"PREPARE", "COMMIT", "ABORT"}, op \in Sides, n \in Nat : Cross(x) =>
    /\ Request(x, kind, op, n) \in Calls
    /\ WellFormed(Request(x, kind, op, n))
<1> SUFFICES ASSUME NEW x \in Submissions, NEW kind \in {"PREPARE", "COMMIT", "ABORT"},
                    NEW op \in Sides, NEW n \in Nat, Cross(x)
             PROVE  Request(x, kind, op, n) \in Calls /\ WellFormed(Request(x, kind, op, n))
  OBVIOUS
<1> DEFINE r == Request(x, kind, op, n)
<1>1. ShardOf(x, op) \in Shards
  BY ConstantsAssumption DEF ShardOf, SourceShard, DestShard
<1>2. r \in Calls BY <1>1 DEF Request, Calls, Sides
<1>3. r.pc = "sent" /\ r.sub = x /\ r.kind = kind /\ r.op = op /\ r.shard = ShardOf(x, op)
  BY DEF Request
<1>4. KindsAt("sent") = {"EXECUTE", "PREPARE", "COMMIT", "ABORT"} BY DEF KindsAt
<1> HIDE DEF r
<1>5. WellFormed(r) BY <1>3, <1>4 DEF WellFormed, Sides
<1> QED BY <1>2, <1>5 DEF r

\* A step of a submission's coordinator goroutine: it sends well-formed
\* requests of its own and nothing else.
LEMMA CoordinateStep ==
  ASSUME TypeInv, NEW x \in Submissions, Coordinate(x)
  PROVE  /\ CoordTypes /\ localFrame /\ budget' = budget
         /\ \E R : CallsEffect({}, {}, R)
<1> USE DEF TypeInv, TypeOK, ShardTypeOK
<1>a. \A R : /\ \A r \in R : r \in Calls /\ WellFormed(r) /\ r.pc = "sent"
             /\ calls' = calls \cup R
             => CallsEffect({}, {}, R)
  BY DEF CallsEffect
<1>b. Cross(x) => \A op \in Sides, kind \in {"PREPARE", "COMMIT", "ABORT"} :
        /\ Request(x, kind, op, 1) \in Calls
        /\ WellFormed(Request(x, kind, op, 1))
        /\ Request(x, kind, op, 1).pc = "sent"
  <2> SUFFICES ASSUME Cross(x), NEW op \in Sides, NEW kind \in {"PREPARE", "COMMIT", "ABORT"}
               PROVE  /\ Request(x, kind, op, 1) \in Calls
                      /\ WellFormed(Request(x, kind, op, 1))
                      /\ Request(x, kind, op, 1).pc = "sent"
    OBVIOUS
  <2> HIDE DEF TypeInv
  <2>1. 1 \in Nat OBVIOUS
  <2> QED BY <2>1, RequestCross, RequestFields
<1>c. UNCHANGED calls => CallsEffect({}, {}, {}) BY DEF CallsEffect
<1>1. CASE RouteSingle(x)
  <2> DEFINE r == Request(x, "EXECUTE", "TRANSFER", 1)
  <2>1. r \in Calls /\ WellFormed(r) /\ r.pc = "sent"
    <3>1. ~Cross(x) /\ 1 \in Nat BY <1>1 DEF RouteSingle
    <3> HIDE DEF TypeInv
    <3> QED BY <3>1, RequestExecute, RequestFields
  <2>2. calls' = calls \cup {r} BY <1>1 DEF RouteSingle
  <2> HIDE DEF r
  <2>3. CallsEffect({}, {}, {r}) BY <2>1, <2>2, <1>a, Zenon
  <2>4. CoordTypes BY <1>1, Zenon DEF RouteSingle, CoordTypes, RoutedInv, Phases, Cross, SourceShard, DestShard
  <2> QED BY <2>3, <2>4, <1>1 DEF RouteSingle
<1>2. CASE SendPrepares(x)
  <2> DEFINE R == {Request(x, "PREPARE", op, 1) : op \in Sides}
  <2>1. Cross(x) /\ calls' = calls \cup R BY <1>2 DEF SendPrepares
  <2>2. \A r \in R : r \in Calls /\ WellFormed(r) /\ r.pc = "sent" BY <2>1, <1>b, Zenon
  <2> HIDE DEF R
  <2>3. CallsEffect({}, {}, R) BY <2>1, <2>2, <1>a
  <2>4. CoordTypes BY <1>2 DEF SendPrepares, CoordTypes, RoutedInv, Phases, Legs
  <2> QED BY <2>3, <2>4, <1>2 DEF SendPrepares
<1>3. CASE CommitAll(x)
  <2> DEFINE R == {Request(x, "COMMIT", op, 1) : op \in Sides}
  <2>1. Cross(x) /\ calls' = calls \cup R BY <1>3 DEF CommitAll, Voted, RoutedInv
  <2>2. \A r \in R : r \in Calls /\ WellFormed(r) /\ r.pc = "sent" BY <2>1, <1>b, Zenon
  <2> HIDE DEF R
  <2>3. CallsEffect({}, {}, R) BY <2>1, <2>2, <1>a
  <2>4. CoordTypes
    <3>1. phase' \in [Submissions -> Phases] /\ RoutedInv'
      BY <1>3, <2>1 DEF CommitAll, RoutedInv, Phases
    <3>2. leg' \in [Submissions -> [Sides -> Legs]] BY <1>3 DEF CommitAll, Legs
    <3>3. tries' \in [Submissions -> [Sides -> 0 .. CommitAttempts]]
      BY <1>3, CommitAttemptsAssumption DEF CommitAll
    <3> QED BY <1>3, <3>1, <3>2, <3>3, Zenon DEF CommitAll, CoordTypes
  <2> QED BY <2>3, <2>4, <1>3 DEF CommitAll
<1>4. CASE DecideAbort(x)
  <2>1. CoordTypes BY <1>4 DEF DecideAbort, Voted, CoordTypes, RoutedInv, Phases
  <2> QED BY <2>1, <1>4, <1>c DEF DecideAbort
<1>5. ASSUME NEW op \in Sides, SendAbort(x, op)
      PROVE  /\ CoordTypes /\ localFrame /\ budget' = budget
             /\ \E R : CallsEffect({}, {}, R)
  <2> DEFINE r == Request(x, "ABORT", op, 1)
  <2>1. Cross(x) /\ calls' = calls \cup {r} BY <1>5 DEF SendAbort, RoutedInv
  <2>2. r \in Calls /\ WellFormed(r) /\ r.pc = "sent" BY <2>1, <1>b
  <2> HIDE DEF r
  <2>3. CallsEffect({}, {}, {r}) BY <2>1, <2>2, <1>a, Zenon
  <2>4. CoordTypes BY <1>5 DEF SendAbort, CoordTypes, RoutedInv, Legs
  <2> QED BY <2>3, <2>4, <1>5 DEF SendAbort
<1>6. CASE FinishCommit(x) \/ FinishAbort(x)
  <2>1. CoordTypes
    BY <1>6, Zenon DEF FinishCommit, FinishAbort, Finish, CoordTypes, RoutedInv, Phases, Results, Answers
  <2> QED BY <2>1, <1>6, <1>c, Zenon DEF FinishCommit, FinishAbort, Finish
<1> QED BY <1>1, <1>2, <1>3, <1>4, <1>5, <1>6 DEF Coordinate

\* The calls in flight become "rest" and R, new requests.
Sends(rest, R) ==
  /\ calls' = rest \cup R
  /\ \A r \in R : r \in Calls /\ WellFormed(r) /\ r.pc = "sent"

\* The coordinator's reaction to the end of a call: it forgets the call and
\* at most sends one more COMMIT for the same side.
LEMMA EndStep ==
  ASSUME TypeInv, NEW c \in calls, NEW answer \in Answers, NEW rest,
         c.kind = "EXECUTE" => answer # "ok",
         End(c, answer, rest)
  PROVE  /\ CoordTypes
         /\ \E R : Sends(rest, R)
<1> USE DEF TypeInv, TypeOK, ShardTypeOK
<1>a. c \in Calls /\ c.sub \in Submissions BY CallFacts, Zenon
<1>b. c.kind # "EXECUTE" => c.op \in Sides /\ Cross(c.sub)
  BY <1>a DEF WellFormed, Calls, Sides
<1> DEFINE Sent == \E R : Sends(rest, R)
<1>c. ASSUME calls' = rest PROVE Sent
  <2>1. Sends(rest, {}) BY <1>c DEF Sends
  <2> QED BY <2>1
<1>d. ASSUME NEW q, calls' = rest \cup {q}, q \in Calls, WellFormed(q), q.pc = "sent" PROVE Sent
  <2>1. Sends(rest, {q}) BY <1>d DEF Sends
  <2> QED BY <2>1
<1> HIDE DEF Sent
<1> SUFFICES CoordTypes /\ Sent BY DEF Sent
<1>1. CASE EndExecute(c, answer, rest)
  <2>1. CoordTypes BY <1>1, <1>a DEF EndExecute, CoordTypes, RoutedInv, Phases, Results
  <2> QED BY <2>1, <1>1, <1>c DEF EndExecute
<1>2. CASE EndPrepare(c, answer, rest)
  <2>1. CoordTypes BY <1>2, <1>a, <1>b DEF EndPrepare, CoordTypes, RoutedInv, Legs
  <2> QED BY <2>1, <1>2, <1>c DEF EndPrepare
<1>3. CASE EndAbort(c, answer, rest)
  <2>1. CoordTypes BY <1>3, <1>a, <1>b DEF EndAbort, CoordTypes, RoutedInv, Legs
  <2> QED BY <2>1, <1>3, <1>c DEF EndAbort
<1>4. CASE EndCommit(c, answer, rest)
  <2> DEFINE n == tries[c.sub][c.op]
             r == Request(c.sub, "COMMIT", c.op, n + 1)
  <2>1. c.op \in Sides /\ Cross(c.sub) BY <1>4, <1>b DEF EndCommit
  <2>2. n \in 0 .. CommitAttempts BY <1>a, <2>1
  <2>3. n + 1 \in Nat BY <2>2, CommitAttemptsAssumption
  <2> HIDE DEF n
  <2>4. r \in Calls /\ WellFormed(r) /\ r.pc = "sent"
    <3> HIDE DEF TypeInv
    <3>1. "COMMIT" \in {"PREPARE", "COMMIT", "ABORT"} OBVIOUS
    <3> QED BY <1>a, <2>1, <2>3, <3>1, RequestCross, RequestFields
  <2> USE DEF n
  <2>5. calls' = rest \/ calls' = rest \cup {r} BY <1>4, Zenon DEF EndCommit
  <2>6. CoordTypes
    <3>1. phase' = phase /\ decision' = decision /\ result' = result BY <1>4 DEF EndCommit
    <3>2. RoutedInv' BY <3>1 DEF RoutedInv
    <3>3. tries' \in [Submissions -> [Sides -> 0 .. CommitAttempts]]
      <4>1. CASE answer = "error" /\ n < CommitAttempts
        <5>1. n + 1 \in 0 .. CommitAttempts
          <6> HIDE DEF TypeInv, n
          <6> QED BY <2>2, <4>1, CommitAttemptsAssumption
        <5>2. tries' = [tries EXCEPT ![c.sub][c.op] = n + 1] BY <1>4, <4>1, Zenon DEF EndCommit
        <5> HIDE DEF n
        <5> QED BY <5>1, <5>2, <1>a, <2>1
      <4>2. CASE ~(answer = "error" /\ n < CommitAttempts) BY <1>4, <4>2, Zenon DEF EndCommit
      <4> QED BY <4>1, <4>2
    <3>4. leg' \in [Submissions -> [Sides -> Legs]]
      <4>1. leg' = leg \/ \E v \in {"acked", "failed"} : leg' = [leg EXCEPT ![c.sub][c.op] = v]
        BY <1>4, Zenon DEF EndCommit
      <4>2. {"acked", "failed"} \subseteq Legs BY DEF Legs
      <4>3. CASE leg' = leg BY <4>3
      <4>4. ASSUME NEW v \in Legs, leg' = [leg EXCEPT ![c.sub][c.op] = v]
            PROVE  leg' \in [Submissions -> [Sides -> Legs]]
        BY <4>4, <1>a, <2>1
      <4> QED BY <4>1, <4>2, <4>3, <4>4, Zenon
    <3> QED BY <3>1, <3>2, <3>3, <3>4 DEF CoordTypes
  <2> HIDE DEF r
  <2>7. CASE calls' = rest BY <2>7, <2>6, <1>c
  <2>8. CASE calls' = rest \cup {r} BY <2>8, <2>4, <2>6, <1>d
  <2> QED BY <2>5, <2>7, <2>8
<1> QED BY <1>1, <1>2, <1>3, <1>4 DEF End

\* An answer that arrives and a time-out are such steps.
LEMMA EndEffect ==
  ASSUME TypeInv, NEW c \in calls, Receive(c) \/ Timeout(c)
  PROVE  CoordEffect
<1>a. c \in Calls /\ WellFormed(c) BY DEF TypeInv, TypeOK, ShardTypeOK
<1>1. CASE Receive(c)
  <2>1. c.pc \in Answers /\ End(c, c.pc, calls \ {c}) /\ localFrame /\ budget' = budget
    BY <1>1 DEF Receive
  <2>2. c.kind = "EXECUTE" => c.pc # "ok" BY <1>a DEF WellFormed, KindsAt
  <2>3. CoordTypes BY <2>1, <2>2, EndStep
  <2>4. PICK R : Sends(calls \ {c}, R)
    BY <2>1, <2>2, EndStep
  <2>5. CallsEffect({c}, {}, R) BY <2>1, <2>4 DEF CallsEffect, Sends
  <2>6. budget' \in [FaultKinds -> Nat] BY <2>1 DEF TypeInv, TypeOK, ShardTypeOK
  <2> QED BY <2>1, <2>3, <2>5, <2>6 DEF CoordEffect
<1>2. CASE Timeout(c)
  <2> DEFINE kept == IF c.pc \in Answers THEN {} ELSE {[c EXCEPT !.live = FALSE]}
             rest == (calls \ {c}) \cup kept
  <2>1. End(c, "error", rest) /\ localFrame BY <1>2 DEF Timeout
  <2>2. "error" \in Answers BY DEF Answers
  <2>3. budget' \in [FaultKinds -> Nat]
    BY <1>2 DEF Timeout, Spend, FaultKinds, TypeInv, TypeOK, ShardTypeOK
  <2> HIDE DEF rest
  <2>4. CoordTypes BY <2>1, <2>2, EndStep
  <2>5. PICK R : Sends(rest, R)
    BY <2>1, <2>2, EndStep
  <2>6. CASE c.pc \in Answers
    <3>1. CallsEffect({c}, {}, R) BY <2>5, <2>6 DEF CallsEffect, Sends, rest
    <3> QED BY <2>1, <2>3, <2>4, <3>1 DEF CoordEffect
  <2>7. CASE c.pc \notin Answers
    <3>1. CallsEffect({}, {c}, R) BY <2>5, <2>7 DEF CallsEffect, Sends, rest
    <3> QED BY <2>1, <2>3, <2>4, <3>1 DEF CoordEffect
  <2> QED BY <2>6, <2>7
<1> QED BY <1>1, <1>2

\* So is the death of a coordinator.
LEMMA CoordinatorCrashEffect ==
  ASSUME TypeInv, NEW x \in Submissions, CoordinatorCrash(x)
  PROVE  CoordEffect
<1> DEFINE own == {c \in calls : c.sub = x /\ c.live}
           D == {c \in own : c.pc \in Answers}
           G == {c \in own : c.pc \notin Answers}
<1>1. calls' = (calls \ own) \cup {[c EXCEPT !.live = FALSE] : c \in {d \in own : d.pc \notin Answers}}
  BY DEF CoordinatorCrash
<1>2. own = D \cup G /\ D \subseteq calls /\ G \subseteq calls /\ \A c \in D : c.pc \in Answers
  OBVIOUS
<1>3. calls' = (calls \ (D \cup G)) \cup {[c EXCEPT !.live = FALSE] : c \in G}
  BY <1>1, <1>2
<1> HIDE DEF own, D, G
<1>4. CallsEffect(D, G, {}) BY <1>2, <1>3 DEF CallsEffect
<1>5. CoordTypes
  BY DEF CoordinatorCrash, CoordTypes, RoutedInv, Phases, TypeInv, TypeOK
<1>6. budget' \in [FaultKinds -> Nat]
  BY DEF CoordinatorCrash, Spend, FaultKinds, TypeInv, TypeOK, ShardTypeOK
<1>7. localFrame BY DEF CoordinatorCrash
<1> QED BY <1>4, <1>5, <1>6, <1>7 DEF CoordEffect

\* Every step of a coordinator is one.
LEMMA CoordSteps ==
  ASSUME TypeInv,
         \/ \E c \in calls : Receive(c) \/ Timeout(c)
         \/ \E x \in Submissions : Coordinate(x) \/ CoordinatorCrash(x)
  PROVE  CoordEffect
<1>1. ASSUME NEW x \in Submissions, Coordinate(x) PROVE CoordEffect
  <2>1. CoordTypes /\ localFrame /\ budget' = budget BY <1>1, CoordinateStep
  <2>2. PICK R : CallsEffect({}, {}, R) BY <1>1, CoordinateStep
  <2>3. budget' \in [FaultKinds -> Nat] BY <2>1 DEF TypeInv, TypeOK, ShardTypeOK
  <2> QED BY <2>1, <2>2, <2>3 DEF CoordEffect
<1> QED BY <1>1, EndEffect, CoordinatorCrashEffect

\* Every step keeps the type invariant.
LEMMA TypeInvStep == TypeInv /\ [Next]_vars => TypeInv'
<1> SUFFICES ASSUME TypeInv, [Next]_vars PROVE TypeInv' OBVIOUS
<1>1. ASSUME NEW c \in calls, Handle(c) \/ Network(c), UNCHANGED coordVars PROVE TypeInv'
  BY <1>1, HandlerTypeInv
<1>2. CASE Create /\ UNCHANGED coordVars BY <1>2, CreateTypeInv
<1>3. ASSUME NEW s \in Shards, Crash(s) \/ Restart(s), UNCHANGED coordVars PROVE TypeInv'
  BY <1>3, CrashTypeInv, RestartTypeInv
<1>4. CASE \/ \E c \in calls : Receive(c) \/ Timeout(c)
          \/ \E x \in Submissions : Coordinate(x) \/ CoordinatorCrash(x)
  <2>1. CoordEffect BY <1>4, CoordSteps
  <2>2. PICK D, G, R : CallsEffect(D, G, R) BY <2>1 DEF CoordEffect
  <2> QED BY <2>1, <2>2, CoordTypeInv DEF CoordEffect
<1>5. CASE UNCHANGED vars
  <2>1. /\ UNCHANGED <<wal, sealed, ledger, seen, up, creating, calls, budget>>
        /\ UNCHANGED <<phase, decision, leg, tries, result>>
    BY <1>5 DEF vars, shardVars, coordVars
  <2>2. TypeOK' BY <2>1, Zenon DEF TypeInv, TypeOK, ShardTypeOK
  <2>3. (\A c \in calls : WellFormed(c))' BY <2>1 DEF TypeInv, WellFormed
  <2>4. Mutex /\ PendingHeld BY DEF TypeInv
  <2>5. Mutex' BY <2>1, <2>4, Zenon DEF Mutex, Running, Txn
  <2>6. PendingHeld'
    <3> SUFFICES ASSUME NEW s \in Shards, NEW t \in Transfers, seen'[s][t] = "PENDING"
                 PROVE  \E c \in calls' : /\ c.shard = s /\ Txn(c)' = t
                                          /\ c.kind \in {"EXECUTE", "PREPARE"} /\ Running(c)'
      BY Zenon DEF PendingHeld
    <3>1. PICK c \in calls : c.shard = s /\ Txn(c) = t /\ c.kind \in {"EXECUTE", "PREPARE"} /\ Running(c)
      BY <2>1, <2>4, Zenon DEF PendingHeld
    <3>2. c \in calls' /\ Txn(c)' = t /\ Running(c)' BY <2>1, <3>1, Zenon DEF Running, Txn
    <3> QED BY <3>1, <3>2, Zenon
  <2>7. CreatingOK' /\ RoutedInv' BY <2>1 DEF TypeInv, CreatingOK, RoutedInv
  <2> QED BY <2>2, <2>3, <2>5, <2>6, <2>7 DEF TypeInv
<1> QED BY <1>1, <1>2, <1>3, <1>4, <1>5 DEF Next, ShardNext, Idle

\* TypeOK holds in every reachable state, for any shards, accounts,
\* transfers, submissions and faults.  It rests on the mutex of txnMutex: an
\* EXECUTE that found its transaction PENDING would answer with that state.
THEOREM TypeCorrect == Spec => []TypeOK
<1>1. TypeInv => TypeOK BY DEF TypeInv
<1> QED BY <1>1, TypeInvInit, TypeInvStep, PTL DEF Spec

-----------------------------------------------------------------------------
(***************************************************************************)
(* Faults.                                                                 *)
(***************************************************************************)
Charged ==
  \/ UNCHANGED <<budget, sealed>>
  \/ \E k \in FaultKinds :
       /\ Spend(k)
       /\ k = "flush" \/ \A s \in Shards : sealed'[s] => sealed[s]

\* A write uses up a fault if it fails, and only a failed flush seals a log.
LEMMA WriteCharged ==
  ASSUME NEW s, NEW e, Write(s, e) \/ WriteFails(s, e)
  PROVE  Charged
BY DEF Write, WriteFails, Charged, FaultKinds

\* So does every step of the system.
LEMMA StepCharged ==
  ASSUME TypeInv, [Next]_vars
  PROVE  Charged
<1>1. ASSUME NEW c \in calls, Handle(c) \/ Network(c) PROVE Charged
  <2>1. PICK l \in RunningAt \cup Answers, v \in TxnStates, w \in Entries, ok \in BOOLEAN :
               Takes(c, l, v, w, ok)
    BY <1>1, HandlerRow, Zenon DEF SomeRow
  <2>2. CASE w = "none" BY <2>1, <2>2 DEF Takes, Writes, Charged, FaultKinds
  <2>3. CASE w # "none"
    <3>1. \E e : Write(c.shard, e) \/ WriteFails(c.shard, e)
      BY <2>1, <2>3, Zenon DEF Takes, Writes
    <3> QED BY <3>1, WriteCharged
  <2> QED BY <2>2, <2>3
<1>2. CASE Create
  <2>1. \/ UNCHANGED <<budget, sealed>>
        \/ Spend("create") /\ UNCHANGED sealed
        \/ \E s, e : Write(s, e) \/ WriteFails(s, e)
    BY <1>2, Zenon DEF Create, BeginCreate, BeginCreateFails, CreateLedger, LogCreated,
                       LogCreateAborted, NoWrite
  <2> QED BY <2>1, WriteCharged DEF Charged, FaultKinds
<1>3. ASSUME NEW s \in Shards, Crash(s) \/ Restart(s) PROVE Charged
  BY <1>3, Zenon DEF Crash, Restart, Charged, FaultKinds, TypeInv, TypeOK, ShardTypeOK
<1>4. ASSUME NEW c \in calls, Receive(c) \/ Timeout(c) PROVE Charged
  BY <1>4 DEF Receive, Timeout, localFrame, Charged, FaultKinds
<1>5. ASSUME NEW x \in Submissions, Coordinate(x) PROVE Charged
  BY <1>5, CoordinateStep DEF localFrame, Charged
<1>6. ASSUME NEW x \in Submissions, CoordinatorCrash(x) PROVE Charged
  BY <1>6 DEF CoordinatorCrash, localFrame, Charged, FaultKinds
<1>7. CASE UNCHANGED vars BY <1>7 DEF vars, shardVars, Charged
<1> QED BY <1>1, <1>2, <1>3, <1>4, <1>5, <1>6, <1>7 DEF Next, ShardNext, Idle

\* A fault that has happened stays happened.
LEMMA SparedBefore ==
  ASSUME TypeInv, BudgetInv, Charged, NEW K \in SUBSET FaultKinds, Spared(K)'
  PROVE  Spared(K)
<1>1. Faults \in [FaultKinds -> Nat] /\ budget \in [FaultKinds -> Nat]
  BY ConstantsAssumption, Zenon DEF TypeInv, TypeOK, ShardTypeOK
<1>2. \A k \in FaultKinds : budget'[k] <= budget[k] BY <1>1 DEF Charged, Spend
<1>3. \A k \in FaultKinds : budget[k] <= Faults[k] BY DEF BudgetInv
<1>4. ASSUME NEW k \in K PROVE budget[k] = Faults[k]
  <2>1. budget'[k] = Faults[k] BY DEF Spared
  <2>2. budget[k] \in Nat /\ Faults[k] \in Nat BY <1>1
  <2>3. budget'[k] <= budget[k] /\ budget[k] <= Faults[k] BY <1>2, <1>3, Zenon
  <2> QED BY ONLY <2>1, <2>2, <2>3
<1> QED BY <1>4 DEF Spared

\* Every step keeps the account of the faults.
LEMMA BudgetInvStep ==
  ASSUME TypeInv, BudgetInv, Charged
  PROVE  BudgetInv'
<1>1. Faults \in [FaultKinds -> Nat] /\ budget \in [FaultKinds -> Nat]
  BY ConstantsAssumption, Zenon DEF TypeInv, TypeOK, ShardTypeOK
<1>2. "flush" \in FaultKinds BY DEF FaultKinds
<1>3. CASE UNCHANGED <<budget, sealed>> BY <1>3 DEF BudgetInv, Spared
<1>4. ASSUME NEW k \in FaultKinds, Spend(k), k = "flush" \/ \A s \in Shards : sealed'[s] => sealed[s]
      PROVE  BudgetInv'
  <2>1. \A j \in FaultKinds : budget'[j] <= Faults[j] BY <1>1, <1>4 DEF Spend, BudgetInv
  <2>2. ASSUME Spared({"flush"})' PROVE \A s \in Shards : ~sealed'[s]
    <3>1. Spared({"flush"}) BY <1>2, <2>2, SparedBefore
    <3>2. k # "flush"
      <4>1. budget'["flush"] = Faults["flush"] /\ budget["flush"] = Faults["flush"]
        BY <2>2, <3>1 DEF Spared
      <4> QED BY <4>1, <1>1, <1>2, <1>4 DEF Spend
    <3> QED BY <3>1, <3>2, <1>4 DEF BudgetInv
  <2> QED BY <2>1, <2>2, Zenon DEF BudgetInv
<1> QED BY <1>3, <1>4 DEF Charged

\* At the start no fault has happened.
LEMMA BudgetInit == Init => BudgetInv
BY ConstantsAssumption DEF Init, ShardInit, BudgetInv
=============================================================================
