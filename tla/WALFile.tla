------------------------------ MODULE WALFile ------------------------------
(***************************************************************************)
(* The write-ahead log as a file (shard/wal/wal.go), the JSON store        *)
(* (storage/json_store.go) and ShardServer.Checkpoint, under power         *)
(* failures, cut writes and failing fsyncs.                                *)
(*                                                                         *)
(* A handler is reduced to its use of the log: append the operation, apply *)
(* it to the ledger, append the COMMITTED marker.  The ledger is the set   *)
(* of the transactions applied to it.                                      *)
(***************************************************************************)
EXTENDS Integers, Sequences

CONSTANTS
  Txns,       \* the transactions
  NoTxn,      \* the transaction ID of a CHECKPOINT entry
  WALFaults   \* WALFaults[k]: how many events of kind k may happen;
              \* "checkpoint" bounds the calls of Checkpoint

WALFaultKinds == {"crash", "cut", "fsync", "flush", "store", "truncate", "checkpoint"}

ASSUME WALAssumption == NoTxn \notin Txns /\ WALFaults \in [WALFaultKinds -> Nat]

VARIABLES
  file,        \* the lines in the file, as the operating system has them
  durable,     \* how many of them an fsync has covered
  nextLogID,   \* WAL.nextLogID
  broken,      \* the bufio.Writer holds an error, or its file is closed
  proc,        \* "up", "down", or "refused": NewShardServer returned an error
  ledger,      \* the transactions applied to the in-memory ledger
  pc,          \* pc[t]: where the handler of t stands
  store,       \* the JSON store on disk
  ckpt,        \* the running Checkpoint call
  faults       \* faults[k]: events of kind k that may still happen

walVars == <<file, durable, nextLogID, broken, faults>>
vars == <<walVars, proc, ledger, pc, store, ckpt>>

Kinds == {"op", "committed", "aborted", "checkpoint"}

\* "line": a record and its newline; "bare": the whole record without the
\* newline; "torn": text that json.Unmarshal rejects.
Texts == {"line", "bare", "torn"}

Lines == [id : Nat, kind : Kinds, txn : Txns \cup {NoTxn}, text : Texts]

Record(kind, t) == [id |-> nextLogID, kind |-> kind, txn |-> t, text |-> "line"]

NoCheckpoint == [pc |-> "idle", snap |-> {}, last |-> 0]

Fault(k) == faults[k] > 0 /\ faults' = [faults EXCEPT ![k] = @ - 1]

-----------------------------------------------------------------------------
(***************************************************************************)
(* writeEntry.  Two records without a newline between them are one line    *)
(* that nothing can decode.                                                *)
(***************************************************************************)
Written(f, l) ==
  IF f # <<>> /\ f[Len(f)].text = "bare"
    THEN [f EXCEPT ![Len(f)].text = "torn"]
    ELSE Append(f, l)

M_WriteUnsynced(l) ==
  /\ ~broken
  /\ file' = Written(file, l)
  /\ nextLogID' = nextLogID + 1
  /\ UNCHANGED <<durable, broken, faults>>

M_WriteNoNewline(l) ==
  /\ ~broken
  /\ file' = Written(file, [l EXCEPT !.text = "bare"])
  /\ durable' = Len(file')
  /\ nextLogID' = nextLogID + 1
  /\ UNCHANGED <<broken, faults>>

WriteEntry(l) ==
  /\ ~broken
  /\ file' = Written(file, l)
  /\ durable' = Len(file')
  /\ nextLogID' = nextLogID + 1
  /\ UNCHANGED <<broken, faults>>

\* fsync fails after the flush; or the flush itself fails, after any part of
\* the record, and the writer keeps the error for every later call.
WriteEntryFails(l) ==
  \/ broken /\ UNCHANGED walVars
  \/ /\ ~broken /\ Fault("fsync")
     /\ file' = Written(file, l)
     /\ UNCHANGED <<durable, nextLogID, broken>>
  \/ /\ ~broken /\ Fault("flush")
     /\ file' \in {file} \cup {Written(file, [l EXCEPT !.text = x]) : x \in {"bare", "torn"}}
     /\ broken' = TRUE
     /\ UNCHANGED <<durable, nextLogID>>

-----------------------------------------------------------------------------
(***************************************************************************)
(* A handler: Append, apply, MarkCommitted; or Append, MarkAborted.        *)
(***************************************************************************)
AppendOp(t) ==
  /\ proc = "up" /\ pc[t] = "idle"
  /\ \/ WriteEntry(Record("op", t)) /\ pc' = [pc EXCEPT ![t] = "logged"]
     \/ WriteEntryFails(Record("op", t)) /\ pc' = [pc EXCEPT ![t] = "failed"]
  /\ UNCHANGED <<proc, ledger, store, ckpt>>

Apply(t) ==
  /\ proc = "up" /\ pc[t] = "logged"
  /\ ledger' = ledger \cup {t}
  /\ pc' = [pc EXCEPT ![t] = "applied"]
  /\ UNCHANGED <<walVars, proc, store, ckpt>>

MarkCommitted(t) ==
  /\ proc = "up" /\ pc[t] = "applied"
  /\ \/ WriteEntry(Record("committed", t)) /\ pc' = [pc EXCEPT ![t] = "done"]
     \/ WriteEntryFails(Record("committed", t)) /\ pc' = [pc EXCEPT ![t] = "failed"]
  /\ UNCHANGED <<proc, ledger, store, ckpt>>

MarkAborted(t) ==
  /\ proc = "up" /\ pc[t] = "logged"
  /\ \/ WriteEntry(Record("aborted", t)) /\ pc' = [pc EXCEPT ![t] = "aborted"]
     \/ WriteEntryFails(Record("aborted", t)) /\ pc' = [pc EXCEPT ![t] = "failed"]
  /\ UNCHANGED <<proc, ledger, store, ckpt>>

-----------------------------------------------------------------------------
(***************************************************************************)
(* Checkpoint takes no lock: snapshot, BatchSetBalances, NextLogID,        *)
(* WriteCheckpoint and SetCheckpointLogID are steps of their own.          *)
(***************************************************************************)
Snapshot ==
  /\ proc = "up" /\ ckpt.pc = "idle"
  /\ Fault("checkpoint")
  /\ ckpt' = [NoCheckpoint EXCEPT !.pc = "snapped", !.snap = ledger]
  /\ UNCHANGED <<file, durable, nextLogID, broken, proc, ledger, pc, store>>

BatchSetBalances ==
  /\ proc = "up" /\ ckpt.pc = "snapped"
  /\ \/ /\ store' = [store EXCEPT !.balances = ckpt.snap]
        /\ ckpt' = [ckpt EXCEPT !.pc = "stored"]
        /\ UNCHANGED walVars
     \/ /\ Fault("store")
        /\ ckpt' = NoCheckpoint
        /\ UNCHANGED <<file, durable, nextLogID, broken, store>>
  /\ UNCHANGED <<proc, ledger, pc>>

NextLogID ==
  /\ proc = "up" /\ ckpt.pc = "stored"
  /\ ckpt' = [ckpt EXCEPT !.pc = "read", !.last = nextLogID]
  /\ UNCHANGED <<walVars, proc, ledger, pc, store>>

WriteCheckpoint ==
  /\ proc = "up" /\ ckpt.pc = "read"
  /\ \/ WriteEntry(Record("checkpoint", NoTxn)) /\ ckpt' = [ckpt EXCEPT !.pc = "marked"]
     \/ WriteEntryFails(Record("checkpoint", NoTxn)) /\ ckpt' = NoCheckpoint
  /\ UNCHANGED <<proc, ledger, pc, store>>

SetCheckpointLogID ==
  /\ proc = "up" /\ ckpt.pc = "marked"
  /\ \/ store' = [store EXCEPT !.ckpt = ckpt.last] /\ UNCHANGED walVars
     \/ Fault("store") /\ UNCHANGED <<file, durable, nextLogID, broken, store>>
  /\ ckpt' = NoCheckpoint
  /\ UNCHANGED <<proc, ledger, pc>>

\* The lines from position k on are those that ReadFrom returns.  LogIDs never
\* decrease along the file, so there is such a position.
M_ReadAfter(id, k) ==
  /\ \A i \in 1 .. k - 1 : file[i].id <= id
  /\ \A i \in k .. Len(file) : file[i].id > id

ReadFrom(id, k) ==
  /\ \A i \in 1 .. k - 1 : file[i].id < id
  /\ \A i \in k .. Len(file) : file[i].id >= id

Decodes(f) == \A i \in DOMAIN f : f[i].text # "torn"

\* Truncate at the stored checkpoint: the kept lines are rewritten to a
\* temporary file that replaces the log.  A failure before the rename comes
\* after w.file was closed.
Truncate ==
  /\ proc = "up" /\ ckpt.pc = "idle" /\ store.ckpt > 0
  /\ ~broken /\ Decodes(file)
  /\ \/ /\ \E k \in 1 .. Len(file) + 1 :
             /\ ReadFrom(store.ckpt, k)
             /\ file' = [i \in 1 .. Len(file) - k + 1 |-> [file[i + k - 1] EXCEPT !.text = "line"]]
        /\ durable' = Len(file')
        /\ UNCHANGED <<nextLogID, broken, faults>>
     \/ /\ Fault("truncate")
        /\ broken' = TRUE
        /\ UNCHANGED <<file, durable, nextLogID>>
  /\ UNCHANGED <<proc, ledger, pc, store, ckpt>>

-----------------------------------------------------------------------------
(***************************************************************************)
(* A power failure keeps what was fsynced and any prefix of the rest; the  *)
(* write in progress may be there, and under "cut" a part of it.           *)
(***************************************************************************)
Waiting(t) == pc[t] \in {"idle", "logged", "applied"}

InProgress ==
  {Record("op", t) : t \in {t \in Txns : pc[t] = "idle"}} \cup
  {Record("committed", t) : t \in {t \in Txns : pc[t] = "applied"}} \cup
  {Record("aborted", t) : t \in {t \in Txns : pc[t] = "logged"}} \cup
  {Record("checkpoint", NoTxn) : c \in {"read"} \cap {ckpt.pc}}

Crash ==
  /\ proc = "up"
  /\ faults["crash"] > 0
  /\ \/ /\ \E k \in durable .. Len(file) : file' = SubSeq(file, 1, k)
        /\ faults' = [faults EXCEPT !["crash"] = @ - 1]
     \/ /\ ~broken
        /\ \E l \in InProgress : file' = Written(file, l)
        /\ faults' = [faults EXCEPT !["crash"] = @ - 1]
     \/ /\ ~broken /\ faults["cut"] > 0
        /\ \E l \in InProgress, x \in {"bare", "torn"} : file' = Written(file, [l EXCEPT !.text = x])
        /\ faults' = [faults EXCEPT !["crash"] = @ - 1, !["cut"] = @ - 1]
  /\ durable' = Len(file')
  /\ pc' = [t \in Txns |->
       IF pc[t] \in {"logged", "applied"} \/ (\E i \in DOMAIN file' : file'[i].txn = t /\ pc[t] = "idle")
         THEN "failed" ELSE pc[t]]
  /\ proc' = "down" /\ broken' = FALSE /\ ledger' = {} /\ ckpt' = NoCheckpoint /\ nextLogID' = 0
  /\ UNCHANGED store

\* Recover: the transactions whose last marker is COMMITTED.
Marked(f, t, kind) == \E i \in DOMAIN f : f[i].kind = kind /\ f[i].txn = t

M_ReplayedByOp(f) == {t \in Txns : Marked(f, t, "op")}

Replayed(f) == {t \in Txns : Marked(f, t, "op") /\ Marked(f, t, "committed")}

\* findNextLogID: one more than the LogID of the last line.
M_NextIDAfterReuse(f) == IF f = <<>> THEN 0 ELSE f[Len(f)].id

NextIDAfter(f) == IF f = <<>> THEN 0 ELSE f[Len(f)].id + 1

Open ==
  /\ proc = "down"
  /\ IF Decodes(file)
       THEN proc' = "up" /\ nextLogID' = NextIDAfter(file) /\ ledger' = Replayed(file)
       ELSE proc' = "refused" /\ UNCHANGED <<nextLogID, ledger>>
  /\ UNCHANGED <<file, durable, broken, faults, pc, store, ckpt>>

-----------------------------------------------------------------------------
Init ==
  /\ file = <<>> /\ durable = 0 /\ nextLogID = 0 /\ broken = FALSE
  /\ proc = "up" /\ ledger = {}
  /\ pc = [t \in Txns |-> "idle"]
  /\ store = [balances |-> {}, ckpt |-> 0]
  /\ ckpt = NoCheckpoint
  /\ faults = WALFaults

\* No transaction is left, or the shard refuses to start.
Idle ==
  /\ proc = "refused" \/ (proc = "up" /\ ckpt.pc = "idle" /\ \A t \in Txns : ~Waiting(t))
  /\ UNCHANGED vars

Checkpoint == Snapshot \/ BatchSetBalances \/ NextLogID \/ WriteCheckpoint \/ SetCheckpointLogID

Next ==
  \/ \E t \in Txns : AppendOp(t) \/ Apply(t) \/ MarkCommitted(t) \/ MarkAborted(t)
  \/ Checkpoint
  \/ Truncate
  \/ Crash \/ Open
  \/ Idle

Spec == Init /\ [][Next]_vars

-----------------------------------------------------------------------------
(***************************************************************************)
(* Properties.                                                             *)
(***************************************************************************)

Happened(kinds) == \E k \in kinds : faults[k] < WALFaults[k]

\* Truncate has dropped the beginning of the log.
Truncated == file # <<>> /\ file[1].id > 0

\* A running shard's ledger has every transaction whose MarkCommitted
\* returned success, through any number of power failures, cut writes and
\* failed fsyncs: the record was fsynced before the answer.  A log that was
\* truncated is the exception, NewShardServer does not load the store.
AckedIsReplayed ==
  proc = "up" /\ ~Truncated => \A t \in Txns : pc[t] = "done" => t \in ledger

\* wal_entry.go: LogIDs are "monotonically increasing" along the file, through
\* restarts, truncations and failed flushes.  After an fsync that failed with
\* the line written, writeEntry uses its LogID again.
LogIDsIncrease ==
  ~Happened({"fsync"}) => \A i, j \in DOMAIN file : i < j => file[i].id < file[j].id

\* Every LogID that a running shard hands out from now on lies above the
\* stored checkpoint, also after a truncation and a restart: ReadFrom with
\* the stored ID never skips a later entry.
NewIDsAboveCheckpoint == proc = "up" /\ store.ckpt > 0 => nextLogID > store.ckpt

\* A shard that stopped at any moment can be started again, unless a write
\* was cut short: ReadAll refuses a line that is not whole.
RestartSucceeds == ~Happened({"cut", "flush"}) => proc # "refused"

\* An aborted transaction stays aborted: no restart brings back the
\* operations it had logged.
AbortedStaysOut == \A t \in Txns : pc[t] = "aborted" => t \notin ledger
=============================================================================
