-------------------------- MODULE TwoPCInvariants ---------------------------
(***************************************************************************)
(* The invariants of TwoPC that its proofs rest on, and what its steps do  *)
(* in terms of them.                                                       *)
(***************************************************************************)
EXTENDS TwoPC

(***************************************************************************)
(* A call's fields fit together: a handler is only ever at a step of its   *)
(* own kind, and only the coordinator's routing decides where it runs.     *)
(***************************************************************************)
KindsAt(pc) ==
  CASE pc \in {"logDebit", "logCredit", "applyTransfer"} -> {"EXECUTE"}
    [] pc \in {"reserve", "logPrepared"} -> {"PREPARE"}
    [] pc = "applyCredit" -> {"COMMIT"}
    [] pc = "logCommitted" -> {"EXECUTE", "COMMIT"}
    [] pc = "logAborted" -> {"EXECUTE", "PREPARE"}
    [] pc = "markAborted" -> {"ABORT"}
    [] pc = "ok" -> {"PREPARE", "COMMIT", "ABORT"}
    [] OTHER -> {"EXECUTE", "PREPARE", "COMMIT", "ABORT"}

WellFormed(c) ==
  /\ c.kind \in KindsAt(c.pc)
  /\ c.shard = ShardOf(c.sub, c.op)
  /\ (c.kind = "EXECUTE") <=> (c.op = "TRANSFER")
  /\ (c.kind = "EXECUTE") <=> ~Cross(c.sub)

Mutex ==
  \A c, d \in calls :
    (Running(c) /\ Running(d) /\ c.shard = d.shard /\ Stripe[Txn(c)] = Stripe[Txn(d)]) => c = d

\* only the handler that holds the stripe leaves a transaction PENDING
PendingHeld ==
  \A s \in Shards, t \in Transfers : seen[s][t] = "PENDING" =>
    \E c \in calls : c.shard = s /\ Txn(c) = t /\ c.kind \in {"EXECUTE", "PREPARE"} /\ Running(c)

CreatingOK == \A s \in Shards : creating[s].pc # "idle" => creating[s].account \in Accounts

RoutedInv == \A x \in Submissions : phase[x] \in {"preparing", "committing", "aborting"} => Cross(x)

TypeInv ==
  /\ TypeOK
  /\ \A c \in calls : WellFormed(c)
  /\ Mutex
  /\ PendingHeld
  /\ CreatingOK
  /\ RoutedInv

-----------------------------------------------------------------------------
(***************************************************************************)
(* Faults.                                                                 *)
(***************************************************************************)

\* faults are only ever used up, and a log is sealed by a failed flush only
BudgetInv ==
  /\ \A k \in FaultKinds : budget[k] <= Faults[k]
  /\ Spared({"flush"}) => \A s \in Shards : ~sealed[s]

-----------------------------------------------------------------------------
(***************************************************************************)
(* The chain from a verdict in a log to the votes.                         *)
(***************************************************************************)

\* every transfer is submitted at most once
SingleSubmission == \A x, y \in Submissions : TxnOf[x] = TxnOf[y] => x = y

Committed(s, x) == Logged(wal[s], "COMMITTED", TxnOf[x])
Aborted(s, x) == Logged(wal[s], "ABORTED", TxnOf[x])
Prepared(s, x) == Logged(wal[s], "PREPARED", TxnOf[x])

(***************************************************************************)
(* Submission x can no longer decide COMMIT: it decided ABORT, its         *)
(* coordinator died undecided, or one of its PREPAREs failed or is about   *)
(* to answer with an error.                                                *)
(***************************************************************************)
Doomed(x) ==
  \/ decision[x] = "ABORT"
  \/ decision[x] = "none" /\ phase[x] = "crashed"
  \/ phase[x] = "preparing" /\ \E op \in Sides : leg[x][op] = "failed"
  \/ phase[x] = "preparing" /\ \E c \in calls :
       /\ c.sub = x /\ c.kind = "PREPARE" /\ c.live
       /\ c.pc \in {"logAborted", "error"}

PhaseInv ==
  \A x \in Submissions :
    /\ phase[x] \in {"new", "executing", "preparing"} => decision[x] = "none"
    /\ phase[x] = "committing" => decision[x] = "COMMIT"
    /\ phase[x] = "aborting" => decision[x] = "ABORT"
    /\ phase[x] = "new" => \A c \in calls : c.sub # x

\* a PREPARE nobody waits for any more belongs to a submission that gave up
Abandoned(x, op) ==
  \/ decision[x] = "ABORT"
  \/ decision[x] = "none" /\ phase[x] = "crashed"
  \/ phase[x] = "preparing" /\ leg[x][op] = "failed"

CallInv ==
  /\ \A c \in calls :
       /\ c.kind = "COMMIT" => decision[c.sub] = "COMMIT"
       /\ c.kind = "ABORT" => decision[c.sub] = "ABORT"
       /\ (c.kind = "PREPARE" /\ c.live) =>
            phase[c.sub] = "preparing" /\ leg[c.sub][c.op] = "waiting"
       /\ (c.kind = "PREPARE" /\ ~c.live) => Abandoned(c.sub, c.op)
  /\ \A c, d \in calls :
       (c.sub = d.sub /\ c.op = d.op /\ c.kind = d.kind /\ c.kind \in {"EXECUTE", "PREPARE"}) => c = d

\* the log of a single-shard transfer: no verdict while its handler is at work
ExecuteInv ==
  \A x \in Submissions : ~Cross(x) =>
    /\ (phase[x] = "new" \/ \E c \in calls : c.sub = x /\ c.pc \in {"sent"} \cup RunningAt) =>
         \A s \in Shards : ~Committed(s, x) /\ ~Aborted(s, x)
    /\ \A r, s \in Shards : ~(Committed(r, x) /\ Aborted(s, x))

\* the evidence a cross-shard transfer leaves on the shards
VerdictInv ==
  \A x \in Submissions : Cross(x) =>
    /\ \A s \in Shards :
         /\ Committed(s, x) => decision[x] = "COMMIT"
         /\ seen[s][TxnOf[x]] = "COMMITTED" => decision[x] = "COMMIT"
         /\ Aborted(s, x) => Doomed(x)
    /\ \A c \in calls : (c.sub = x /\ c.kind = "PREPARE" /\ c.pc = "logAborted") => Doomed(x)

\* the evidence that a side voted
VoteInv ==
  /\ \A x \in Submissions, s \in Shards : seen[s][TxnOf[x]] = "PREPARED" => Prepared(s, x)
  /\ \A c \in calls : (c.kind = "PREPARE" /\ c.pc = "ok") => Prepared(c.shard, c.sub)
  /\ \A x \in Submissions : \A op \in Sides :
       (decision[x] = "COMMIT" \/ (phase[x] = "preparing" /\ leg[x][op] = "prepared")) =>
         Prepared(ShardOf(x, op), x)

ProtocolInv == PhaseInv /\ CallInv /\ ExecuteInv /\ VerdictInv /\ VoteInv

-----------------------------------------------------------------------------
(***************************************************************************)
(* Where a handler stands tells what it left in seenTxns, and a shard that *)
(* is down knows nothing and runs nothing.                                 *)
(***************************************************************************)
StageAt(kind, pc, state) ==
  /\ pc \in {"logDebit", "logCredit", "applyTransfer", "reserve", "logPrepared"} => state = "PENDING"
  /\ pc = "applyCredit" => state \notin {"COMMITTED", "ABORTED"}
  /\ pc = "logCommitted" => state # "ABORTED" /\ (kind = "EXECUTE" => state = "PENDING")
  /\ pc = "logAborted" => state = "PENDING" \/ (kind = "EXECUTE" /\ state = "ABORTED")

Stage(c) == StageAt(c.kind, c.pc, State(c)) /\ (Running(c) => up[c.shard])

StageInv ==
  /\ \A c \in calls : Stage(c)
  /\ \A s \in Shards, t \in Transfers : ~up[s] => seen[s][t] = "NONE"

-----------------------------------------------------------------------------
(***************************************************************************)
(* Balances.                                                               *)
(***************************************************************************)

\* Every balance leaves room for any transfer.
Headroom ==
  \A s \in Shards, t \in Transfers : \A a \in DOMAIN ledger[s] : ledger[s][a] + Amount[t] <= MaxInt64

Solvent(l) == \A a \in DOMAIN l : l[a] \in Nat

FundsInv == Spared({"crash"}) => \A s \in Shards : up[s] /\ Solvent(ledger[s])

-----------------------------------------------------------------------------
(***************************************************************************)
(* What a vote stands for while no shard dies: a shard that voted keeps    *)
(* the transfer PREPARED until the coordinator has decided, and it voted   *)
(* because its side can be carried out.                                    *)
(***************************************************************************)
Known(t, op) ==
  IF op = "CREDIT" THEN Destination[t] \in DOMAIN ledger[Home[Destination[t]]]
  ELSE Amount[t] > 0 /\ Source[t] \in DOMAIN ledger[Home[Source[t]]]

SideState(t, op) == seen[Home[IF op = "CREDIT" THEN Destination[t] ELSE Source[t]]][t]

StateOf(x, op) == SideState(TxnOf[x], op)

Ballot ==
  /\ \A c \in calls : (c.kind = "PREPARE" /\ c.live /\ c.pc = "ok") => State(c) = "PREPARED"
  /\ \A x \in Submissions : \A op \in Sides :
       (phase[x] = "preparing" /\ leg[x][op] = "prepared") => StateOf(x, op) = "PREPARED"

Vouched ==
  /\ \A c \in calls : /\ c.pc \in {"reserve", "logPrepared"} => Known(Txn(c), c.op)
                      /\ c.pc = "reserve" => c.op = "DEBIT"
                      /\ c.pc = "applyCredit" => c.op = "CREDIT"
  /\ \A t \in CrossTransfers : \A op \in Sides : SideState(t, op) = "PREPARED" => Known(t, op)
  /\ \A x \in Submissions : \A op \in Sides : Cross(x) /\ decision[x] = "COMMIT" => Known(TxnOf[x], op)

BackedInv == Spared({"crash"}) => Ballot /\ Vouched

\* createAccount runs on the shard that serves the account.
AtHome == \A s \in Shards : creating[s].pc # "idle" => Home[creating[s].account] = s

-----------------------------------------------------------------------------
(***************************************************************************)
(* Every step of a handler, and every request refused or lost, as a row of *)
(* a table: call c moves to l (or its answer is dropped), the state of its *)
(* transaction becomes v, and an entry w is written ("none" when there is  *)
(* none), which succeeds or not.                                           *)
(***************************************************************************)
MovesTo(c, l) ==
  calls' = (calls \ {c}) \cup (IF c.live \/ l \in RunningAt THEN {[c EXCEPT !.pc = l]} ELSE {})

ExecuteRow(c, l, v, w, ok) ==
  \/ c.pc = "sent" /\ Acquire(c) /\ State(c) # "NONE" /\ l = State(c) /\ v = State(c) /\ w = "none"
  \/ /\ c.pc = "sent" /\ Acquire(c) /\ State(c) = "NONE" /\ w = "none"
     /\ (l = "logDebit" /\ v = "PENDING") \/ (l = "logAborted" /\ v = "ABORTED")
  \/ c.pc = "logDebit" /\ w = "DEBIT" /\ IF ok THEN l = "logCredit" /\ v = State(c) ELSE l = "error" /\ v = "NONE"
  \/ c.pc = "logCredit" /\ w = "CREDIT" /\ IF ok THEN l = "applyTransfer" /\ v = State(c) ELSE l = "error" /\ v = "NONE"
  \/ c.pc \in {"logCredit", "applyTransfer"} /\ w = "none" /\ l = "error" /\ v = "NONE"
  \/ c.pc = "applyTransfer" /\ w = "none" /\ l \in {"logCommitted", "logAborted"} /\ v = State(c)
  \/ c.pc = "logCommitted" /\ w = "COMMITTED" /\ l = (IF ok THEN "COMMITTED" ELSE "error") /\ v = "COMMITTED"
  \/ c.pc = "logAborted" /\ w = "ABORTED" /\ l = "ABORTED" /\ v = "ABORTED"

PrepareRow(c, l, v, w, ok) ==
  \/ /\ c.pc = "sent" /\ Acquire(c) /\ State(c) # "NONE" /\ v = State(c) /\ w = "none"
     /\ l = (IF State(c) \in {"PREPARED", "COMMITTED"} THEN "ok" ELSE "error")
  \/ /\ c.pc = "sent" /\ Acquire(c) /\ State(c) = "NONE" /\ v = "PENDING" /\ w = "none"
     /\ l \in {"logAborted", "reserve", "logPrepared"}
  \/ c.pc = "reserve" /\ w = "none" /\ l \in {"logPrepared", "logAborted"} /\ v = State(c)
  \/ c.pc = "logPrepared" /\ w = "PREPARED" /\ IF ok THEN l = "ok" /\ v = "PREPARED" ELSE l = "error" /\ v = "NONE"
  \/ c.pc = "logAborted" /\ w = "ABORTED" /\ l = "error" /\ v = "ABORTED"

CommitRow(c, l, v, w, ok) ==
  \/ /\ c.pc = "sent" /\ Acquire(c) /\ State(c) \in {"COMMITTED", "ABORTED"} /\ v = State(c) /\ w = "none"
     /\ l = (IF State(c) = "COMMITTED" THEN "ok" ELSE "error")
  \/ /\ c.pc = "sent" /\ Acquire(c) /\ State(c) \notin {"COMMITTED", "ABORTED"} /\ v = State(c)
     /\ w = c.op /\ w \in {"DEBIT", "CREDIT"}
     /\ l = (IF ~ok THEN "error" ELSE IF c.op = "CREDIT" THEN "applyCredit" ELSE "logCommitted")
  \/ c.pc = "applyCredit" /\ w = "none" /\ l \in {"logCommitted", "error"} /\ v = State(c)
  \/ c.pc = "logCommitted" /\ w = "COMMITTED" /\ l = (IF ok THEN "ok" ELSE "error") /\ v = "COMMITTED"

AbortRow(c, l, v, w, ok) ==
  \/ c.pc = "sent" /\ Acquire(c) /\ State(c) = "ABORTED" /\ l = "ok" /\ v = State(c) /\ w = "none"
  \/ c.pc = "sent" /\ Acquire(c) /\ State(c) # "ABORTED" /\ l = "markAborted" /\ v = State(c) /\ w = "none"
  \/ c.pc = "markAborted" /\ w = "ABORTED" /\ IF ok THEN l = "ok" /\ v = "ABORTED" ELSE l = "error" /\ v = State(c)

NetworkRow(c, l, v, w) == c.pc = "sent" /\ l = "error" /\ v = State(c) /\ w = "none"

Row(c, l, v, w, ok) ==
  \/ c.kind = "EXECUTE" /\ ExecuteRow(c, l, v, w, ok)
  \/ c.kind = "PREPARE" /\ PrepareRow(c, l, v, w, ok)
  \/ c.kind = "COMMIT" /\ CommitRow(c, l, v, w, ok)
  \/ c.kind = "ABORT" /\ AbortRow(c, l, v, w, ok)
  \/ NetworkRow(c, l, v, w)

Writes(c, w, ok) ==
  IF w = "none"
    THEN UNCHANGED <<wal, sealed>> /\ (UNCHANGED budget \/ Spend("replicate") \/ Spend("loss"))
    ELSE \E e \in WALEntries : /\ e.op = w /\ e.txn = Txn(c)
                               /\ IF ok THEN Write(c.shard, e) ELSE WriteFails(c.shard, e)

Takes(c, l, v, w, ok) ==
  /\ Row(c, l, v, w, ok)
  /\ MovesTo(c, l)
  /\ seen' = [seen EXCEPT ![c.shard][Txn(c)] = v]
  /\ Writes(c, w, ok)

Entries == Operations \cup Markers \cup {"none"}

SomeRow(c) ==
  \E l \in RunningAt \cup Answers, v \in TxnStates, w \in Entries, ok \in BOOLEAN : Takes(c, l, v, w, ok)

\* What every step of a handler keeps.
HandlerFrame ==
  /\ wal' \in [Shards -> Seq(WALEntries)]
  /\ sealed' \in [Shards -> BOOLEAN]
  /\ budget' \in [FaultKinds -> Nat]
  /\ DOMAIN ledger' = Shards
  /\ \A s \in Shards : DOMAIN ledger'[s] = DOMAIN ledger[s]
  /\ UNCHANGED <<up, creating>>

\* An account creation keeps the type invariant, and logs verdicts only
\* under its own transaction ID (CreateAccountWithWAL).
CreateEffect ==
  /\ wal' = wal \/ \E s \in Shards, e \in WALEntries :
       /\ e.txn \notin Transfers
       /\ wal' = [wal EXCEPT ![s] = Append(@, e)]
  /\ \A s \in Shards, t \in Transfers : seen'[s][t] = seen[s][t]
  /\ UNCHANGED <<up, calls>>

-----------------------------------------------------------------------------
(***************************************************************************)
(* What a coordinator step does to the calls: it drops the answered calls  *)
(* of D, gives up on those of G, and sends the requests of R.              *)
(***************************************************************************)
CallsEffect(D, G, R) ==
  /\ D \subseteq calls /\ G \subseteq calls
  /\ \A c \in D : c.pc \in Answers
  /\ \A r \in R : r \in Calls /\ WellFormed(r) /\ r.pc = "sent"
  /\ calls' = ((calls \ (D \cup G)) \cup {[c EXCEPT !.live = FALSE] : c \in G}) \cup R

CoordTypes ==
  /\ RoutedInv'
  /\ phase' \in [Submissions -> Phases]
  /\ decision' \in [Submissions -> {"none", "COMMIT", "ABORT"}]
  /\ leg' \in [Submissions -> [Sides -> Legs]]
  /\ tries' \in [Submissions -> [Sides -> 0 .. CommitAttempts]]
  /\ result' \in [Submissions -> Results]

\* What every step of a coordinator leaves: its own variables within their
\* types, the shards alone, and the calls as CallsEffect says.
CoordEffect ==
  /\ CoordTypes /\ localFrame
  /\ budget' \in [FaultKinds -> Nat]
  /\ \E D, G, R : CallsEffect(D, G, R)

AtWork(c) == c.pc \in {"sent"} \cup RunningAt

\* What a coordinator step leaves true of the state it changes.
CoordKeeps ==
  /\ PhaseInv' /\ CallInv'
  /\ \A x \in Submissions :
       /\ Cross(x) /\ Doomed(x) => Doomed(x)'
       /\ decision[x] = "COMMIT" => decision'[x] = "COMMIT"
       /\ phase'[x] = "new" => phase[x] = "new"
  /\ \A d \in calls' :
       /\ ~Cross(d.sub) /\ AtWork(d) =>
            phase[d.sub] = "new" \/ \E c \in calls : c.sub = d.sub /\ AtWork(c)
       /\ d.kind = "PREPARE" /\ d.pc = "logAborted" =>
            \E c \in calls : c.sub = d.sub /\ c.kind = "PREPARE" /\ c.pc = "logAborted"
       /\ d.kind = "PREPARE" /\ d.pc = "ok" => d \in calls
  /\ \A x \in Submissions : \A op \in Sides :
       (decision'[x] = "COMMIT" \/ (phase'[x] = "preparing" /\ leg'[x][op] = "prepared")) =>
         \/ decision[x] = "COMMIT"
         \/ phase[x] = "preparing" /\ leg[x][op] = "prepared"
         \/ \E c \in calls : c.sub = x /\ c.op = op /\ c.kind = "PREPARE" /\ c.pc = "ok" /\ c.live

=============================================================================
