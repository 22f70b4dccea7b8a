------------------------------- MODULE TwoPC -------------------------------
(***************************************************************************)
(* The coordinator (coordinator/router/router.go and                       *)
(* coordinator/twopc/coordinator.go) driving the shards of ShardServer     *)
(* through the HTTP client of messaging/client.go.  A submission is one    *)
(* run of Router.Route; submissions run concurrently and share nothing.    *)
(***************************************************************************)
EXTENDS ShardServer

CONSTANT CommitAttempts   \* tries of commitWithRetry: 3 in the code

ASSUME CommitAttemptsAssumption == CommitAttempts \in Nat \ {0}

VARIABLES
  phase,      \* phase[x]: where submission x is
  decision,   \* decision[x]: the branch Execute took after the votes
  leg,        \* leg[x][op]: what the coordinator knows of each side
  tries,      \* tries[x][op]: commit attempts made
  result      \* result[x]: what the client was told

coordVars == <<phase, decision, leg, tries, result>>
vars == <<shardVars, coordVars>>

Sides == {"DEBIT", "CREDIT"}

Phases == {"new", "executing", "preparing", "committing", "aborting", "done", "crashed"}

Legs == {"idle", "waiting", "prepared", "acked", "failed", "aborted"}

Results == {"none", "ERROR"} \cup (Answers \ {"ok", "error"})

SourceShard(x) == Home[Source[TxnOf[x]]]
DestShard(x) == Home[Destination[TxnOf[x]]]
Cross(x) == SourceShard(x) # DestShard(x)
ShardOf(x, op) == IF op = "CREDIT" THEN DestShard(x) ELSE SourceShard(x)

(***************************************************************************)
(* One HTTP request to a shard.                                            *)
(***************************************************************************)
Request(x, kind, op, try) ==
  [sub |-> x, kind |-> kind, op |-> op, try |-> try, shard |-> ShardOf(x, op),
   live |-> TRUE, pc |-> "sent"]

localFrame == UNCHANGED <<wal, sealed, ledger, seen, up, creating>>

-----------------------------------------------------------------------------
(***************************************************************************)
(* Router.Route: a transfer within a shard is executed there.  Otherwise   *)
(* Execute sends both PREPAREs concurrently.                               *)
(***************************************************************************)
RouteSingle(x) ==
  /\ phase[x] = "new" /\ ~Cross(x)
  /\ phase' = [phase EXCEPT ![x] = "executing"]
  /\ calls' = calls \cup {Request(x, "EXECUTE", "TRANSFER", 1)}
  /\ UNCHANGED <<decision, leg, tries, result, budget>> /\ localFrame

SendPrepares(x) ==
  /\ phase[x] = "new" /\ Cross(x)
  /\ phase' = [phase EXCEPT ![x] = "preparing"]
  /\ leg' = [leg EXCEPT ![x] = [op \in Sides |-> "waiting"]]
  /\ calls' = calls \cup {Request(x, "PREPARE", op, 1) : op \in Sides}
  /\ UNCHANGED <<decision, tries, result, budget>> /\ localFrame

(***************************************************************************)
(* The votes are in.                                                       *)
(***************************************************************************)
M_BothPreparedAny(x) == \E op \in Sides : leg[x][op] = "prepared"

BothPrepared(x) == \A op \in Sides : leg[x][op] = "prepared"

Voted(x) == phase[x] = "preparing" /\ \A op \in Sides : leg[x][op] # "waiting"

CommitAll(x) ==
  /\ Voted(x) /\ BothPrepared(x)
  /\ phase' = [phase EXCEPT ![x] = "committing"]
  /\ decision' = [decision EXCEPT ![x] = "COMMIT"]
  /\ leg' = [leg EXCEPT ![x] = [op \in Sides |-> "waiting"]]
  /\ tries' = [tries EXCEPT ![x] = [op \in Sides |-> 1]]
  /\ calls' = calls \cup {Request(x, "COMMIT", op, 1) : op \in Sides}
  /\ UNCHANGED <<result, budget>> /\ localFrame

M_DecideAbortForgetsVotes(x) ==
  /\ Voted(x) /\ ~BothPrepared(x)
  /\ phase' = [phase EXCEPT ![x] = "aborting"]
  /\ decision' = [decision EXCEPT ![x] = "ABORT"]
  /\ leg' = [leg EXCEPT ![x] = [op \in Sides |-> "failed"]]
  /\ UNCHANGED <<tries, result, calls, budget>> /\ localFrame

DecideAbort(x) ==
  /\ Voted(x) /\ ~BothPrepared(x)
  /\ phase' = [phase EXCEPT ![x] = "aborting"]
  /\ decision' = [decision EXCEPT ![x] = "ABORT"]
  /\ UNCHANGED <<leg, tries, result, calls, budget>> /\ localFrame

(***************************************************************************)
(* abortAll: ABORT to the shards whose PREPARE was answered OK, the source *)
(* first, one attempt each.                                                *)
(***************************************************************************)
SendAbort(x, op) ==
  /\ phase[x] = "aborting"
  /\ leg[x][op] = "prepared"
  /\ op = "CREDIT" => leg[x]["DEBIT"] \notin {"prepared", "waiting"}
  /\ leg' = [leg EXCEPT ![x][op] = "waiting"]
  /\ calls' = calls \cup {Request(x, "ABORT", op, 1)}
  /\ UNCHANGED <<phase, decision, tries, result, budget>> /\ localFrame

Finish(x, state) ==
  /\ \A op \in Sides : leg[x][op] \notin {"prepared", "waiting"}
  /\ phase' = [phase EXCEPT ![x] = "done"]
  /\ result' = [result EXCEPT ![x] = state]
  /\ UNCHANGED <<decision, leg, tries, calls, budget>> /\ localFrame

(***************************************************************************)
(* commitAll returns COMMITTED whether or not the commits succeeded.       *)
(***************************************************************************)
M_FinishCommitRollsBack(x) ==
  /\ phase[x] = "committing"
  /\ \A op \in Sides : leg[x][op] # "waiting"
  /\ IF \E op \in Sides : leg[x][op] = "failed"
       THEN /\ phase' = [phase EXCEPT ![x] = "aborting"]
            /\ leg' = [leg EXCEPT ![x] = [op \in Sides |-> "prepared"]]
            /\ UNCHANGED <<decision, tries, result, calls, budget>> /\ localFrame
       ELSE Finish(x, "COMMITTED")

FinishCommit(x) == phase[x] = "committing" /\ Finish(x, "COMMITTED")

FinishAbort(x) == phase[x] = "aborting" /\ Finish(x, "ABORTED")

-----------------------------------------------------------------------------
(***************************************************************************)
(* How the coordinator takes the end of call c: an answer, or "error" when *)
(* the client timed out or the connection broke.  rest is what remains of  *)
(* calls.                                                                  *)
(***************************************************************************)
EndExecute(c, answer, rest) ==
  /\ c.kind = "EXECUTE"
  /\ phase' = [phase EXCEPT ![c.sub] = "done"]
  /\ result' = [result EXCEPT ![c.sub] = IF answer = "error" THEN "ERROR" ELSE answer]
  /\ calls' = rest
  /\ UNCHANGED <<decision, leg, tries>>

EndPrepare(c, answer, rest) ==
  /\ c.kind = "PREPARE"
  /\ leg' = [leg EXCEPT ![c.sub][c.op] = IF answer = "ok" THEN "prepared" ELSE "failed"]
  /\ calls' = rest
  /\ UNCHANGED <<phase, decision, tries, result>>

EndAbort(c, answer, rest) ==
  /\ c.kind = "ABORT"
  /\ leg' = [leg EXCEPT ![c.sub][c.op] = "aborted"]
  /\ calls' = rest
  /\ UNCHANGED <<phase, decision, tries, result>>

M_EndCommitRetriesForever(c, answer, rest) ==
  /\ c.kind = "COMMIT"
  /\ IF answer = "error"
       THEN calls' = rest \cup {Request(c.sub, "COMMIT", c.op, 1)} /\ UNCHANGED leg
       ELSE calls' = rest /\ leg' = [leg EXCEPT ![c.sub][c.op] = "acked"]
  /\ UNCHANGED <<phase, decision, tries, result>>

M_EndCommitOneMore(c, answer, rest) ==
  /\ c.kind = "COMMIT"
  /\ IF answer = "error" /\ tries[c.sub][c.op] <= CommitAttempts
       THEN /\ tries' = [tries EXCEPT ![c.sub][c.op] = @ + 1]
            /\ calls' = rest \cup {Request(c.sub, "COMMIT", c.op, tries[c.sub][c.op] + 1)}
            /\ UNCHANGED leg
       ELSE /\ leg' = [leg EXCEPT ![c.sub][c.op] = IF answer = "ok" THEN "acked" ELSE "failed"]
            /\ calls' = rest
            /\ UNCHANGED tries
  /\ UNCHANGED <<phase, decision, result>>

EndCommit(c, answer, rest) ==
  /\ c.kind = "COMMIT"
  /\ IF answer = "error" /\ tries[c.sub][c.op] < CommitAttempts
       THEN /\ tries' = [tries EXCEPT ![c.sub][c.op] = @ + 1]
            /\ calls' = rest \cup {Request(c.sub, "COMMIT", c.op, tries[c.sub][c.op] + 1)}
            /\ UNCHANGED leg
       ELSE /\ leg' = [leg EXCEPT ![c.sub][c.op] = IF answer = "ok" THEN "acked" ELSE "failed"]
            /\ calls' = rest
            /\ UNCHANGED tries
  /\ UNCHANGED <<phase, decision, result>>

End(c, answer, rest) ==
  \/ EndExecute(c, answer, rest) \/ EndPrepare(c, answer, rest)
  \/ EndCommit(c, answer, rest) \/ EndAbort(c, answer, rest)

Receive(c) ==
  /\ c.live /\ c.pc \in Answers
  /\ End(c, c.pc, calls \ {c})
  /\ UNCHANGED budget /\ localFrame

(***************************************************************************)
(* The 30 s HTTP timeout: the coordinator gives up on c, the shard goes on.*)
(***************************************************************************)
Timeout(c) ==
  /\ c.live
  /\ Spend("timeout")
  /\ End(c, "error", (calls \ {c}) \cup
                     (IF c.pc \in Answers THEN {} ELSE {[c EXCEPT !.live = FALSE]}))
  /\ localFrame

(***************************************************************************)
(* The coordinator process of submission x dies.  It keeps nothing on      *)
(* disk; the requests it sent go on.                                       *)
(***************************************************************************)
CoordinatorCrash(x) ==
  LET own == {c \in calls : c.sub = x /\ c.live} IN
  /\ phase[x] \notin {"new", "done", "crashed"}
  /\ Spend("coordinator")
  /\ phase' = [phase EXCEPT ![x] = "crashed"]
  /\ calls' = (calls \ own) \cup
              {[c EXCEPT !.live = FALSE] : c \in {d \in own : d.pc \notin Answers}}
  /\ UNCHANGED <<decision, leg, tries, result>> /\ localFrame

-----------------------------------------------------------------------------
\* which submissions reach a coordinator at all is up to the clients: one
\* that does not is over from the start
Init ==
  /\ ShardInit
  /\ phase \in [Submissions -> {"new", "crashed"}]
  /\ decision = [x \in Submissions |-> "none"]
  /\ leg = [x \in Submissions |-> [op \in Sides |-> "idle"]]
  /\ tries = [x \in Submissions |-> [op \in Sides |-> 0]]
  /\ result = [x \in Submissions |-> "none"]

Coordinate(x) ==
  \/ RouteSingle(x) \/ SendPrepares(x) \/ CommitAll(x) \/ DecideAbort(x)
  \/ (\E op \in Sides : SendAbort(x, op)) \/ FinishCommit(x) \/ FinishAbort(x)

Quiet == calls = {} /\ \A x \in Submissions : phase[x] \in {"done", "crashed"}

\* nothing left to do: the system idles rather than deadlocks
Idle == Quiet /\ UNCHANGED vars

Next ==
  \/ ShardNext /\ UNCHANGED coordVars
  \/ \E c \in calls : Receive(c) \/ Timeout(c)
  \/ \E x \in Submissions : Coordinate(x) \/ CoordinatorCrash(x)
  \/ Idle

Spec == Init /\ [][Next]_vars

(***************************************************************************)
(* What the Go scheduler and the HTTP client keep doing: handlers run,     *)
(* answers arrive, the coordinator takes its next step.  Faults and        *)
(* account creations are under no obligation, and neither is the restart   *)
(* of a dead shard: nothing in the deployment restarts one by itself.      *)
(***************************************************************************)
Progress ==
  \/ (\/ \E c \in calls : Handle(c) \/ Refused(c)
      \/ \E s \in Shards : CreateLedger(s) \/ LogCreated(s) \/ LogCreateAborted(s))
     /\ UNCHANGED coordVars
  \/ \E c \in calls : Receive(c)
  \/ \E x \in Submissions : Coordinate(x)

FairSpec == Spec /\ WF_vars(Progress)

-----------------------------------------------------------------------------
(***************************************************************************)
(* Properties.                                                             *)
(***************************************************************************)

\* The shards' and the coordinator's variables stay within their types.
TypeOK ==
  /\ ShardTypeOK
  /\ phase \in [Submissions -> Phases]
  /\ decision \in [Submissions -> {"none", "COMMIT", "ABORT"}]
  /\ leg \in [Submissions -> [Sides -> Legs]]
  /\ tries \in [Submissions -> [Sides -> 0 .. CommitAttempts]]
  /\ result \in [Submissions -> Results]

CrossTransfer(t) == Home[Source[t]] # Home[Destination[t]]

\* Two-phase commit is atomic in the logs: no transfer is COMMITTED in the
\* log of one shard and ABORTED in the log of any shard, whatever crashes,
\* time-outs, lost requests and failed writes happen on the way
\* (twopc.Execute, commitAll, abortAll; Prepare/Commit/AbortTransaction).
Agreement ==
  \A t \in Transfers : \A r, s \in Shards :
    ~(Logged(wal[r], "COMMITTED", t) /\ Logged(wal[s], "ABORTED", t))

\* A cross-shard transfer that any shard committed was first logged as
\* PREPARED by both shards, although CommitTransaction itself accepts a
\* transaction it has never seen.
PreparedBeforeCommit ==
  \A t \in Transfers, s \in Shards :
    (CrossTransfer(t) /\ Logged(wal[s], "COMMITTED", t)) =>
      \A a \in {Source[t], Destination[t]} : Logged(wal[Home[a]], "PREPARED", t)

\* No fault of these kinds has happened so far.
Spared(kinds) == \A k \in kinds : budget[k] = Faults[k]

\* A client told that its single-shard transfer COMMITTED can rely on it:
\* the COMMITTED record and both operations are in the shard's log.  When the
\* write of COMMITTED fails, ExecuteSingleShard answers with an error but
\* keeps COMMITTED in memory, so that only the first submission is safe then.
AckedIsDurable ==
  \A x \in Submissions :
    (/\ ~Cross(x) /\ result[x] = "COMMITTED"
     /\ Spared({"flush", "fsync"}) \/ \A y \in Submissions \ {x} : TxnOf[y] # TxnOf[x])
    => \A op \in {"DEBIT", "CREDIT", "COMMITTED"} : Logged(wal[SourceShard(x)], op, TxnOf[x])

\* The first invariant of ledger.go: no balance is ever negative.
NoOverdraft == \A s \in Shards : \A a \in DOMAIN ledger[s] : ledger[s][a] >= 0

\* the amount of a set of transfers
TotalOf == LET Of(t) == Amount[t] IN [S \in SUBSET Transfers |-> MapThenSumSet(Of, S)]

\* The funds of account a that prepared transfers hold on shard s.
ReservedOf(s, a) == TotalOf[{t \in Transfers : Source[t] = a /\ seen[s][t] = "PREPARED"}]

Resting(s) == up[s] /\ creating[s] = NoCreate /\ \A c \in calls : c.shard = s => ~Running(c)

\* Whenever a shard is between operations, replaying its log gives exactly
\* its balances, reserved funds put back: a restart would lose or invent
\* nothing (Recover against every handler that writes the log).  A failed
\* write of COMMITTED or ABORTED leaves the ledger changed, so the claim is
\* for logs whose writes succeed.
ReplayMatchesLedger ==
  \A s \in Shards : (Resting(s) /\ Spared({"flush", "fsync"})) =>
    LET r == Recover(wal[s]) IN
    /\ DOMAIN r = DOMAIN ledger[s]
    /\ \A a \in DOMAIN r : r[a] = ledger[s][a] + ReservedOf(s, a)

Total(l) ==
  LET OnShard(s) == LET Balance(a) == l[s][a] IN MapThenSumSet(Balance, DOMAIN l[s])
  IN  MapThenSumSet(OnShard, Shards)

InitialTotal == Total([s \in Shards |-> Recover(InitialLog[s])])

\* While all shards run, their balances never add up to more than was
\* there at the start: no interleaving of handlers creates money.
NoMoneyCreated == (\A s \in Shards : up[s]) => Total(ledger) <= InitialTotal

\* constants/states.go: COMMITTED and ABORTED are final.  A running shard
\* never takes a transaction out of either state.
DecidedIsFinal ==
  [][\A s \in Shards, t \in Transfers :
       (seen[s][t] \in {"COMMITTED", "ABORTED"} /\ up'[s]) => seen'[s][t] = seen[s][t]]_vars

\* Every submission is answered: no handler, mutex or retry waits for ever.
EverySubmissionEnds == \A x \in Submissions : <>(phase[x] \in {"done", "crashed"})

\* Once everything has come to rest no shard holds a PREPARED transfer:
\* without faults abortAll and commitAll release every reservation that any
\* of the concurrent PREPAREs made.
NoReservationLeft == Quiet => \A s \in Shards, t \in Transfers : seen[s][t] # "PREPARED"

-----------------------------------------------------------------------------
(***************************************************************************)
(* Refinement of AtomicTransfer.  A single-shard transfer takes effect at  *)
(* ApplyTransfer, a cross-shard one when the coordinator decides.  Before  *)
(* that a reservation still belongs to the source; after it a credit not   *)
(* yet applied already belongs to the destination.                         *)
(***************************************************************************)
CallAt(t, kind, labels) == \E c \in calls : Txn(c) = t /\ c.kind = kind /\ c.pc \in labels

CrossTransfers == {t \in Transfers : CrossTransfer(t)}

SubmissionsOf == [t \in Transfers |-> {x \in Submissions : TxnOf[x] = t}]

Decided(t, d) == \E x \in SubmissionsOf[t] : decision[x] = d

Withheld(t) ==
  /\ ~Decided(t, "COMMIT")
  /\ \/ \E c \in calls : Txn(c) = t /\ c.op = "DEBIT" /\ c.pc = "logPrepared"
     \/ /\ seen[Home[Source[t]]][t] = "PREPARED"
        /\ ~\E c \in calls : Txn(c) = t /\ c.op = "DEBIT" /\ c.pc = "markAborted"

Owed(t) ==
  /\ Decided(t, "COMMIT")
  /\ seen[Home[Destination[t]]][t] # "COMMITTED"
  /\ ~\E c \in calls : Txn(c) = t /\ c.op = "CREDIT" /\ c.kind = "COMMIT" /\ c.pc = "logCommitted"

AbstractBalance ==
  LET Due(a) == {t \in CrossTransfers : (Source[t] = a /\ Withheld(t)) \/ (Destination[t] = a /\ Owed(t))}
  IN  [a \in {b \in Accounts : b \in DOMAIN ledger[Home[b]]} |->
         ledger[Home[a]][a] + TotalOf[Due(a)]]

AbstractOutcome ==
  [t \in Transfers |->
     IF CrossTransfer(t)
       THEN IF Decided(t, "COMMIT") THEN "COMMITTED"
            ELSE IF Decided(t, "ABORT") THEN "ABORTED" ELSE "open"
       ELSE LET state == seen[Home[Source[t]]][t] IN
            CASE state # "PENDING" -> IF state \in {"COMMITTED", "ABORTED"} THEN state ELSE "open"
              [] state = "PENDING" /\ CallAt(t, "EXECUTE", {"logCommitted"}) -> "COMMITTED"
              [] state = "PENDING" /\ CallAt(t, "EXECUTE", {"logAborted"}) -> "ABORTED"
              [] OTHER -> "open"]

Abstract == INSTANCE AtomicTransfer WITH balance <- AbstractBalance, outcome <- AbstractOutcome

\* Transfers are atomic: seen through the mapping above, every step of the
\* handlers and the coordinator commits one transfer whole, aborts one, opens
\* an account, or changes nothing.
IsAtomic == Abstract!Spec

\* Time-outs, requests carried out late, retried or lost, and the death of a
\* coordinator leave transfers atomic, as long as no shard crashes and no
\* write to a log fails (commitWithRetry, the answers from seenTxns).
AtomicDespiteNetwork ==
  /\ Abstract!Init
  /\ [][~Spared({"crash", "flush", "fsync"})' \/ Abstract!Next]_<<AbstractBalance, AbstractOutcome>>
=============================================================================
