-------------------------------- MODULE Seed --------------------------------
(***************************************************************************)
(* The seeding tool (cmd/seed/main.go) creating accounts on running        *)
(* shards: a feeder goroutine, a pool of workers that send create-account  *)
(* requests and retry them, two channels, and main, which counts the       *)
(* results.  The shards are those of ShardServer; handleCreateAccount is   *)
(* the handler that calls CreateAccountWithWAL.                            *)
(*                                                                         *)
(* The limiter, the backoff and the progress output are left out: they     *)
(* delay a worker and change nothing else.                                 *)
(***************************************************************************)
EXTENDS ShardServer

CONSTANTS
  Unmapped,     \* accounts without a shard in the tool's shard map
  Setups,       \* the settings to choose from: pool, the workers; order, the
                \* accounts as the feeder visits them; opening, STARTING_BALANCE
  MaxRetries    \* SEED_RETRIES: attempts per account

ASSUME SeedAssumption ==
  /\ \A c \in Setups : c.order \in Seq(Accounts \cup Unmapped) /\ c.opening \in Openings
  /\ Unmapped \cap Accounts = {}
  /\ MaxRetries \in Nat \ {0}

VARIABLES
  setup,      \* the settings of this run
  feeder,     \* the feeder's loop: where it is, and its loop variable
  jobs,       \* the channel from the feeder to the workers
  results,    \* the channel to main
  worker,     \* worker[w]: the job of w, the attempt, and where it stands
  requests,   \* HTTP requests sent, served, or answered and not yet received
  tally       \* main: its counters, the verdict on each account, whether it ended

toolVars == <<feeder, jobs, results, worker, tally>>
seedVars == <<shardVars, toolVars, setup, requests>>

NoJob == [pc |-> "idle", account |-> NoAccount, attempt |-> 0]

Capacity == 2 * Cardinality(setup.pool)

Seeded == {setup.order[i] : i \in DOMAIN setup.order}

-----------------------------------------------------------------------------
(***************************************************************************)
(* The feeder: one job per account, or at once the result "no shard"; then *)
(* close(jobs), wait for the workers, close(results).                      *)
(***************************************************************************)
Feed ==
  LET a == setup.order[feeder.i] IN
  /\ feeder.pc = "feed" /\ feeder.i <= Len(setup.order)
  /\ \/ /\ a \in Unmapped /\ Len(results) < Capacity
        /\ results' = Append(results, [account |-> a, err |-> TRUE])
        /\ UNCHANGED jobs
     \/ /\ a \notin Unmapped /\ Len(jobs) < Capacity
        /\ jobs' = Append(jobs, a)
        /\ UNCHANGED results
  /\ feeder' = [feeder EXCEPT !.i = @ + 1]
  /\ UNCHANGED <<shardVars, worker, requests, tally, setup>>

CloseJobs ==
  /\ feeder.pc = "feed" /\ feeder.i > Len(setup.order)
  /\ feeder' = [feeder EXCEPT !.pc = "closedJobs"]
  /\ UNCHANGED <<shardVars, jobs, results, worker, requests, tally, setup>>

M_CloseResultsAtOnce ==
  /\ feeder.pc = "closedJobs"
  /\ feeder' = [feeder EXCEPT !.pc = "closedResults"]
  /\ UNCHANGED <<shardVars, jobs, results, worker, requests, tally, setup>>

CloseResults ==
  /\ feeder.pc = "closedJobs"
  /\ \A w \in setup.pool : worker[w].pc = "gone"
  /\ feeder' = [feeder EXCEPT !.pc = "closedResults"]
  /\ UNCHANGED <<shardVars, jobs, results, worker, requests, tally, setup>>

\* main: the loop over the results, until the channel is closed and empty.
CountResult ==
  LET r == Head(results) IN
  /\ ~tally.ended /\ results # <<>>
  /\ results' = Tail(results)
  /\ tally' = [tally EXCEPT !.fail = IF r.err THEN @ + 1 ELSE @,
                            !.success = IF r.err THEN @ ELSE @ + 1,
                            !.verdict[r.account] = IF r.err THEN "failed" ELSE "ok"]
  /\ UNCHANGED <<shardVars, feeder, jobs, worker, requests, setup>>

EndMain ==
  /\ ~tally.ended /\ results = <<>> /\ feeder.pc = "closedResults"
  /\ tally' = [tally EXCEPT !.ended = TRUE]
  /\ UNCHANGED <<shardVars, feeder, jobs, results, worker, requests, setup>>

-----------------------------------------------------------------------------
(***************************************************************************)
(* A worker: seedAccount, at most MaxRetries attempts.  The tool's         *)
(* requests are well-formed, so every answer is a success or a 500, which  *)
(* shouldRetry like a broken connection.                                   *)
(***************************************************************************)
Sent(a, n) == [account |-> a, attempt |-> n, live |-> TRUE, pc |-> "sent"]

TakeJob(w) ==
  /\ worker[w].pc = "idle" /\ jobs # <<>>
  /\ jobs' = Tail(jobs)
  /\ worker' = [worker EXCEPT ![w] = [pc |-> "wait", account |-> Head(jobs), attempt |-> 1]]
  /\ requests' = requests \cup {Sent(Head(jobs), 1)}
  /\ UNCHANGED <<shardVars, feeder, results, tally, setup>>

LeaveLoop(w) ==
  /\ worker[w].pc = "idle" /\ jobs = <<>> /\ feeder.pc # "feed"
  /\ worker' = [worker EXCEPT ![w].pc = "gone"]
  /\ UNCHANGED <<shardVars, feeder, jobs, results, requests, tally, setup>>

\* The attempt of w failed; others are the requests but that of w.  What is
\* sent after the backoff may as well be longer on its way.
M_AttemptFailsEarly(w, others) ==
  LET n == worker[w].attempt + 1 IN
  \/ /\ n < MaxRetries
     /\ worker' = [worker EXCEPT ![w].attempt = n]
     /\ requests' = others \cup {Sent(worker[w].account, n)}
  \/ /\ n >= MaxRetries
     /\ worker' = [worker EXCEPT ![w].pc = "failed"]
     /\ requests' = others

AttemptFails(w, others) ==
  LET n == worker[w].attempt + 1 IN
  \/ /\ n <= MaxRetries
     /\ worker' = [worker EXCEPT ![w].attempt = n]
     /\ requests' = others \cup {Sent(worker[w].account, n)}
  \/ /\ n > MaxRetries
     /\ worker' = [worker EXCEPT ![w].pc = "failed"]
     /\ requests' = others

Mine(w, r) ==
  /\ worker[w].pc = "wait" /\ r.live
  /\ r.account = worker[w].account /\ r.attempt = worker[w].attempt

Receive(w, r) ==
  /\ Mine(w, r)
  /\ \/ /\ r.pc = "ok"
        /\ worker' = [worker EXCEPT ![w].pc = "ok"]
        /\ requests' = requests \ {r}
     \/ r.pc = "error" /\ AttemptFails(w, requests \ {r})
  /\ UNCHANGED <<shardVars, feeder, jobs, results, tally, setup>>

\* The client's timeout: the request stays on its way, or its handler runs on.
TimesOut(w, r) ==
  /\ Mine(w, r) /\ r.pc \in {"sent", "running"}
  /\ Spend("timeout")
  /\ AttemptFails(w, (requests \ {r}) \cup {[r EXCEPT !.live = FALSE]})
  /\ UNCHANGED <<wal, sealed, ledger, seen, up, creating, calls, feeder, jobs, results, tally, setup>>

Report(w) ==
  /\ worker[w].pc \in {"ok", "failed"} /\ Len(results) < Capacity
  /\ results' = Append(results, [account |-> worker[w].account, err |-> worker[w].pc = "failed"])
  /\ worker' = [worker EXCEPT ![w] = NoJob]
  /\ UNCHANGED <<shardVars, feeder, jobs, requests, tally, setup>>

-----------------------------------------------------------------------------
(***************************************************************************)
(* handleCreateAccount.  It waits for createMu, which CreateAccountWithWAL *)
(* holds from the look at the ledger to its return.  An account that       *)
(* exists is a success.                                                    *)
(***************************************************************************)
Answer(r, x) ==
  requests' = (requests \ {r}) \cup (IF r.live THEN {[r EXCEPT !.pc = x]} ELSE {})

M_CreateExistingUnlocked(r) ==
  /\ r.pc = "sent" /\ up[Home[r.account]]
  /\ AccountExists(ledger[Home[r.account]], r.account)
  /\ Answer(r, "ok")
  /\ UNCHANGED <<shardVars, toolVars, setup>>

CreateExisting(r) ==
  /\ r.pc = "sent" /\ up[Home[r.account]] /\ creating[Home[r.account]] = NoCreate
  /\ AccountExists(ledger[Home[r.account]], r.account)
  /\ Answer(r, "ok")
  /\ UNCHANGED <<shardVars, toolVars, setup>>

CreateBegins(r) ==
  /\ r.pc = "sent"
  /\ \/ BeginCreate(r.account, setup.opening) /\ requests' = (requests \ {r}) \cup {[r EXCEPT !.pc = "running"]}
     \/ BeginCreateFails(r.account, setup.opening) /\ Answer(r, "error")
  /\ UNCHANGED <<toolVars, setup>>

\* MarkCommitted's error is the handler's: neither a sealed log nor a failed
\* flush or fsync gives 201.
CreateGoesOn(r) ==
  LET s == Home[r.account] IN
  /\ r.pc = "running"
  /\ \/ CreateLedger(s) /\ UNCHANGED requests
     \/ LogCreated(s) /\ Answer(r, IF ~sealed[s] /\ budget' = budget THEN "ok" ELSE "error")
     \/ LogCreateAborted(s) /\ Answer(r, "error")
  /\ UNCHANGED <<toolVars, setup>>

\* A request that finds no process: the connection is refused.
RequestRefused(r) ==
  /\ r.pc = "sent" /\ ~up[Home[r.account]]
  /\ Answer(r, "error")
  /\ UNCHANGED <<shardVars, toolVars, setup>>

ShardCrash(s) ==
  LET cut == {r \in requests : r.pc = "running" /\ Home[r.account] = s} IN
  /\ Crash(s)
  /\ requests' = (requests \ cut) \cup {[r EXCEPT !.pc = "error"] : r \in {q \in cut : q.live}}
  /\ UNCHANGED <<toolVars, setup>>

ShardRestart(s) == Restart(s) /\ UNCHANGED <<toolVars, requests, setup>>

-----------------------------------------------------------------------------
SeedInit ==
  /\ ShardInit
  /\ setup \in Setups
  /\ feeder = [pc |-> "feed", i |-> 1]
  /\ jobs = <<>> /\ results = <<>>
  /\ worker = [w \in setup.pool |-> NoJob]
  /\ requests = {}
  /\ tally = [success |-> 0, fail |-> 0, verdict |-> [a \in Seeded |-> "none"], ended |-> FALSE]

Tool ==
  \/ Feed \/ CloseJobs \/ CloseResults \/ CountResult \/ EndMain
  \/ \E w \in setup.pool : TakeJob(w) \/ LeaveLoop(w) \/ Report(w)
  \/ \E w \in setup.pool, r \in requests : Receive(w, r)

Serve == \E r \in requests : CreateExisting(r) \/ CreateBegins(r) \/ CreateGoesOn(r) \/ RequestRefused(r)

SeedNext ==
  \/ Tool \/ Serve
  \/ \E w \in setup.pool, r \in requests : TimesOut(w, r)
  \/ \E s \in Shards : ShardCrash(s) \/ ShardRestart(s)

(***************************************************************************)
(* Goroutines that can run are run, and a shard that is up serves what     *)
(* reached it.  A shard need not be restarted.                             *)
(***************************************************************************)
Fairness == WF_seedVars(Tool \/ Serve)

SeedSpec == SeedInit /\ [][SeedNext]_seedVars /\ Fairness

-----------------------------------------------------------------------------
Happened(kinds) == \E k \in kinds : budget[k] < Faults[k]

Spent(k) == Faults[k] - budget[k]

\* the balances of the shards when the tool starts
Before == [s \in Shards |-> Recover(InitialLog[s])]

\* The balance an account that is seeded should have: the one it had before,
\* or the starting balance.
Promised(a) ==
  IF a \in DOMAIN Before[Home[a]] THEN Before[Home[a]][a] ELSE setup.opening

\* An account that the tool counts as seeded exists with its balance on a
\* running shard, whatever retries, late handlers and restarts came in
\* between: CreateAccountWithWAL answers when COMMITTED is in the log, and
\* "exists" only outside the creation.  After a failed flush the account
\* exists in memory only, and the retry gets "exists".
SeededStays ==
  ~Happened({"flush"}) =>
    \A a \in Accounts \cap Seeded :
      tally.verdict[a] = "ok" /\ up[Home[a]] =>
        a \in DOMAIN ledger[Home[a]] /\ ledger[Home[a]][a] = Promised(a)

\* seedAccount gives an account up only after MaxRetries attempts that each
\* met a fault of its own; a shard that is down or whose log is sealed fails
\* every attempt, and so does a negative starting balance.
RetriesAbsorbFaults ==
  ~Happened({"crash", "flush"}) /\ setup.opening >= 0 =>
    \A a \in Accounts \cap Seeded :
      tally.verdict[a] = "failed" => Spent("timeout") + Spent("fsync") >= MaxRetries

\* The tool ends, and has counted every account exactly once: nobody waits
\* forever on a full or an open channel, and results is closed after the last
\* result.
SeedEnds ==
  <>[](/\ tally.ended
       /\ tally.success + tally.fail = Len(setup.order)
       /\ \A a \in Seeded : tally.verdict[a] # "none")
=============================================================================
