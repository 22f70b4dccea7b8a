---------------------------- MODULE MemoryProofs ----------------------------
(***************************************************************************)
(* What the shards of TwoPC keep in memory while they run: seenTxns        *)
(* follows the handlers, a decided transfer stays decided, no balance goes *)
(* negative, and a vote is backed by a PREPARED transfer until the         *)
(* coordinator decides.                                                    *)
(***************************************************************************)
EXTENDS TwoPCProofs

-----------------------------------------------------------------------------
\* A row leads from stage to stage, and changes the state of a transaction
\* only under its mutex.
LEMMA RowStage ==
  ASSUME NEW c, NEW l \in RunningAt \cup Answers, NEW v, NEW w, NEW ok \in BOOLEAN,
         State(c) \in TxnStates, c.kind \in KindsAt(c.pc), Stage(c), Row(c, l, v, w, ok)
  PROVE  /\ StageAt(c.kind, l, v)
         /\ v # State(c) => Running(c) \/ Acquire(c)
         /\ (v # State(c) /\ State(c) \in {"COMMITTED", "ABORTED"}) =>
              c.kind = "ABORT" /\ State(c) = "COMMITTED"
<1> USE DEF Row, ExecuteRow, PrepareRow, CommitRow, AbortRow, NetworkRow, Stage, StageAt,
           RunningAt, TxnStates, Running
<1>1. CASE NetworkRow(c, l, v, w) BY <1>1
<1>2. CASE c.kind = "EXECUTE" /\ ExecuteRow(c, l, v, w, ok) BY <1>2
<1>3. CASE c.kind = "PREPARE" /\ PrepareRow(c, l, v, w, ok) BY <1>3
<1>4. CASE c.kind = "COMMIT" /\ CommitRow(c, l, v, w, ok) BY <1>4
<1>5. CASE c.kind = "ABORT" /\ AbortRow(c, l, v, w, ok) BY <1>5 DEF KindsAt
<1> QED BY <1>1, <1>2, <1>3, <1>4, <1>5

\* A handler step takes its own call from stage to stage; no other running
\* handler of the shard works on the same transaction (txnMutex).
LEMMA HandlerStage ==
  ASSUME TypeInv, StageInv, NEW c \in calls, Handle(c) \/ Network(c)
  PROVE  /\ StageInv'
         /\ \A s \in Shards, t \in Transfers :
              (seen[s][t] \in {"COMMITTED", "ABORTED"} /\ seen'[s][t] # seen[s][t]) =>
                s = c.shard /\ t = Txn(c) /\ c.kind = "ABORT" /\ seen[s][t] = "COMMITTED"
<1>1. PICK l \in RunningAt \cup Answers, v \in TxnStates, w \in Entries, ok \in BOOLEAN :
             Takes(c, l, v, w, ok)
  BY HandlerRow, Zenon DEF SomeRow
<1>2. /\ c \in Calls /\ c.shard \in Shards /\ Txn(c) \in Transfers /\ Txn(c) \in TxnIDs
      /\ State(c) \in TxnStates
  BY CallFacts DEF TypeInv
<1>3. /\ StageAt(c.kind, l, v)
      /\ v # State(c) => Running(c) \/ Acquire(c)
      /\ (v # State(c) /\ State(c) \in {"COMMITTED", "ABORTED"}) =>
           c.kind = "ABORT" /\ State(c) = "COMMITTED"
  BY <1>1, <1>2, RowStage DEF Takes, StageInv, TypeInv, WellFormed
<1>4. UNCHANGED up BY LedgerSteps DEF TypeInv
<1>5. \A s \in Shards, t \in Transfers :
        seen'[s][t] = IF s = c.shard /\ t = Txn(c) THEN v ELSE seen[s][t]
  <2>1. seen \in [Shards -> [TxnIDs -> TxnStates]] BY DEF TypeInv, TypeOK, ShardTypeOK
  <2>2. Transfers \subseteq TxnIDs BY DEF TxnIDs
  <2>3. seen' = [seen EXCEPT ![c.shard][Txn(c)] = v] BY <1>1 DEF Takes
  <2> QED BY <2>1, <2>2, <2>3, <1>2
<1> DEFINE nc == [c EXCEPT !.pc = l]
<1>6. nc.pc = l /\ nc.kind = c.kind /\ nc.shard = c.shard /\ Txn(nc) = Txn(c) BY <1>2 DEF Calls, Txn
<1>7. calls' \subseteq (calls \ {c}) \cup {nc} BY <1>1 DEF Takes, MovesTo
<1> HIDE DEF nc
<1>8. (v # State(c) \/ l \in RunningAt) => up[c.shard]
  <2>1. l \in RunningAt => Running(c) \/ Acquire(c)
    <3>1. \E k \in RunningAt \cup Answers, u \in TxnStates : HandlerEffect(c, k, u) BY HandlerStep
    <3> QED BY <1>1, <1>2, <3>1 DEF Takes, Row, ExecuteRow, PrepareRow, CommitRow, AbortRow, NetworkRow,
                   RunningAt, Running
  <2> QED BY <2>1, <1>3 DEF StageInv, Stage, Acquire
<1>9. ASSUME NEW d \in calls'
      PROVE  Stage(d)'
  <2>1. CASE d = nc
    <3>1. seen'[d.shard][Txn(d)] = v BY <2>1, <1>2, <1>5, <1>6
    <3> QED BY <3>1, <2>1, <1>3, <1>4, <1>6, <1>8 DEF Stage, State, Running, Txn
  <2>2. CASE d \in calls /\ d # c
    <3>1. d.shard \in Shards /\ Txn(d) \in Transfers BY <2>2, CallFacts DEF TypeInv
    <3>2. CASE Running(d)
      <4>1. State(d) = seen'[d.shard][Txn(d)]
        <5>1. CASE d.shard = c.shard /\ Txn(d) = Txn(c)
          <6>1. v = State(c) BY <5>1, <2>2, <3>2, <1>3 DEF TypeInv, Mutex, Acquire
          <6> QED BY <6>1, <5>1, <1>2, <1>5 DEF State
        <5>2. CASE ~(d.shard = c.shard /\ Txn(d) = Txn(c)) BY <5>2, <3>1, <1>5 DEF State
        <5> QED BY <5>1, <5>2
      <4> QED BY <4>1, <2>2, <1>4 DEF StageInv, Stage, State, Running, Txn
    <3>3. CASE ~Running(d) BY <3>3 DEF Stage, StageAt, Running, RunningAt
    <3> QED BY <3>2, <3>3
  <2> QED BY <2>1, <2>2, <1>7
<1>10. ASSUME NEW s \in Shards, NEW t \in Transfers, ~up'[s] PROVE seen'[s][t] = "NONE"
  <2>1. ~up[s] /\ seen[s][t] = "NONE" BY <1>4, <1>10 DEF StageInv
  <2>2. s = c.shard => v = State(c) BY <2>1, <1>8
  <2> QED BY <2>1, <2>2, <1>5 DEF State
<1>11. StageInv' BY <1>9, <1>10 DEF StageInv
<1>12. ASSUME NEW s \in Shards, NEW t \in Transfers,
              seen[s][t] \in {"COMMITTED", "ABORTED"}, seen'[s][t] # seen[s][t]
       PROVE  s = c.shard /\ t = Txn(c) /\ c.kind = "ABORT" /\ seen[s][t] = "COMMITTED"
  <2>1. s = c.shard /\ t = Txn(c) BY <1>5, <1>12
  <2>2. State(c) = seen[s][t] /\ v # State(c) BY <2>1, <1>5, <1>12 DEF State
  <2> QED BY <2>1, <2>2, <1>3, <1>12
<1> QED BY <1>11, <1>12

\* Every step keeps the stages, and only an AbortTransaction that finds a
\* COMMITTED transaction takes it out of a final state on a running shard.
LEMMA StageStep ==
  ASSUME TypeInv, StageInv, [Next]_vars
  PROVE  /\ StageInv'
         /\ \A s \in Shards, t \in Transfers :
              (seen[s][t] \in {"COMMITTED", "ABORTED"} /\ up'[s] /\ seen'[s][t] # seen[s][t]) =>
                \E c \in calls : /\ Handle(c) \/ Network(c)
                                 /\ s = c.shard /\ t = Txn(c) /\ c.kind = "ABORT" /\ seen[s][t] = "COMMITTED"
<1> DEFINE Final == \A s \in Shards, t \in Transfers :
              (seen[s][t] \in {"COMMITTED", "ABORTED"} /\ up'[s] /\ seen'[s][t] # seen[s][t]) =>
                \E c \in calls : /\ Handle(c) \/ Network(c)
                                 /\ s = c.shard /\ t = Txn(c) /\ c.kind = "ABORT" /\ seen[s][t] = "COMMITTED"
<1>1. ASSUME NEW c \in calls, Handle(c) \/ Network(c) PROVE StageInv' /\ Final
  <2>1. /\ StageInv'
        /\ \A s \in Shards, t \in Transfers :
             (seen[s][t] \in {"COMMITTED", "ABORTED"} /\ seen'[s][t] # seen[s][t]) =>
               s = c.shard /\ t = Txn(c) /\ c.kind = "ABORT" /\ seen[s][t] = "COMMITTED"
    BY <1>1, HandlerStage, Zenon
  <2> QED BY <1>1, <2>1
<1>f. (\A s \in Shards, t \in Transfers : seen'[s][t] = seen[s][t]) => Final OBVIOUS
<1>t. \A c \in calls : c.shard \in Shards /\ Txn(c) \in Transfers BY CallFacts DEF TypeInv
<1>2. ASSUME Create PROVE StageInv' /\ Final
  <2>1. CreateEffect BY <1>2, CreateStep
  <2>2. /\ UNCHANGED <<up, calls>>
        /\ \A s \in Shards, t \in Transfers : seen'[s][t] = seen[s][t]
    BY <2>1 DEF CreateEffect
  <2>3. ASSUME NEW d \in calls PROVE Stage(d)'
    <3>1. seen'[d.shard][Txn(d)] = State(d) BY <2>2, <1>t DEF State
    <3>2. Stage(d) BY DEF StageInv
    <3> QED BY <3>1, <3>2, <2>2 DEF Stage, State, Running, Txn
  <2>4. StageInv' BY <2>2, <2>3 DEF StageInv
  <2> QED BY <2>2, <2>4, <1>f
<1>3. ASSUME NEW r \in Shards, Crash(r) PROVE StageInv' /\ Final
  <2>1. \A s \in Shards, t \in Transfers :
          seen'[s][t] = IF s = r THEN "NONE" ELSE seen[s][t]
    BY <1>3 DEF Crash, TypeInv, TypeOK, ShardTypeOK, TxnIDs
  <2>2. up' = [up EXCEPT ![r] = FALSE] /\ up \in [Shards -> BOOLEAN]
    BY <1>3 DEF Crash, TypeInv, TypeOK, ShardTypeOK
  <2>3. \A d \in calls' : Running(d) => d \in calls /\ d.shard # r
    <3>1. \A c \in Calls : ~Running([c EXCEPT !.pc = "error"]) BY DEF Calls, Running, RunningAt
    <3> QED BY <1>3, <3>1 DEF Crash, TypeInv, TypeOK, ShardTypeOK
  <2>4. ASSUME NEW d \in calls' PROVE Stage(d)'
    <3>1. CASE ~Running(d) BY <3>1 DEF Stage, StageAt, Running, RunningAt
    <3>2. CASE Running(d)
      <4>1. d \in calls /\ d.shard # r /\ d.shard \in Shards /\ Txn(d) \in Transfers
        BY <3>2, <2>3, <1>t
      <4>2. seen'[d.shard][Txn(d)] = State(d) /\ up'[d.shard] = up[d.shard]
        BY <4>1, <2>1, <2>2 DEF State
      <4>3. Stage(d) BY <4>1 DEF StageInv
      <4> QED BY <4>2, <4>3 DEF Stage, State, Running, Txn
    <3> QED BY <3>1, <3>2
  <2>5. StageInv' BY <2>1, <2>2, <2>4 DEF StageInv
  <2> QED BY <2>1, <2>2, <2>5
<1>4. ASSUME NEW r \in Shards, Restart(r) PROVE StageInv' /\ Final
  <2>1. \A s \in Shards, t \in Transfers : s # r => seen'[s][t] = seen[s][t]
    BY <1>4 DEF Restart, TypeInv, TypeOK, ShardTypeOK, TxnIDs
  <2>2. /\ up' = [up EXCEPT ![r] = TRUE] /\ up \in [Shards -> BOOLEAN] /\ ~up[r]
        /\ calls' = calls
    BY <1>4 DEF Restart, TypeInv, TypeOK, ShardTypeOK
  <2>3. ASSUME NEW d \in calls' PROVE Stage(d)'
    <3>1. CASE ~Running(d) BY <3>1 DEF Stage, StageAt, Running, RunningAt
    <3>2. CASE Running(d)
      <4>1. d \in calls /\ d.shard # r /\ d.shard \in Shards /\ Txn(d) \in Transfers
        BY <3>2, <2>2, <1>t DEF StageInv, Stage
      <4>2. seen'[d.shard][Txn(d)] = State(d) /\ up'[d.shard] = up[d.shard]
        BY <4>1, <2>1, <2>2 DEF State
      <4>3. Stage(d) BY <4>1 DEF StageInv
      <4> QED BY <4>2, <4>3 DEF Stage, State, Running, Txn
    <3> QED BY <3>1, <3>2
  <2>4. StageInv' BY <2>1, <2>2, <2>3 DEF StageInv
  <2>5. \A t \in Transfers : seen[r][t] = "NONE" BY <2>2 DEF StageInv
  <2> QED BY <2>1, <2>4, <2>5
<1>5. ASSUME CoordEffect PROVE StageInv' /\ Final
  <2>1. UNCHANGED <<seen, up>> BY <1>5 DEF CoordEffect, localFrame
  <2>2. PICK D, G, R : CallsEffect(D, G, R) BY <1>5 DEF CoordEffect
  <2>3. ASSUME NEW d \in calls' PROVE Stage(d)'
    <3>1. CASE ~Running(d) BY <3>1 DEF Stage, StageAt, Running, RunningAt
    <3>2. CASE Running(d)
      <4>1. PICK c \in calls : d.sub = c.sub /\ d.kind = c.kind /\ d.shard = c.shard /\ d.pc = c.pc
        <5>1. d \notin R BY <3>2, <2>2 DEF CallsEffect, Running, RunningAt
        <5>2. \/ d \in calls /\ d \notin D \cup G
              \/ \E c \in G : /\ d = [c EXCEPT !.live = FALSE] /\ c \in calls /\ c \in Calls
                              /\ d \in Calls /\ d.live = FALSE
                              /\ d.sub = c.sub /\ d.kind = c.kind /\ d.op = c.op
                              /\ d.shard = c.shard /\ d.pc = c.pc
              \/ d \in R
          BY <2>2, CallsOrigin, Zenon
        <5> QED BY <5>1, <5>2, Zenon
      <4>2. Stage(c) BY DEF StageInv
      <4> QED BY <4>1, <4>2, <2>1 DEF Stage, State, Running, Txn
    <3> QED BY <3>1, <3>2
  <2> QED BY <2>1, <2>3, <1>f DEF StageInv
<1>6. ASSUME UNCHANGED vars PROVE StageInv' /\ Final
  <2>1. UNCHANGED <<seen, up, calls>> BY <1>6 DEF vars, shardVars
  <2>2. StageInv' BY <2>1 DEF StageInv, Stage, State, Running, Txn
  <2> QED BY <2>1, <2>2, <1>f
<1> HIDE DEF Final
<1>7. StageInv' /\ Final
  BY <1>1, <1>2, <1>3, <1>4, <1>5, <1>6, CoordSteps DEF Next, ShardNext, Idle
<1> QED BY <1>7 DEF Final

\* The stages hold at the start: every shard is up and serves nothing yet.
LEMMA StageInit == Init => StageInv
BY DEF Init, ShardInit, StageInv

-----------------------------------------------------------------------------
(***************************************************************************)
(* Balances.  The arithmetic of ledger.go is that of int64.                *)
(***************************************************************************)

\* Within int64 the arithmetic is exact.
LEMMA Int64Exact == ASSUME NEW n \in Nat, n <= MaxInt64 PROVE Int64(n) = n
<1> DEFINE M == MaxInt64 + 1
<1>1. M \in Nat /\ M > 0 /\ n < M BY MaxInt64Assumption
<1>2. (n + M) % (2 * M) = n + M BY <1>1
<1> QED BY <1>1, <1>2, MaxInt64Assumption DEF Int64

\* The checks of ledger.go keep the balances of a shard from going negative.
LEMMA MoveSolvent ==
  ASSUME TypeOK, Headroom, NEW c \in calls, LedgerMove(c), NEW s \in Shards, Solvent(ledger[s])
  PROVE  Solvent(ledger'[s])
<1> DEFINE l == ledger[c.shard]
           n == Amount[Txn(c)]
<1>1. /\ c.shard \in Shards /\ DOMAIN ledger = Shards /\ n \in Int
      /\ \A a \in DOMAIN l : l[a] + n <= MaxInt64
  BY CallFacts, ConstantsAssumption, Zenon DEF TypeOK, ShardTypeOK, Headroom
<1>2. \A k : SetLedger(c, k) => ledger'[c.shard] = k /\ \A r \in Shards : r # c.shard => ledger'[r] = ledger[r]
  BY <1>1 DEF SetLedger
<1> SUFFICES ASSUME s = c.shard, ~UNCHANGED ledger PROVE Solvent(ledger'[s])
  BY <1>2, Zenon DEF LedgerMove
<1> HIDE DEF l, n
<1>3. Solvent(l) BY DEF l
<1>d. ASSUME NEW a, ValidateDebit(l, a, n) PROVE Solvent(ApplyDebit(l, a, n))
  <2>1. a \in DOMAIN l /\ l[a] \in Nat /\ n > 0 /\ l[a] - n \in Nat /\ l[a] - n <= MaxInt64
    BY <1>1, <1>3, <1>d, MaxInt64Assumption DEF ValidateDebit, AccountExists, Solvent
  <2>2. Int64(l[a] - n) \in Nat BY <2>1, Int64Exact
  <2> QED BY <1>3, <2>2 DEF ApplyDebit, Solvent
<1>c. ASSUME NEW k, Solvent(k), NEW a, n > 0, a \in DOMAIN k => k[a] + n <= MaxInt64
      PROVE  Solvent(ApplyCredit(k, a, n))
  <2>1. a \in DOMAIN k => Int64(k[a] + n) \in Nat BY <1>1, <1>c, Int64Exact DEF Solvent
  <2> QED BY <1>c, <2>1 DEF ApplyCredit, Solvent
<1>4. CASE SetLedger(c, l) BY <1>4, <1>2, <1>3
<1>5. ASSUME NEW a \in Accounts, ValidateDebit(l, a, n), SetLedger(c, ApplyDebit(l, a, n))
      PROVE  Solvent(ledger'[s])
  BY <1>5, <1>2, <1>d
<1>6. ASSUME NEW a \in Accounts, CanApplyCredit(l, a, n), SetLedger(c, ApplyCredit(l, a, n))
      PROVE  Solvent(ledger'[s])
  BY <1>6, <1>1, <1>2, <1>3, <1>c DEF CanApplyCredit, l
<1>7. ASSUME NEW a \in Accounts, NEW b \in Accounts,
             CanApplyTransfer(l, a, b, n), SetLedger(c, ApplyTransfer(l, a, b, n))
      PROVE  Solvent(ledger'[s])
  <2> DEFINE k == ApplyDebit(l, a, n)
  <2>1. Solvent(k) /\ n > 0 BY <1>7, <1>d DEF CanApplyTransfer, ValidateDebit
  <2>2. b \in DOMAIN k => k[b] + n <= MaxInt64
    <3>1. DOMAIN k = DOMAIN l /\ \A e \in DOMAIN l : e # a => k[e] = l[e] BY DEF ApplyDebit
    <3>2. a \in DOMAIN l /\ l[a] \in Nat /\ l[a] - n \in Nat /\ l[a] - n <= MaxInt64
      <4>1. a \in DOMAIN l /\ n > 0 /\ l[a] >= n
        BY <1>7, Zenon DEF CanApplyTransfer, ValidateDebit, AccountExists
      <4>2. l[a] \in Nat BY <4>1, <1>3 DEF Solvent
      <4>3. l[a] + n <= MaxInt64 BY <4>1, <1>1 DEF l
      <4> QED BY <4>1, <4>2, <4>3, <1>1, MaxInt64Assumption
    <3>3. k[a] = l[a] - n BY <3>2, Int64Exact DEF ApplyDebit
    <3>4. CASE b = a BY <3>2, <3>3, <3>4, <1>1, <2>1, MaxInt64Assumption
    <3>5. CASE b \in DOMAIN l /\ b # a BY <3>1, <3>5, <1>1
    <3> HIDE DEF k
    <3> QED BY <3>1, <3>4, <3>5
  <2> HIDE DEF k
  <2>3. Solvent(ApplyCredit(k, b, n)) BY <2>1, <2>2, <1>c
  <2> QED BY <1>7, <1>2, <2>3 DEF ApplyTransfer, k
<1> QED BY <1>4, <1>5, <1>6, <1>7, Zenon DEF LedgerMove, l, n

\* CreateAccount refuses a negative opening balance.
LEMMA CreateSolvent ==
  ASSUME TypeOK, Create, NEW s \in Shards, Solvent(ledger[s])
  PROVE  Solvent(ledger'[s])
<1>1. UNCHANGED ledger \/ \E r \in Shards : CreateLedger(r)
  BY Zenon DEF Create, BeginCreate, BeginCreateFails, LogCreated, LogCreateAborted
<1>2. ASSUME NEW r \in Shards, CreateLedger(r) PROVE Solvent(ledger'[s])
  <2>1. DOMAIN ledger = Shards /\ creating[r].amount \in Int
    BY DEF TypeOK, ShardTypeOK, CreateStates
  <2>2. CASE UNCHANGED ledger BY <2>2
  <2>3. CASE /\ CanCreateAccount(ledger[r], creating[r].account, creating[r].amount)
             /\ ledger' = [ledger EXCEPT ![r] = SetBalance(@, creating[r].account, creating[r].amount)]
    BY <2>1, <2>3 DEF CanCreateAccount, SetBalance, Solvent
  <2> QED BY <1>2, <2>2, <2>3 DEF CreateLedger
<1> QED BY <1>1, <1>2

\* Every step of a system whose shards never died keeps the balances.
LEMMA FundsStep == TypeInv /\ BudgetInv /\ Headroom /\ FundsInv /\ [Next]_vars => FundsInv'
<1> SUFFICES ASSUME TypeInv, BudgetInv, Headroom, FundsInv, [Next]_vars, Spared({"crash"})',
                    NEW s \in Shards
             PROVE  up'[s] /\ Solvent(ledger'[s])
  BY DEF FundsInv
<1>1. Spared({"crash"})
  <2>1. Charged BY StepCharged
  <2> QED BY <2>1, SparedBefore DEF FaultKinds
<1>2. \A r \in Shards : up[r] /\ Solvent(ledger[r]) BY <1>1 DEF FundsInv
<1>3. ASSUME NEW c \in calls, Handle(c) \/ Network(c) PROVE up'[s] /\ Solvent(ledger'[s])
  BY <1>2, <1>3, LedgerSteps, MoveSolvent DEF TypeInv
<1>4. ASSUME Create PROVE up'[s] /\ Solvent(ledger'[s])
  BY <1>2, <1>4, CreateStep, CreateSolvent DEF TypeInv, CreateEffect
<1>5. ASSUME NEW r \in Shards, Crash(r) PROVE FALSE
  <2>1. budget' = [budget EXCEPT !["crash"] = @ - 1] BY <1>5 DEF Crash, Spend
  <2>2. budget \in [FaultKinds -> Nat] /\ "crash" \in FaultKinds
    BY DEF TypeInv, TypeOK, ShardTypeOK, FaultKinds
  <2> QED BY <2>1, <2>2, <1>1 DEF Spared
<1>6. ASSUME NEW r \in Shards, Restart(r) PROVE FALSE BY <1>6, <1>2 DEF Restart
<1>7. ASSUME CoordEffect PROVE up'[s] /\ Solvent(ledger'[s])
  BY <1>7, <1>2 DEF CoordEffect, localFrame
<1>8. ASSUME UNCHANGED vars PROVE up'[s] /\ Solvent(ledger'[s])
  BY <1>8, <1>2 DEF vars, shardVars
<1> QED BY <1>3, <1>4, <1>5, <1>6, <1>7, <1>8, CoordSteps, Zenon DEF Next, ShardNext, Idle

-----------------------------------------------------------------------------
\* The cell of seenTxns a side of a cross-shard transfer writes is its own.
LEMMA CellOwner ==
  ASSUME SingleSubmission, TypeInv, NEW c \in calls, NEW x \in Submissions, Cross(x), Txn(c) = TxnOf[x]
  PROVE  /\ c.sub = x /\ c.op \in Sides /\ c.kind # "EXECUTE"
         /\ c.shard = ShardOf(x, c.op) /\ State(c) = StateOf(x, c.op)
         /\ \A op \in Sides : c.shard = ShardOf(x, op) => op = c.op
<1>1. c.sub \in Submissions /\ c \in Calls /\ WellFormed(c) BY CallFacts DEF TypeInv
<1>2. c.sub = x BY <1>1 DEF SingleSubmission, Txn
<1>3. c.op \in Sides /\ c.kind # "EXECUTE" /\ c.shard = ShardOf(x, c.op)
  BY <1>1, <1>2 DEF WellFormed, Calls, Sides
<1> QED BY <1>2, <1>3, Zenon DEF Sides, ShardOf, SourceShard, DestShard, Cross, State, StateOf, SideState, Txn

\* What the rows of PrepareTransaction say about PREPARED.
LEMMA RowBallot ==
  ASSUME NEW c, NEW l \in RunningAt \cup Answers, NEW v, NEW w, NEW ok \in BOOLEAN,
         State(c) \in TxnStates, c.kind \in KindsAt(c.pc), Stage(c), Row(c, l, v, w, ok)
  PROVE  /\ v = "PREPARED" => State(c) = "PREPARED" \/ c.pc = "logPrepared"
         /\ (State(c) = "PREPARED" /\ v # "PREPARED") => c.kind \in {"COMMIT", "ABORT"}
         /\ (c.kind = "PREPARE" /\ l = "ok") => v = "PREPARED" \/ State(c) = "COMMITTED"
         /\ l \in {"reserve", "logPrepared"} => c.kind = "PREPARE" /\ c.pc \in {"sent", "reserve"}
         /\ l = "reserve" => c.pc = "sent"
         /\ l = "applyCredit" => c.op = "CREDIT"
<1> USE DEF Row, ExecuteRow, PrepareRow, CommitRow, AbortRow, NetworkRow, Stage, StageAt,
           RunningAt, TxnStates, Running
<1>1. CASE NetworkRow(c, l, v, w) BY <1>1, Zenon
<1>2. CASE c.kind = "EXECUTE" /\ ExecuteRow(c, l, v, w, ok) BY <1>2, Zenon
<1>3. CASE c.kind = "PREPARE" /\ PrepareRow(c, l, v, w, ok) BY <1>3, Zenon
<1>4. CASE c.kind = "COMMIT" /\ CommitRow(c, l, v, w, ok) BY <1>4, Zenon
<1>5. CASE c.kind = "ABORT" /\ AbortRow(c, l, v, w, ok) BY <1>5 DEF KindsAt
<1> QED BY <1>1, <1>2, <1>3, <1>4, <1>5, Zenon

\* A handler that moves on to reserve funds or to log its vote has just
\* checked that its side can be carried out (PrepareTransaction).
LEMMA PrepareValid ==
  ASSUME TypeInv, NEW c \in calls, Handle(c) \/ Network(c), c.kind = "PREPARE", c.pc = "sent",
         NEW d \in calls', d \notin calls, d.pc \in {"reserve", "logPrepared"}
  PROVE  Known(Txn(c), c.op) /\ (d.pc = "reserve" <=> c.op = "DEBIT")
<1>1. c \in Calls /\ WellFormed(c) BY CallFacts DEF TypeInv
<1>2. \A k : [c EXCEPT !.pc = k].pc = k BY <1>1 DEF Calls
<1>3. PrepareSeen(c) \/ BeginPrepare(c) \/ Refused(c) \/ Lost(c)
  BY Zenon DEF Handle, Network, ExecuteSeen, BeginExecute, LogDebit, LogCredit, ReplicationFails,
     ApplyTransferStep, Reserve, LogPrepared, CommitSeen, BeginCommit, ApplyCreditStep, LogCommitted,
     AbortSeen, BeginAbort, MarkAborted, LogAborted
<1>4. \A k : Return(c, k) => d = [c EXCEPT !.pc = k] BY Zenon DEF Return
<1>5. CASE PrepareSeen(c) \/ Refused(c) \/ Lost(c)
  <2>1. Return(c, "ok") \/ Return(c, "error") BY <1>5 DEF PrepareSeen, Refused, Lost
  <2>2. d = [c EXCEPT !.pc = "ok"] \/ d = [c EXCEPT !.pc = "error"] BY <2>1, <1>4, Zenon
  <2>3. d.pc = "ok" \/ d.pc = "error" BY <2>2, <1>2, Zenon
  <2> QED BY <2>3
<1>6. CASE BeginPrepare(c)
  <2> DEFINE valid == IF c.op = "DEBIT"
                        THEN ValidateDebit(ledger[c.shard], AccountOf(c), Amount[Txn(c)])
                        ELSE AccountExists(ledger[c.shard], AccountOf(c))
  <2>1. Goto(c, IF ~valid THEN "logAborted" ELSE IF c.op = "DEBIT" THEN "reserve" ELSE "logPrepared")
    BY <1>6, Zenon DEF BeginPrepare
  <2>2. \A k : Goto(c, k) => d = [c EXCEPT !.pc = k] BY Zenon DEF Goto
  <2>3. valid
    <3> SUFFICES ASSUME ~valid PROVE FALSE OBVIOUS
    <3>1. Goto(c, "logAborted") BY <2>1
    <3>2. d.pc = "logAborted" BY <3>1, <2>2, <1>2, Zenon
    <3> QED BY <3>2
  <2>4. c.op \in Sides BY <1>1 DEF WellFormed, Calls, Sides
  <2>5. Known(Txn(c), c.op)
    BY Zenon, <2>3, <2>4, <1>1 DEF Known, Sides, WellFormed, ShardOf, SourceShard, DestShard, Txn, AccountOf,
                          ValidateDebit, AccountExists
  <2>6. Goto(c, IF c.op = "DEBIT" THEN "reserve" ELSE "logPrepared") BY <2>1, <2>3
  <2>7. d.pc = IF c.op = "DEBIT" THEN "reserve" ELSE "logPrepared" BY <2>6, <2>2, <1>2, Zenon
  <2> QED BY <2>5, <2>7
<1> QED BY <1>3, <1>5, <1>6

\* Handlers keep what the votes stand for.
LEMMA HandlerBacked ==
  ASSUME SingleSubmission, TypeInv, ProtocolInv, StageInv, Ballot, Vouched,
         NEW c \in calls, Handle(c) \/ Network(c), UNCHANGED coordVars
  PROVE  Ballot' /\ Vouched'
<1>1. PICK l \in RunningAt \cup Answers, v \in TxnStates, w \in Entries, ok \in BOOLEAN :
             Takes(c, l, v, w, ok)
  BY HandlerRow, Zenon DEF SomeRow
<1>2. /\ c \in Calls /\ c.sub \in Submissions /\ c.shard \in Shards
      /\ Txn(c) \in Transfers /\ Txn(c) \in TxnIDs /\ State(c) \in TxnStates
      /\ WellFormed(c) /\ Stage(c)
  BY CallFacts, Zenon DEF TypeInv, StageInv
<1>3. /\ v = "PREPARED" => State(c) = "PREPARED" \/ c.pc = "logPrepared"
      /\ (State(c) = "PREPARED" /\ v # "PREPARED") => c.kind \in {"COMMIT", "ABORT"}
      /\ (c.kind = "PREPARE" /\ l = "ok") => v = "PREPARED" \/ State(c) = "COMMITTED"
      /\ l \in {"reserve", "logPrepared"} => c.kind = "PREPARE" /\ c.pc \in {"sent", "reserve"}
      /\ l = "reserve" => c.pc = "sent"
      /\ l = "applyCredit" => c.op = "CREDIT"
  BY <1>1, <1>2, RowBallot DEF Takes, WellFormed
<1>4. \A s \in Shards, t \in Transfers :
        seen'[s][t] = IF s = c.shard /\ t = Txn(c) THEN v ELSE seen[s][t]
  <2>1. seen \in [Shards -> [TxnIDs -> TxnStates]] BY DEF TypeInv, TypeOK, ShardTypeOK
  <2>2. Transfers \subseteq TxnIDs BY DEF TxnIDs
  <2>3. seen' = [seen EXCEPT ![c.shard][Txn(c)] = v] BY <1>1 DEF Takes
  <2> QED BY <2>1, <2>2, <2>3, <1>2
<1> DEFINE nc == [c EXCEPT !.pc = l]
<1>5. /\ nc.pc = l /\ nc.kind = c.kind /\ nc.shard = c.shard /\ nc.sub = c.sub /\ nc.op = c.op
      /\ nc.live = c.live /\ Txn(nc) = Txn(c)
  BY <1>2 DEF Calls, Txn
<1>6. calls' \subseteq (calls \ {c}) \cup {nc} BY <1>1 DEF Takes, MovesTo
<1> HIDE DEF nc
<1>7. UNCHANGED <<phase, decision, leg>> BY DEF coordVars
<1>8. \A t \in Transfers : \A op : Known(t, op) => Known(t, op)'
  <2>1. \A s \in Shards : DOMAIN ledger'[s] = DOMAIN ledger[s] BY HandlerStep, Zenon DEF HandlerFrame
  <2> QED BY <2>1, ConstantsAssumption, Zenon DEF Known
<1>9. \A x \in Submissions : \A op : ShardOf(x, op) \in Shards /\ TxnOf[x] \in Transfers
  BY ConstantsAssumption, SubmissionTxn DEF ShardOf, SourceShard, DestShard
<1>10. ASSUME NEW x \in Submissions, NEW op \in Sides, Cross(x)
       PROVE  IF Txn(c) = TxnOf[x] /\ c.op = op
                THEN StateOf(x, op) = State(c) /\ StateOf(x, op)' = v
                ELSE StateOf(x, op)' = StateOf(x, op)
  <2>1. /\ StateOf(x, op)' = seen'[ShardOf(x, op)][TxnOf[x]]
        /\ StateOf(x, op) = seen[ShardOf(x, op)][TxnOf[x]]
    BY Zenon DEF StateOf, SideState, ShardOf, SourceShard, DestShard
  <2>2. StateOf(x, op)' = IF ShardOf(x, op) = c.shard /\ TxnOf[x] = Txn(c) THEN v ELSE StateOf(x, op)
    BY <2>1, <1>4, <1>9, Zenon
  <2>3. Txn(c) = TxnOf[x] => (c.shard = ShardOf(x, op) <=> c.op = op) /\ (c.op = op => State(c) = StateOf(x, op))
    BY <1>10, CellOwner
  <2> QED BY <2>2, <2>3
<1>11. ASSUME NEW x \in Submissions, NEW op \in Sides, Cross(x), decision[x] = "none", StateOf(x, op) = "PREPARED"
       PROVE  StateOf(x, op)' = "PREPARED"
  <2>1. CASE Txn(c) = TxnOf[x] /\ c.op = op
    <3>1. c.sub = x BY <2>1, <1>11, CellOwner, Zenon
    <3>2. c.kind \notin {"COMMIT", "ABORT"} BY <3>1, <1>11, Zenon DEF ProtocolInv, CallInv
    <3> QED BY <3>2, <2>1, <1>3, <1>10, <1>11
  <2> QED BY <2>1, <1>10, <1>11
<1>12. ASSUME NEW d \in calls', d.kind = "PREPARE", d.live, d.pc = "ok" PROVE State(d)' = "PREPARED"
  <2>1. CASE d = nc
    <3>1. State(d)' = v BY <2>1, <1>2, <1>4, <1>5, Zenon DEF State, Txn
    <3>2. phase[c.sub] = "preparing" /\ decision[c.sub] = "none" /\ Cross(c.sub)
      BY <2>1, <1>2, <1>5, <1>12, Zenon DEF ProtocolInv, CallInv, PhaseInv, WellFormed
    <3>3. State(c) # "COMMITTED" BY <3>2, <1>2, Zenon DEF ProtocolInv, VerdictInv, State, Txn
    <3> QED BY <3>1, <3>3, <2>1, <1>3, <1>5, <1>12
  <2>2. CASE d \in calls
    <3>1. phase[d.sub] = "preparing" /\ decision[d.sub] = "none" /\ Cross(d.sub) /\ State(d) = "PREPARED"
          /\ d.sub \in Submissions
      BY <2>2, <1>12, CallFacts, Zenon DEF ProtocolInv, CallInv, PhaseInv, WellFormed, TypeInv, Ballot
    <3>2. State(d) = StateOf(d.sub, d.op) /\ d.op \in Sides /\ d.shard = ShardOf(d.sub, d.op)
      BY <2>2, <3>1, CellOwner, Zenon DEF Txn
    <3>3. StateOf(d.sub, d.op)' = "PREPARED" BY <3>1, <3>2, <1>11, Zenon
    <3> QED BY <3>2, <3>3, Zenon DEF State, StateOf, SideState, Txn, ShardOf, SourceShard, DestShard
  <2> QED BY <2>1, <2>2, <1>6
<1>13. ASSUME NEW x \in Submissions, NEW op \in Sides, phase'[x] = "preparing", leg'[x][op] = "prepared"
       PROVE  StateOf(x, op)' = "PREPARED"
  <2>1. StateOf(x, op) = "PREPARED" /\ decision[x] = "none" /\ Cross(x)
    BY <1>7, <1>13 DEF Ballot, ProtocolInv, PhaseInv, TypeInv, RoutedInv
  <2> QED BY <2>1, <1>11
<1>14. ASSUME NEW d \in calls'
       PROVE  /\ d.pc \in {"reserve", "logPrepared"} => Known(Txn(d), d.op)'
              /\ d.pc = "reserve" => d.op = "DEBIT"
              /\ d.pc = "applyCredit" => d.op = "CREDIT"
  <2>1. CASE d \in calls
    <3>1. Txn(d) \in Transfers /\ Txn(d)' = Txn(d) BY <2>1, CallFacts, Zenon DEF TypeInv, Txn
    <3> QED BY <2>1, <3>1, <1>8 DEF Vouched
  <2>2. CASE d \notin calls
    <3>1. d = nc BY <2>2, <1>6
    <3>2. ASSUME d.pc \in {"reserve", "logPrepared"}
          PROVE  Known(Txn(c), c.op) /\ (d.pc = "reserve" => c.op = "DEBIT")
      BY <3>1, <3>2, <2>2, <1>3, <1>5, <1>6, PrepareValid, Zenon DEF Vouched
    <3>3. d.pc \in {"reserve", "logPrepared"} => Known(Txn(d), d.op)' BY <3>1, <3>2, <1>2, <1>5, <1>8, Zenon DEF Txn
    <3> QED BY <3>1, <3>2, <3>3, <1>3, <1>5
  <2> QED BY <2>1, <2>2
<1>15. ASSUME NEW t \in CrossTransfers, NEW op \in Sides, SideState(t, op)' = "PREPARED" PROVE Known(t, op)'
  <2>t. t \in Transfers BY DEF CrossTransfers
  <2> SUFFICES Known(t, op) BY <2>t, <1>8
  <2>1. CASE SideState(t, op) = "PREPARED" BY <2>1 DEF Vouched
  <2>2. CASE SideState(t, op) # "PREPARED"
    <3>1. t = Txn(c)
      <4>1. Home[IF op = "CREDIT" THEN Destination[t] ELSE Source[t]] \in Shards BY <2>t, ConstantsAssumption
      <4> QED BY <4>1, <2>t, <2>2, <1>4, <1>15 DEF SideState
    <3>2. Cross(c.sub) /\ TxnOf[c.sub] = t
      BY <3>1 DEF Txn, Cross, CrossTransfers, CrossTransfer, SourceShard, DestShard
    <3>3. c.op = op /\ v = "PREPARED" /\ State(c) # "PREPARED"
      BY <3>1, <3>2, <2>2, <1>2, <1>10, <1>15, Zenon DEF StateOf
    <3>4. c.pc = "logPrepared" BY <3>3, <1>3
    <3> QED BY <3>1, <3>3, <3>4 DEF Vouched
  <2> QED BY <2>1, <2>2
<1>16. Ballot' BY <1>12, <1>13 DEF Ballot
<1>17. ASSUME NEW x \in Submissions, NEW op \in Sides, Cross(x), decision'[x] = "COMMIT" PROVE Known(TxnOf[x], op)'
  BY <1>7, <1>8, <1>9, <1>17, Zenon DEF Vouched
<1>18. Vouched' BY <1>14, <1>15, <1>17, Zenon DEF Vouched, Cross, SourceShard, DestShard
<1> QED BY <1>16, <1>18

\* While no shard has died, none dies in a step that uses up no crash, and
\* none can be restarted.
LEMMA NoCrash ==
  ASSUME TypeInv, FundsInv, Spared({"crash"}), Spared({"crash"})', NEW s \in Shards, Crash(s) \/ Restart(s)
  PROVE  FALSE
<1>1. CASE Crash(s)
  <2>1. budget' = [budget EXCEPT !["crash"] = @ - 1] BY <1>1 DEF Crash, Spend
  <2>2. budget \in [FaultKinds -> Nat] /\ "crash" \in FaultKinds
    BY DEF TypeInv, TypeOK, ShardTypeOK, FaultKinds
  <2> QED BY <2>1, <2>2 DEF Spared
<1>2. CASE Restart(s) BY <1>2, Zenon DEF Restart, FundsInv
<1> QED BY <1>1, <1>2

\* An account creation closes no account.
LEMMA CreateDomain ==
  ASSUME TypeOK, Create, NEW s \in Shards
  PROVE  DOMAIN ledger[s] \subseteq DOMAIN ledger'[s]
<1>1. UNCHANGED ledger \/ \E r \in Shards : CreateLedger(r)
  BY Zenon DEF Create, BeginCreate, BeginCreateFails, LogCreated, LogCreateAborted
<1>2. ASSUME NEW r \in Shards, CreateLedger(r) PROVE DOMAIN ledger[s] \subseteq DOMAIN ledger'[s]
  BY <1>2 DEF CreateLedger, SetBalance, TypeOK, ShardTypeOK
<1> QED BY <1>1, <1>2

\* So does it keep what the votes stand for.
LEMMA CreateBacked ==
  ASSUME TypeInv, Ballot, Vouched, Create, UNCHANGED coordVars
  PROVE  Ballot' /\ Vouched'
<1>1. UNCHANGED <<calls, phase, decision, leg>> BY CreateStep DEF CreateEffect, coordVars
<1>2. \A s \in Shards, t \in Transfers : seen'[s][t] = seen[s][t] BY CreateStep DEF CreateEffect
<1>3. \A t \in Transfers : \A op : Known(t, op) => Known(t, op)'
  BY CreateDomain, ConstantsAssumption DEF Known, TypeInv
<1>4. \A t \in Transfers : \A op : SideState(t, op)' = SideState(t, op)
  BY <1>2, ConstantsAssumption, Zenon DEF SideState
<1>5. \A c \in calls : State(c)' = State(c) /\ Txn(c)' = Txn(c) /\ Txn(c) \in Transfers
  BY <1>2, CallFacts, Zenon DEF State, Txn, TypeInv
<1>6. Ballot' BY <1>1, <1>4, <1>5, SubmissionTxn DEF Ballot, StateOf
<1>7. Vouched'
  BY <1>1, <1>3, <1>4, <1>5, SubmissionTxn, Zenon DEF Vouched, Cross, SourceShard, DestShard, CrossTransfers
<1> QED BY <1>6, <1>7

\* The coordinator decides COMMIT on votes only.
LEMMA CoordBacked ==
  ASSUME TypeInv, ProtocolInv, Ballot, Vouched, CoordKeeps, CoordEffect
  PROVE  Ballot' /\ Vouched'
<1>1. UNCHANGED <<ledger, seen>> BY DEF CoordEffect, localFrame
<1>2. /\ \A t, op : SideState(t, op)' = SideState(t, op) /\ Known(t, op)' = Known(t, op)
      /\ \A x, op : StateOf(x, op)' = StateOf(x, op) /\ Cross(x)' = Cross(x)
  BY <1>1, Zenon DEF StateOf, SideState, SourceShard, DestShard, Known, Cross
<1>3. \A c : State(c)' = State(c) /\ Txn(c)' = Txn(c) BY <1>1 DEF State, Txn
<1>4. ASSUME NEW x \in Submissions, NEW op \in Sides,
             decision'[x] = "COMMIT" \/ (phase'[x] = "preparing" /\ leg'[x][op] = "prepared")
      PROVE  decision[x] = "COMMIT" \/ StateOf(x, op) = "PREPARED"
  <2>1. CASE phase[x] = "preparing" /\ leg[x][op] = "prepared" BY <2>1 DEF Ballot
  <2>2. ASSUME NEW c \in calls, c.sub = x, c.op = op, c.kind = "PREPARE", c.pc = "ok", c.live
        PROVE  StateOf(x, op) = "PREPARED"
    <3>1. State(c) = "PREPARED" /\ c.shard = ShardOf(x, op) BY <2>2 DEF Ballot, TypeInv, WellFormed
    <3> QED BY <3>1, <2>2, Zenon DEF State, StateOf, SideState, Txn, ShardOf, SourceShard, DestShard
  <2>3. \/ decision[x] = "COMMIT"
        \/ phase[x] = "preparing" /\ leg[x][op] = "prepared"
        \/ \E c \in calls : c.sub = x /\ c.op = op /\ c.kind = "PREPARE" /\ c.pc = "ok" /\ c.live
    <3>1. \A y \in Submissions : \A o \in Sides :
            (decision'[y] = "COMMIT" \/ (phase'[y] = "preparing" /\ leg'[y][o] = "prepared")) =>
              \/ decision[y] = "COMMIT"
              \/ phase[y] = "preparing" /\ leg[y][o] = "prepared"
              \/ \E c \in calls : c.sub = y /\ c.op = o /\ c.kind = "PREPARE" /\ c.pc = "ok" /\ c.live
      BY Zenon DEF CoordKeeps
    <3> QED BY ONLY <3>1, <1>4
  <2> QED BY <2>1, <2>2, <2>3, Zenon
<1>5. Ballot'
  <2>1. ASSUME NEW d \in calls', d.kind = "PREPARE", d.live, d.pc = "ok" PROVE State(d)' = "PREPARED"
    <3>1. d \in calls BY <2>1, Zenon DEF CoordKeeps
    <3> QED BY <3>1, <2>1, <1>3 DEF Ballot
  <2>2. ASSUME NEW x \in Submissions, NEW op \in Sides, phase'[x] = "preparing", leg'[x][op] = "prepared"
        PROVE  StateOf(x, op)' = "PREPARED"
    <3>1. decision'[x] = "none" BY <2>2, Zenon DEF CoordKeeps, PhaseInv
    <3>2. decision[x] # "COMMIT" BY <3>1, Zenon DEF CoordKeeps
    <3> QED BY <3>2, <2>2, <1>2, <1>4, Zenon
  <2> QED BY <2>1, <2>2, Zenon DEF Ballot
<1>6. ASSUME NEW d \in calls'
      PROVE  /\ d.pc \in {"reserve", "logPrepared"} => Known(Txn(d), d.op)'
             /\ d.pc = "reserve" => d.op = "DEBIT"
             /\ d.pc = "applyCredit" => d.op = "CREDIT"
  <2>1. PICK D, G, R : CallsEffect(D, G, R) BY DEF CoordEffect
  <2>2. CASE d \in R BY <2>1, <2>2 DEF CallsEffect
  <2>o. \/ d \in calls /\ d \notin D \cup G
        \/ \E c \in G : /\ d = [c EXCEPT !.live = FALSE] /\ c \in calls /\ c \in Calls
                        /\ d \in Calls /\ d.live = FALSE
                        /\ d.sub = c.sub /\ d.kind = c.kind /\ d.op = c.op
                        /\ d.shard = c.shard /\ d.pc = c.pc
        \/ d \in R
    BY <2>1, CallsOrigin, Zenon
  <2>3. ASSUME NEW c \in calls, d.sub = c.sub, d.op = c.op, d.pc = c.pc
        PROVE  /\ d.pc \in {"reserve", "logPrepared"} => Known(Txn(d), d.op)'
               /\ d.pc = "reserve" => d.op = "DEBIT"
               /\ d.pc = "applyCredit" => d.op = "CREDIT"
    BY <2>3, <1>2, Zenon DEF Vouched, Txn
  <2>4. d \in R \/ \E c \in calls : d.sub = c.sub /\ d.op = c.op /\ d.pc = c.pc BY <2>o, Zenon
  <2> QED BY <2>2, <2>3, <2>4
<1>7. ASSUME NEW x \in Submissions, NEW op \in Sides, Cross(x), decision'[x] = "COMMIT"
      PROVE  Known(TxnOf[x], op)'
  <2>1. TxnOf[x] \in CrossTransfers
    BY <1>7, SubmissionTxn DEF Cross, CrossTransfers, CrossTransfer, SourceShard, DestShard
  <2> QED BY <2>1, <1>2, <1>4, <1>7, Zenon DEF Vouched, StateOf
<1>8. \A t \in CrossTransfers : \A op \in Sides : SideState(t, op)' = "PREPARED" => Known(t, op)'
  BY <1>2, Zenon DEF Vouched
<1> QED BY <1>2, <1>5, <1>6, <1>7, <1>8, Zenon DEF Vouched

\* At the start nobody has voted.
LEMMA BackedInit == Init => BackedInv
<1> SUFFICES ASSUME Init PROVE Ballot /\ Vouched BY DEF BackedInv
<1>1. \A t \in Transfers, s \in Shards : \A op : ~Logged(wal[s], op, t)
  BY InitialLogAssumption, ConstantsAssumption, Zenon DEF Init, ShardInit, Logged
<1>2. ASSUME NEW t \in Transfers, NEW op PROVE SideState(t, op) # "PREPARED"
  <2> DEFINE s == Home[IF op = "CREDIT" THEN Destination[t] ELSE Source[t]]
  <2>1. s \in Shards /\ t \in TxnIDs BY ConstantsAssumption DEF TxnIDs
  <2>2. SideState(t, op) = RecoveredState(wal[s], t) BY <2>1, Zenon DEF Init, ShardInit, SideState
  <2> QED BY <2>1, <2>2, <1>1, RecoveredStates
<1>3. calls = {} /\ \A x \in Submissions : decision[x] = "none" /\ \A op \in Sides : leg[x][op] # "prepared"
  BY DEF Init, ShardInit
<1> QED BY <1>2, <1>3, Zenon DEF Ballot, Vouched, CrossTransfers

-----------------------------------------------------------------------------
\* The router sends the request there, and nothing moves it.
LEMMA AtHomeStep == TypeInv /\ AtHome /\ [Next]_vars => AtHome'
<1> SUFFICES ASSUME TypeInv, AtHome, [Next]_vars PROVE AtHome' OBVIOUS
<1>1. creating \in [Shards -> CreateStates] BY DEF TypeInv, TypeOK, ShardTypeOK
<1>2. CASE UNCHANGED creating BY <1>2 DEF AtHome
<1>3. ASSUME NEW s \in Shards, CreateDone(s) PROVE AtHome'
  BY <1>1, <1>3 DEF AtHome, CreateDone, NoCreate
<1>4. ASSUME NEW s \in Shards, NEW l, CreatePC(s, l), creating[s].pc # "idle" PROVE AtHome'
  BY <1>1, <1>4 DEF AtHome, CreatePC, CreateStates
<1>5. ASSUME NEW a \in Accounts, NEW n, BeginCreate(a, n) PROVE AtHome'
  BY <1>1, <1>5, ConstantsAssumption DEF AtHome, BeginCreate
<1>6. ASSUME Create PROVE AtHome'
  BY <1>2, <1>3, <1>4, <1>5, <1>6, Zenon DEF Create, BeginCreateFails, CreateLedger, LogCreated, LogCreateAborted
<1>7. ASSUME NEW s \in Shards, Crash(s) \/ Restart(s) PROVE AtHome'
  BY <1>2, <1>3, <1>7 DEF Crash, Restart, CreateDone
<1>8. ASSUME NEW c \in calls, Handle(c) \/ Network(c) PROVE UNCHANGED creating
  BY <1>8, HandlerStep DEF HandlerFrame
<1>9. CoordEffect \/ UNCHANGED vars => UNCHANGED creating BY DEF CoordEffect, localFrame, vars, shardVars
<1> QED BY <1>2, <1>6, <1>7, <1>8, <1>9, CoordSteps, Zenon DEF Next, ShardNext, Idle

-----------------------------------------------------------------------------
\* What a shard's memory and a client's answer say about the shard's log.

WritesSpared == Spared({"flush", "fsync"})

\* no other submission carries the transfer of x
Lone(x) == \A y \in Submissions \ {x} : TxnOf[y] # TxnOf[x]

Sure(x) == WritesSpared \/ Lone(x)

\* executeSingleShard sends one request
SingleInv ==
  /\ \A c \in calls : c.kind = "EXECUTE" => phase[c.sub] # "new"
  /\ \A c, d \in calls : (c.kind = "EXECUTE" /\ d.kind = "EXECUTE" /\ c.sub = d.sub) => c = d

Both(s, t) == Logged(wal[s], "DEBIT", t) /\ Logged(wal[s], "CREDIT", t)

\* the operations are logged before the transfer is applied and committed
PathInv ==
  \A c \in calls : c.kind = "EXECUTE" =>
    /\ c.pc = "logCredit" => Logged(wal[c.shard], "DEBIT", Txn(c))
    /\ c.pc \in {"applyTransfer", "logCommitted"} => Both(c.shard, Txn(c))

CommittedInv ==
  \A s \in Shards, t \in Transfers :
    (~CrossTransfer(t) /\ Logged(wal[s], "COMMITTED", t)) => Both(s, t)

\* memory runs ahead of the log only when a write failed
MemoryInv ==
  WritesSpared => \A s \in Shards, t \in Transfers :
    (~CrossTransfer(t) /\ seen[s][t] = "COMMITTED") => Logged(wal[s], "COMMITTED", t)

\* before its only submission is served, no shard knows the transfer
Unserved(x) == phase[x] = "new" \/ \E c \in calls : c.kind = "EXECUTE" /\ c.sub = x /\ c.pc = "sent"

FreshInv ==
  \A x \in Submissions : (~Cross(x) /\ Lone(x) /\ Unserved(x)) =>
    \A s \in Shards : /\ seen[s][TxnOf[x]] = "NONE"
                      /\ \A op : ~Logged(wal[s], op, TxnOf[x])

AnswerInv ==
  /\ \A c \in calls : (c.kind = "EXECUTE" /\ c.pc = "COMMITTED" /\ Sure(c.sub)) =>
       Logged(wal[c.shard], "COMMITTED", Txn(c))
  /\ \A x \in Submissions : (~Cross(x) /\ result[x] = "COMMITTED" /\ Sure(x)) =>
       Logged(wal[SourceShard(x)], "COMMITTED", TxnOf[x])

DurableInv == PathInv /\ CommittedInv /\ MemoryInv /\ FreshInv /\ AnswerInv

DInv == BudgetInv /\ SingleInv /\ DurableInv

-----------------------------------------------------------------------------
\* What the rows of ExecuteSingleShard say about the log: the operations
\* come before the transfer, and COMMITTED is answered either after its
\* record or from seenTxns.
LEMMA RowFacts ==
  ASSUME NEW c, NEW l \in RunningAt \cup Answers, NEW v, NEW w, NEW ok \in BOOLEAN,
         State(c) \in TxnStates, Row(c, l, v, w, ok)
  PROVE  /\ c.pc \in {"sent"} \cup RunningAt
         /\ l = "logCredit" => w = "DEBIT" /\ ok
         /\ l = "applyTransfer" => c.pc = "logCredit" /\ w = "CREDIT" /\ ok
         /\ (c.kind = "EXECUTE" /\ l = "logCommitted") => c.pc = "applyTransfer"
         /\ w = "COMMITTED" => c.pc = "logCommitted"
         /\ v = "COMMITTED" => State(c) = "COMMITTED" \/ w = "COMMITTED"
         /\ (c.kind = "EXECUTE" /\ l = "COMMITTED") =>
              (w = "COMMITTED" /\ ok) \/ (c.pc = "sent" /\ State(c) = "COMMITTED")
<1> USE DEF Row, ExecuteRow, PrepareRow, CommitRow, AbortRow, NetworkRow
<1>1. CASE NetworkRow(c, l, v, w) BY <1>1, Zenon
<1>2. CASE c.kind = "EXECUTE" /\ ExecuteRow(c, l, v, w, ok) BY <1>2, Zenon DEF RunningAt, TxnStates
<1>3. CASE c.kind = "PREPARE" /\ PrepareRow(c, l, v, w, ok) BY <1>3, Zenon DEF RunningAt
<1>4. CASE c.kind = "COMMIT" /\ CommitRow(c, l, v, w, ok) BY <1>4, Zenon DEF RunningAt
<1>5. CASE c.kind = "ABORT" /\ AbortRow(c, l, v, w, ok) BY <1>5, Zenon DEF RunningAt
<1> QED BY <1>1, <1>2, <1>3, <1>4, <1>5, Zenon

\* A row adds at most its own entry to its own shard's log.
LEMMA RowLogs ==
  ASSUME TypeOK, NEW c \in calls, NEW w \in Entries, NEW ok \in BOOLEAN, Writes(c, w, ok),
         NEW s \in Shards, NEW t, NEW op
  PROVE  /\ Logged(wal[s], op, t) => Logged(wal'[s], op, t)
         /\ Logged(wal'[s], op, t) => Logged(wal[s], op, t) \/ (s = c.shard /\ t = Txn(c) /\ op = w)
<1>1. CASE wal' = wal BY <1>1, Zenon
<1>2. CASE wal' # wal
  <2>1. PICK e \in WALEntries :
          e.op = w /\ e.txn = Txn(c) /\ wal' = [wal EXCEPT ![c.shard] = Append(@, e)]
    BY <1>2, WritesEffect
  <2>2. wal \in [Shards -> Seq(WALEntries)] BY DEF TypeOK, ShardTypeOK
  <2>3. CASE s = c.shard
    <3>1. wal'[s] = Append(wal[s], e) BY <2>1, <2>2, <2>3
    <3>2. Logged(wal'[s], op, t) <=> Logged(wal[s], op, t) \/ (e.op = op /\ e.txn = t)
      BY <3>1, <2>2, LoggedAppend
    <3> QED BY <3>2, <2>1, <2>3
  <2>4. CASE s # c.shard
    <3>1. wal'[s] = wal[s] BY <2>1, <2>2, <2>4
    <3> QED BY <3>1
  <2> QED BY <2>3, <2>4, Zenon
<1> QED BY <1>1, <1>2, Zenon

-----------------------------------------------------------------------------
(***************************************************************************)
(* Steps that log nothing about a transfer: they may forget or recover     *)
(* what a shard knows, end calls, and send a new submission's request.     *)
(***************************************************************************)
Quietly ==
  /\ \A s \in Shards, t \in Transfers :
       /\ \A op : Logged(wal'[s], op, t) <=> Logged(wal[s], op, t)
       /\ seen'[s][t] \in {seen[s][t], "NONE", RecoveredState(wal[s], t)}
  /\ WritesSpared' => WritesSpared
  /\ \A d \in calls' : d.kind = "EXECUTE" =>
       \/ d.pc = "error"
       \/ d.pc = "sent" /\ phase[d.sub] = "new"
       \/ \E c \in calls : /\ c.kind = "EXECUTE" /\ c.sub = d.sub
                           /\ c.shard = d.shard /\ c.pc = d.pc
  /\ \A x \in Submissions :
       /\ phase'[x] = "new" => phase[x] = "new"
       /\ result'[x] = "COMMITTED" =>
            \/ Cross(x) \/ result[x] = "COMMITTED"
            \/ \E c \in calls : c.kind = "EXECUTE" /\ c.sub = x /\ c.pc = "COMMITTED"

\* Such steps keep what the log, memory and answers say about each other.
LEMMA QuietlyDurable ==
  ASSUME TypeInv, TypeInv', DurableInv, Quietly
  PROVE  DurableInv'
<1>1. \A x \in Submissions : TxnOf[x] \in Transfers /\ SourceShard(x) \in Shards
  BY ConstantsAssumption DEF SourceShard
<1>2. \A c \in calls : c.sub \in Submissions /\ c.shard \in Shards /\ Txn(c) \in Transfers
  BY CallFacts DEF TypeInv
<1>3. \A c \in calls' : c.sub \in Submissions /\ c.shard \in Shards /\ Txn(c) \in Transfers
  BY ConstantsAssumption, Zenon DEF TypeInv, TypeOK, ShardTypeOK, Calls, Txn
<1>4. \A c, d : c.sub = d.sub => Txn(c) = Txn(d) BY DEF Txn
<1>5. \A s \in Shards, t \in Transfers : \A op : Logged(wal'[s], op, t) <=> Logged(wal[s], op, t)
  BY Zenon DEF Quietly
<1>6. \A s \in Shards, t \in Transfers : Both(s, t)' <=> Both(s, t) BY <1>5 DEF Both
<1>7. \A x : Sure(x)' => Sure(x) BY DEF Quietly, Sure, Lone
<1>8. \A d \in calls' : (d.kind = "EXECUTE" /\ d.pc \notin {"error", "sent"}) =>
        \E c \in calls : /\ c.kind = "EXECUTE" /\ c.sub = d.sub
                         /\ c.shard = d.shard /\ c.pc = d.pc
  BY DEF Quietly
<1>9. PathInv'
  <2> SUFFICES ASSUME NEW d \in calls', d.kind = "EXECUTE"
               PROVE  /\ d.pc = "logCredit" => Logged(wal'[d.shard], "DEBIT", Txn(d))
                      /\ d.pc \in {"applyTransfer", "logCommitted"} => Both(d.shard, Txn(d))'
    BY DEF PathInv, Both, Txn
  <2>1. ASSUME d.pc \in {"logCredit", "applyTransfer", "logCommitted"}
        PROVE  \E c \in calls : /\ c.kind = "EXECUTE" /\ c.shard = d.shard /\ c.pc = d.pc
                                /\ Txn(c) = Txn(d)
    BY <2>1, <1>8, <1>4
  <2>2. d.pc = "logCredit" => Logged(wal[d.shard], "DEBIT", Txn(d))
    BY <2>1 DEF DurableInv, PathInv
  <2>3. d.pc \in {"applyTransfer", "logCommitted"} => Both(d.shard, Txn(d))
    BY <2>1 DEF DurableInv, PathInv
  <2> QED BY <2>2, <2>3, <1>3, <1>5, <1>6, Zenon
<1>10. CommittedInv' BY <1>5, <1>6 DEF DurableInv, CommittedInv, CrossTransfer
<1>11. MemoryInv'
  <2> SUFFICES ASSUME WritesSpared', NEW s \in Shards, NEW t \in Transfers,
                      ~CrossTransfer(t), seen'[s][t] = "COMMITTED"
               PROVE  Logged(wal[s], "COMMITTED", t)
    BY <1>5, Zenon DEF MemoryInv, CrossTransfer
  <2>s. seen'[s][t] \in {seen[s][t], "NONE", RecoveredState(wal[s], t)} /\ seen'[s][t] = "COMMITTED"
    BY Zenon DEF Quietly
  <2>1. seen[s][t] = "COMMITTED" \/ RecoveredState(wal[s], t) = "COMMITTED" BY ONLY <2>s
  <2>2. WritesSpared BY Zenon DEF Quietly
  <2> QED BY <2>1, <2>2, RecoveredStates DEF DurableInv, MemoryInv
<1>12. FreshInv'
  <2> SUFFICES ASSUME NEW x \in Submissions, ~Cross(x), Lone(x), Unserved(x)', NEW s \in Shards
               PROVE  seen'[s][TxnOf[x]] = "NONE" /\ \A op : ~Logged(wal'[s], op, TxnOf[x])
    BY Zenon DEF FreshInv, Cross, SourceShard, DestShard, Lone
  <2>1. Unserved(x)
    <3>1. phase'[x] = "new" => phase[x] = "new" BY Zenon DEF Quietly
    <3>2. ASSUME NEW d \in calls', d.kind = "EXECUTE", d.sub = x, d.pc = "sent" PROVE Unserved(x)
      <4>d. \/ d.pc = "error"
            \/ d.pc = "sent" /\ phase[d.sub] = "new"
            \/ \E c \in calls : c.kind = "EXECUTE" /\ c.sub = d.sub /\ c.shard = d.shard /\ c.pc = d.pc
        BY ONLY Quietly, <3>2 DEF Quietly
      <4>1. phase[x] = "new" \/ \E c \in calls : c.kind = "EXECUTE" /\ c.sub = d.sub /\ c.pc = d.pc
        BY ONLY <4>d, <3>2
      <4> QED BY <4>1, <3>2, Zenon DEF Unserved
    <3> QED BY <3>1, <3>2, Zenon DEF Unserved
  <2>2. seen[s][TxnOf[x]] = "NONE" /\ \A op : ~Logged(wal[s], op, TxnOf[x])
    BY <2>1, Zenon DEF DurableInv, FreshInv
  <2>3. RecoveredState(wal[s], TxnOf[x]) = "NONE"
    BY <2>2 DEF RecoveredState, FinalState
  <2> QED BY <2>2, <2>3, <1>1, Zenon DEF Quietly
<1>13. AnswerInv'
  <2>1. ASSUME NEW d \in calls', d.kind = "EXECUTE", d.pc = "COMMITTED", Sure(d.sub)'
        PROVE  Logged(wal'[d.shard], "COMMITTED", Txn(d))
    <3>1. PICK c \in calls : /\ c.kind = "EXECUTE" /\ c.sub = d.sub
                             /\ c.shard = d.shard /\ c.pc = d.pc
      BY <2>1, <1>8
    <3>2. Logged(wal[c.shard], "COMMITTED", Txn(c)) BY <2>1, <3>1, <1>7, Zenon DEF DurableInv, AnswerInv
    <3> QED BY <3>1, <3>2, <1>2, <1>4, <1>5, Zenon
  <2>2. ASSUME NEW x \in Submissions, ~Cross(x), result'[x] = "COMMITTED", Sure(x)'
        PROVE  Logged(wal'[SourceShard(x)], "COMMITTED", TxnOf[x])
    <3>1. CASE result[x] = "COMMITTED"
      BY <2>2, <3>1, <1>1, <1>5, <1>7, Zenon DEF DurableInv, AnswerInv
    <3>2. CASE result[x] # "COMMITTED"
      <4>1. PICK c \in calls : c.kind = "EXECUTE" /\ c.sub = x /\ c.pc = "COMMITTED"
        BY <2>2, <3>2, Zenon DEF Quietly
      <4>2. Logged(wal[c.shard], "COMMITTED", Txn(c)) BY <2>2, <4>1, <1>7, Zenon DEF DurableInv, AnswerInv
      <4>3. c.shard = SourceShard(x) /\ Txn(c) = TxnOf[x]
        BY <4>1, Zenon DEF TypeInv, WellFormed, ShardOf, Txn
      <4> QED BY <4>2, <4>3, <1>1, <1>5, Zenon
    <3> QED BY <3>1, <3>2
  <2> QED BY <2>1, <2>2 DEF AnswerInv, Cross, SourceShard, DestShard, Txn
<1> QED BY <1>9, <1>10, <1>11, <1>12, <1>13 DEF DurableInv

-----------------------------------------------------------------------------
(***************************************************************************)
(* Steps of the handlers.                                                  *)
(***************************************************************************)

\* A handler step keeps what the log, memory and answers say about each
\* other (ExecuteSingleShard: log the operations, apply, log COMMITTED).
LEMMA HandlerDurable ==
  ASSUME TypeInv, DInv, NEW c \in calls, Handle(c) \/ Network(c), UNCHANGED coordVars, Charged
  PROVE  SingleInv' /\ DurableInv'
<1>1. PICK l \in RunningAt \cup Answers, v \in TxnStates, w \in Entries, ok \in BOOLEAN :
             Takes(c, l, v, w, ok)
  BY HandlerRow, Zenon DEF SomeRow
<1>2. /\ c \in Calls /\ c.sub \in Submissions /\ c.shard \in Shards
      /\ Txn(c) \in Transfers /\ Txn(c) \in TxnIDs /\ State(c) \in TxnStates
  BY CallFacts, Zenon DEF TypeInv
<1>3. /\ c.pc \in {"sent"} \cup RunningAt
      /\ l = "logCredit" => w = "DEBIT" /\ ok
      /\ l = "applyTransfer" => c.pc = "logCredit" /\ w = "CREDIT" /\ ok
      /\ (c.kind = "EXECUTE" /\ l = "logCommitted") => c.pc = "applyTransfer"
      /\ w = "COMMITTED" => c.pc = "logCommitted"
      /\ v = "COMMITTED" => State(c) = "COMMITTED" \/ w = "COMMITTED"
      /\ (c.kind = "EXECUTE" /\ l = "COMMITTED") =>
           (w = "COMMITTED" /\ ok) \/ (c.pc = "sent" /\ State(c) = "COMMITTED")
  BY <1>1, <1>2, RowFacts DEF Takes
<1>4. \A s \in Shards : \A t, op :
        /\ Logged(wal[s], op, t) => Logged(wal'[s], op, t)
        /\ Logged(wal'[s], op, t) => Logged(wal[s], op, t) \/ (s = c.shard /\ t = Txn(c) /\ op = w)
  BY <1>1, RowLogs DEF Takes, TypeInv
<1>5. (w # "none" /\ ok) => Logged(wal'[c.shard], w, Txn(c))
  BY <1>1, WritesEffect, Zenon DEF Takes, TypeInv
<1>6. \A s \in Shards, t \in Transfers : Both(s, t) => Both(s, t)' BY <1>4, Zenon DEF Both
<1> DEFINE nc == [c EXCEPT !.pc = l]
<1>7. /\ nc.pc = l /\ nc.sub = c.sub /\ nc.kind = c.kind /\ nc.shard = c.shard
      /\ Txn(nc) = Txn(c)
  BY <1>2 DEF Calls, Txn
<1>8. calls' \subseteq (calls \ {c}) \cup {nc} BY <1>1 DEF Takes, MovesTo
<1> HIDE DEF nc
<1>9. \A s \in Shards, t \in Transfers :
        seen'[s][t] = IF s = c.shard /\ t = Txn(c) THEN v ELSE seen[s][t]
  BY <1>1, <1>2, Zenon DEF Takes, TypeInv, TypeOK, ShardTypeOK, TxnIDs
<1>10. UNCHANGED <<phase, result>> BY DEF coordVars
<1>11. WritesSpared' => WritesSpared
  BY SparedBefore DEF WritesSpared, DInv, FaultKinds
<1>12. \A x : Sure(x)' => Sure(x) BY <1>11 DEF Sure, Lone
<1>13. CrossTransfer(Txn(c)) <=> c.kind # "EXECUTE"
  BY DEF TypeInv, WellFormed, Cross, SourceShard, DestShard, CrossTransfer, Txn
<1>14. \A d \in calls : d.sub \in Submissions /\ d.shard \in Shards /\ Txn(d) \in Transfers
  BY CallFacts, Zenon DEF TypeInv
<1>15. (w = "COMMITTED" /\ WritesSpared') => ok
  <2> SUFFICES ASSUME w = "COMMITTED", WritesSpared', ~ok PROVE FALSE OBVIOUS
  <2>1. PICK e \in WALEntries : WriteFails(c.shard, e) BY <1>1 DEF Takes, Writes
  <2>2. ~sealed[c.shard] BY <1>11, <1>2 DEF WritesSpared, Spared, DInv, BudgetInv
  <2>3. PICK k \in {"flush", "fsync"} : Spend(k) BY <2>1, <2>2 DEF WriteFails
  <2>4. budget'[k] = budget[k] BY <1>11, Zenon DEF WritesSpared, Spared
  <2> QED BY <2>3, <2>4 DEF Spend, FaultKinds, TypeInv, TypeOK, ShardTypeOK
<1>16. SingleInv' BY <1>7, <1>8, <1>10, Zenon DEF DInv, SingleInv
<1>17. PathInv'
  <2> SUFFICES ASSUME NEW d \in calls', d.kind = "EXECUTE"
               PROVE  /\ d.pc = "logCredit" => Logged(wal'[d.shard], "DEBIT", Txn(d))
                      /\ d.pc \in {"applyTransfer", "logCommitted"} => Both(d.shard, Txn(d))'
    BY Zenon DEF PathInv, Both, Txn
  <2>1. CASE d \in calls BY <2>1, <1>4, <1>6, <1>14, Zenon DEF DInv, DurableInv, PathInv
  <2>2. CASE d = nc
    <3>1. l = "logCredit" => Logged(wal'[c.shard], "DEBIT", Txn(c)) BY <1>3, <1>5
    <3>2. ASSUME l = "applyTransfer" PROVE Both(c.shard, Txn(c))'
      <4>1. Logged(wal[c.shard], "DEBIT", Txn(c))
        BY <3>2, <2>2, <1>3, <1>7, Zenon DEF DInv, DurableInv, PathInv
      <4>2. Logged(wal'[c.shard], "CREDIT", Txn(c)) BY <3>2, <1>3, <1>5, Zenon
      <4> QED BY <4>1, <4>2, <1>2, <1>4, Zenon DEF Both
    <3>3. ASSUME l = "logCommitted" PROVE Both(c.shard, Txn(c))'
      <4>1. Both(c.shard, Txn(c))
        BY <3>3, <2>2, <1>3, <1>7, Zenon DEF DInv, DurableInv, PathInv
      <4> QED BY <4>1, <1>2, <1>6
    <3> QED BY <2>2, <3>1, <3>2, <3>3, <1>7, Zenon
  <2> QED BY <2>1, <2>2, <1>8, Zenon
<1>18. CommittedInv'
  <2> SUFFICES ASSUME NEW s \in Shards, NEW t \in Transfers, ~CrossTransfer(t),
                      Logged(wal'[s], "COMMITTED", t)
               PROVE  Both(s, t)'
    BY Zenon DEF CommittedInv, CrossTransfer
  <2>1. CASE Logged(wal[s], "COMMITTED", t)
    BY <2>1, <1>6, Zenon DEF DInv, DurableInv, CommittedInv
  <2>2. CASE s = c.shard /\ t = Txn(c) /\ w = "COMMITTED"
    <3>1. Both(s, t) BY <2>2, <1>3, <1>13, Zenon DEF DInv, DurableInv, PathInv
    <3> QED BY <3>1, <1>6
  <2>3. Logged(wal[s], "COMMITTED", t) \/ (s = c.shard /\ t = Txn(c) /\ "COMMITTED" = w) BY <1>4, Zenon
  <2> QED BY <2>1, <2>2, <2>3, Zenon
<1>19. MemoryInv'
  <2> SUFFICES ASSUME WritesSpared', NEW s \in Shards, NEW t \in Transfers,
                      ~CrossTransfer(t), seen'[s][t] = "COMMITTED"
               PROVE  Logged(wal'[s], "COMMITTED", t)
    BY DEF MemoryInv, CrossTransfer
  <2>1. CASE seen[s][t] = "COMMITTED"
    BY <2>1, <1>4, <1>11, Zenon DEF DInv, DurableInv, MemoryInv
  <2>2. CASE seen[s][t] # "COMMITTED"
    <3>1. s = c.shard /\ t = Txn(c) /\ w = "COMMITTED" BY <2>2, <1>3, <1>9, Zenon DEF State
    <3> QED BY <3>1, <1>5, <1>15
  <2> QED BY <2>1, <2>2
<1>20. FreshInv'
  <2> SUFFICES ASSUME NEW x \in Submissions, ~Cross(x), Lone(x), Unserved(x)', NEW s \in Shards
               PROVE  seen'[s][TxnOf[x]] = "NONE" /\ \A op : ~Logged(wal'[s], op, TxnOf[x])
    BY Zenon DEF FreshInv, Cross, SourceShard, DestShard, Lone
  <2>1. l # "sent" BY DEF RunningAt, Answers
  <2>2. Unserved(x) BY <2>1, <1>7, <1>8, <1>10 DEF Unserved
  <2>3. x # c.sub
    <3> SUFFICES ASSUME x = c.sub PROVE FALSE OBVIOUS
    <3>1. c.kind = "EXECUTE" BY DEF TypeInv, WellFormed
    <3>2. phase'[x] # "new" BY <3>1, <1>10, Zenon DEF DInv, SingleInv
    <3>3. PICK d \in calls' : d.kind = "EXECUTE" /\ d.sub = x /\ d.pc = "sent"
      BY <3>2, Zenon DEF Unserved
    <3>4. d \in calls \ {c} BY <3>3, <2>1, <1>7, <1>8
    <3> QED BY <3>1, <3>3, <3>4 DEF DInv, SingleInv
  <2>4. TxnOf[x] # Txn(c) /\ TxnOf[x] \in Transfers
    BY <2>3, <1>2, ConstantsAssumption DEF Lone, Txn
  <2>5. seen[s][TxnOf[x]] = "NONE" /\ \A op : ~Logged(wal[s], op, TxnOf[x])
    BY <2>2, Zenon DEF DInv, DurableInv, FreshInv
  <2> QED BY <2>4, <2>5, <1>4, <1>9, Zenon
<1>21. AnswerInv'
  <2>1. ASSUME NEW d \in calls', d.kind = "EXECUTE", d.pc = "COMMITTED", Sure(d.sub)'
        PROVE  Logged(wal'[d.shard], "COMMITTED", Txn(d))
    <3>1. CASE d \in calls BY <2>1, <3>1, <1>4, <1>12, <1>14, Zenon DEF DInv, DurableInv, AnswerInv
    <3>2. CASE d = nc
      <4>1. c.kind = "EXECUTE" /\ l = "COMMITTED" /\ Sure(c.sub) BY <2>1, <3>2, <1>7, <1>12
      <4>2. CASE w = "COMMITTED" /\ ok BY <4>2, <1>5, <1>7, <3>2, Zenon
      <4>3. CASE c.pc = "sent" /\ State(c) = "COMMITTED"
        <5>1. ~Lone(c.sub)
          <6>1. ASSUME Lone(c.sub) PROVE State(c) = "NONE"
            <7>1. ~Cross(c.sub) BY <4>1 DEF TypeInv, WellFormed
            <7>2. Unserved(c.sub) BY <4>1, <4>3, Zenon DEF Unserved
            <7> QED BY <6>1, <7>1, <7>2, <1>2, Zenon DEF DInv, DurableInv, FreshInv, State, Txn
          <6> QED BY <6>1, <4>3
        <5>2. WritesSpared BY <4>1, <5>1 DEF Sure
        <5>3. Logged(wal[c.shard], "COMMITTED", Txn(c))
          BY <5>2, <4>1, <4>3, <1>2, <1>13, Zenon DEF DInv, DurableInv, MemoryInv, State
        <5> QED BY <5>3, <3>2, <1>2, <1>4, <1>7, Zenon
      <4> QED BY <4>1, <4>2, <4>3, <1>3, Zenon
    <3> QED BY <3>1, <3>2, <1>8, Zenon
  <2>2. ASSUME NEW x \in Submissions, ~Cross(x), result'[x] = "COMMITTED", Sure(x)'
        PROVE  Logged(wal'[SourceShard(x)], "COMMITTED", TxnOf[x])
    <3>1. SourceShard(x) \in Shards BY ConstantsAssumption DEF SourceShard
    <3> QED BY <2>2, <3>1, <1>4, <1>10, <1>12, Zenon DEF DInv, DurableInv, AnswerInv
  <2> QED BY <2>1, <2>2, Zenon DEF AnswerInv, Cross, SourceShard, DestShard, Txn
<1> QED BY <1>16, <1>17, <1>18, <1>19, <1>20, <1>21 DEF DurableInv

-----------------------------------------------------------------------------
(***************************************************************************)
(* The other steps of the shards.                                          *)
(***************************************************************************)

\* An account creation knows nothing of transfers.
LEMMA CreateDurable ==
  ASSUME TypeInv, TypeInv', DInv, Create, UNCHANGED coordVars, Charged
  PROVE  SingleInv' /\ DurableInv'
<1>1. CreateEffect BY CreateStep
<1>2. UNCHANGED <<phase, result, calls>> BY <1>1 DEF coordVars, CreateEffect
<1>3. SingleInv' BY <1>2 DEF DInv, SingleInv
<1>4. WritesSpared' => WritesSpared BY SparedBefore DEF WritesSpared, DInv, FaultKinds
<1>5. \A s \in Shards, t \in Transfers :
        /\ \A op : Logged(wal'[s], op, t) <=> Logged(wal[s], op, t)
        /\ seen'[s][t] = seen[s][t]
  BY <1>1, CreateLogs, Zenon DEF CreateEffect
<1>6. Quietly BY <1>2, <1>4, <1>5 DEF Quietly
<1> QED BY <1>3, <1>6, QuietlyDurable DEF DInv

\* A crash ends calls and forgets; nothing else.
LEMMA CrashDurable ==
  ASSUME TypeInv, TypeInv', DInv, NEW r \in Shards, Crash(r), UNCHANGED coordVars, Charged
  PROVE  SingleInv' /\ DurableInv'
<1>1. ASSUME NEW d \in calls'
      PROVE  \/ d \in calls /\ ~(d.shard = r /\ Running(d))
             \/ \E c \in calls : /\ c.shard = r /\ Running(c)
                                 /\ d = [c EXCEPT !.pc = "error"] /\ d.pc = "error"
                                 /\ d.sub = c.sub /\ d.kind = c.kind
  <2>1. CASE d \in calls /\ ~(d.shard = r /\ Running(d)) BY <2>1
  <2>2. CASE \E c \in calls : c.shard = r /\ Running(c) /\ d = [c EXCEPT !.pc = "error"]
    BY <2>2, Zenon DEF TypeInv, TypeOK, ShardTypeOK, Calls
  <2> QED BY <2>1, <2>2 DEF Crash
<1>2. UNCHANGED <<phase, result, wal>> BY DEF coordVars, Crash
<1>3. SingleInv'
  <2>1. \A d \in calls' : d.kind = "EXECUTE" => phase'[d.sub] # "new"
    BY <1>1, <1>2 DEF DInv, SingleInv
  <2>2. ASSUME NEW d \in calls', NEW e \in calls', d.kind = "EXECUTE", e.kind = "EXECUTE", d.sub = e.sub
        PROVE  d = e
    BY <2>2, <1>1 DEF DInv, SingleInv
  <2> QED BY <2>1, <2>2 DEF SingleInv
<1>4. WritesSpared' => WritesSpared BY SparedBefore DEF WritesSpared, DInv, FaultKinds
<1>5. \A s \in Shards, t \in Transfers : seen'[s][t] \in {seen[s][t], "NONE"}
  BY DEF Crash, TypeInv, TypeOK, ShardTypeOK, TxnIDs
<1>6. Quietly BY <1>1, <1>2, <1>4, <1>5 DEF Quietly
<1> QED BY <1>3, <1>6, QuietlyDurable DEF DInv

\* A restart learns from the log.
LEMMA RestartDurable ==
  ASSUME TypeInv, TypeInv', DInv, NEW r \in Shards, Restart(r), UNCHANGED coordVars, Charged
  PROVE  SingleInv' /\ DurableInv'
<1>1. UNCHANGED <<phase, result, calls, wal>> BY DEF coordVars, Restart
<1>2. SingleInv' BY <1>1 DEF DInv, SingleInv
<1>3. WritesSpared' => WritesSpared BY SparedBefore DEF WritesSpared, DInv, FaultKinds
<1>4. \A s \in Shards, t \in Transfers : seen'[s][t] \in {seen[s][t], RecoveredState(wal[s], t)}
  BY Zenon DEF Restart, TypeInv, TypeOK, ShardTypeOK, TxnIDs
<1>5. Quietly BY <1>1, <1>3, <1>4, Zenon DEF Quietly
<1> QED BY <1>2, <1>5, QuietlyDurable DEF DInv

-----------------------------------------------------------------------------
(***************************************************************************)
(* Steps of the coordinator.                                               *)
(***************************************************************************)
\* a call its coordinator no longer waits for
Dropped(c) == [c EXCEPT !.live = FALSE]

Directs ==
  /\ localFrame
  /\ \A d \in calls' : d.kind = "EXECUTE" =>
       \/ d \in calls
       \/ \E c \in calls \ calls' : c.live /\ d = Dropped(c)
       \/ /\ d = Request(d.sub, "EXECUTE", "TRANSFER", 1)
          /\ phase[d.sub] = "new" /\ phase'[d.sub] # "new"
  /\ \A x \in Submissions :
       /\ phase'[x] = "new" => phase[x] = "new"
       /\ result'[x] = "COMMITTED" =>
            \/ Cross(x) \/ result[x] = "COMMITTED"
            \/ \E c \in calls : c.kind = "EXECUTE" /\ c.sub = x /\ c.pc = "COMMITTED"

\* A coordinator that sends one EXECUTE per submission, gives up on calls
\* and reports what it was answered keeps the invariants.
LEMMA DirectsDurable ==
  ASSUME TypeInv, TypeInv', DInv, Directs, Charged
  PROVE  SingleInv' /\ DurableInv'
<1>1. \A c \in calls : c \in Calls /\ c.sub \in Submissions BY CallFacts DEF TypeInv
<1>2. \A c \in Calls : /\ Dropped(c).sub = c.sub /\ Dropped(c).kind = c.kind
                      /\ Dropped(c).shard = c.shard /\ Dropped(c).pc = c.pc
  BY DEF Calls, Dropped
<1>3. \A x : Request(x, "EXECUTE", "TRANSFER", 1).pc = "sent" BY RequestFields
<1>4. \A d \in calls' : d.kind = "EXECUTE" =>
        \/ d \in calls
        \/ \E c \in calls \ calls' : /\ d = Dropped(c) /\ c.kind = "EXECUTE"
                                     /\ c.sub = d.sub /\ c.shard = d.shard /\ c.pc = d.pc
        \/ /\ d = Request(d.sub, "EXECUTE", "TRANSFER", 1) /\ d.pc = "sent"
           /\ phase[d.sub] = "new" /\ phase'[d.sub] # "new"
  BY <1>1, <1>2, <1>3 DEF Directs
<1>5. SingleInv'
  <2>1. \A d \in calls' : d.kind = "EXECUTE" => phase'[d.sub] # "new"
    BY <1>1, <1>4 DEF Directs, DInv, SingleInv
  <2>2. ASSUME NEW d \in calls', NEW e \in calls', d.kind = "EXECUTE", e.kind = "EXECUTE", d.sub = e.sub
        PROVE  d = e
    <3>1. \A c \in calls : c.kind = "EXECUTE" => phase[c.sub] # "new" BY DEF DInv, SingleInv
    <3>2. CASE phase[d.sub] = "new" BY <2>2, <3>1, <3>2, <1>4
    <3>3. CASE phase[d.sub] # "new"
      <4>1. PICK c \in calls : /\ c.kind = "EXECUTE" /\ c.sub = d.sub
                               /\ d = c \/ (c \notin calls' /\ d = Dropped(c))
        BY <2>2, <3>3, <1>4
      <4>2. PICK b \in calls : /\ b.kind = "EXECUTE" /\ b.sub = e.sub
                               /\ e = b \/ (b \notin calls' /\ e = Dropped(b))
        BY <2>2, <3>3, <1>4
      <4>3. b = c BY <4>1, <4>2, <2>2 DEF DInv, SingleInv
      <4> QED BY <4>1, <4>2, <4>3
    <3> QED BY <3>2, <3>3
  <2> QED BY <2>1, <2>2 DEF SingleInv
<1>6. WritesSpared' => WritesSpared BY SparedBefore DEF WritesSpared, DInv, FaultKinds
<1>7. Quietly BY <1>4, <1>6, Zenon DEF Quietly, Directs, localFrame
<1> QED BY <1>5, <1>7, QuietlyDurable DEF DInv

\* The steps of Route, Execute, commitAll and abortAll are of that kind.
LEMMA CoordinateDirects ==
  ASSUME TypeInv, DInv, NEW x \in Submissions, Coordinate(x)
  PROVE  Directs
<1>1. localFrame BY CoordinateStep
<1>2. phase \in [Submissions -> Phases] /\ result \in [Submissions -> Results] /\ RoutedInv
  BY DEF TypeInv, TypeOK
<1>3. CASE RouteSingle(x)
  <2>1. Request(x, "EXECUTE", "TRANSFER", 1).sub = x BY RequestFields
  <2> QED BY <1>1, <1>2, <1>3, <2>1 DEF RouteSingle, Directs
<1>4. CASE ~RouteSingle(x)
  <2>1. \A d \in calls' : d.kind = "EXECUTE" => d \in calls
    <3>1. \A kind, op : Request(x, kind, op, 1).kind = kind BY ONLY TRUE DEF Request
    <3>2. \A d \in calls' : \/ d \in calls
                            \/ \E kind \in {"PREPARE", "COMMIT", "ABORT"}, op \in Sides : d = Request(x, kind, op, 1)
      BY <1>4, Zenon DEF Coordinate, SendPrepares, CommitAll, DecideAbort, SendAbort,
                         FinishCommit, FinishAbort, Finish
    <3> QED BY <3>1, <3>2
  <2>2. \A y \in Submissions : phase'[y] = "new" => phase[y] = "new"
    BY Zenon, <1>2, <1>4 DEF Coordinate, SendPrepares, CommitAll, DecideAbort, SendAbort,
                      FinishCommit, FinishAbort, Finish
  <2>3. \A y \in Submissions : result'[y] = "COMMITTED" => Cross(y) \/ result[y] = "COMMITTED"
    BY Zenon, <1>2, <1>4 DEF Coordinate, SendPrepares, CommitAll, DecideAbort, SendAbort,
                      FinishCommit, FinishAbort, Finish, RoutedInv
  <2> QED BY <1>1, <2>1, <2>2, <2>3 DEF Directs
<1> QED BY <1>3, <1>4

\* So is the end of a call, by an answer or a time-out.
LEMMA EndDirects ==
  ASSUME TypeInv, NEW c \in calls, Receive(c) \/ Timeout(c)
  PROVE  Directs
<1> DEFINE kept == IF Receive(c) \/ c.pc \in Answers THEN {} ELSE {[c EXCEPT !.live = FALSE]}
           answer == IF Receive(c) THEN c.pc ELSE "error"
<1>1. /\ localFrame /\ c.live
      /\ End(c, answer, (calls \ {c}) \cup kept)
  <2>1. CASE Receive(c)
    <3>1. calls \ {c} = (calls \ {c}) \cup kept BY <2>1
    <3> QED BY <2>1, <3>1 DEF Receive
  <2>2. CASE ~Receive(c) BY <2>2 DEF Timeout
  <2> QED BY <2>1, <2>2
<1>2. c \in Calls /\ c.sub \in Submissions BY CallFacts, Zenon DEF TypeInv
<1>3. \A d \in kept : d = [c EXCEPT !.live = FALSE] /\ d.live = FALSE /\ d.kind = c.kind
  BY <1>2 DEF Calls
<1>4. answer = "COMMITTED" => c.pc = "COMMITTED" OBVIOUS
<1> HIDE DEF kept, answer
<1>5. phase \in [Submissions -> Phases] /\ result \in [Submissions -> Results]
  BY DEF TypeInv, TypeOK
<1>6. CASE EndExecute(c, answer, (calls \ {c}) \cup kept)
  <2>1. calls' = (calls \ {c}) \cup kept /\ c.kind = "EXECUTE" BY <1>6 DEF EndExecute
  <2>2. c \notin calls' BY <2>1, <1>1, <1>3
  <2>3. \A d \in calls' : d \in calls \/ d = [c EXCEPT !.live = FALSE] BY <2>1, <1>3
  <2>4. \A y \in Submissions :
          /\ phase'[y] = "new" => phase[y] = "new"
          /\ result'[y] = "COMMITTED" => result[y] = "COMMITTED" \/ (y = c.sub /\ c.pc = "COMMITTED")
    BY <1>2, <1>4, <1>5, <1>6 DEF EndExecute
  <2> QED BY <1>1, <2>1, <2>2, <2>3, <2>4 DEF Directs, Dropped
<1>7. CASE ~EndExecute(c, answer, (calls \ {c}) \cup kept)
  <2>1. c.kind # "EXECUTE" /\ UNCHANGED <<phase, result>>
    BY <1>1, <1>7, Zenon DEF End, EndExecute, EndPrepare, EndCommit, EndAbort
  <2>2. \A d \in calls' : d.kind = "EXECUTE" => d \in calls
    <3>1. \A n : Request(c.sub, "COMMIT", c.op, n).kind = "COMMIT" BY ONLY TRUE DEF Request
    <3>2. \A d \in calls' : \/ d \in (calls \ {c}) \cup kept
                            \/ \E n : d = Request(c.sub, "COMMIT", c.op, n)
      BY <1>1, <1>7, Zenon DEF End, EndPrepare, EndCommit, EndAbort
    <3> QED BY <3>1, <3>2, <2>1, <1>3
  <2> QED BY <1>1, <2>1, <2>2 DEF Directs, Dropped
<1> QED BY <1>6, <1>7

\* So is the death of a coordinator.
LEMMA CoordinatorCrashDirects ==
  ASSUME TypeInv, NEW x \in Submissions, CoordinatorCrash(x)
  PROVE  Directs
<1>1. \A c \in calls : c \in Calls BY CallFacts, Zenon DEF TypeInv
<1>2. \A c \in Calls : [c EXCEPT !.live = FALSE].live = FALSE BY DEF Calls
<1>3. \A c \in calls : (c.sub = x /\ c.live) => c \notin calls'
  BY <1>1, <1>2, Zenon DEF CoordinatorCrash
<1>4. \A d \in calls' : \/ d \in calls
                        \/ \E c \in calls : c.sub = x /\ c.live /\ d = [c EXCEPT !.live = FALSE]
  BY DEF CoordinatorCrash
<1>5. \A d \in calls' : d \in calls \/ \E c \in calls \ calls' : c.live /\ d = [c EXCEPT !.live = FALSE]
  BY <1>3, <1>4
<1>6. \A y \in Submissions : (phase'[y] = "new" => phase[y] = "new") /\ result'[y] = result[y]
  BY DEF CoordinatorCrash, TypeInv, TypeOK
<1>7. localFrame BY DEF CoordinatorCrash
<1> QED BY <1>5, <1>6, <1>7 DEF Directs, Dropped

-----------------------------------------------------------------------------
\* At the start no shard knows a transfer and no client has an answer.
LEMMA DInvInit == Init => DInv
<1> SUFFICES ASSUME Init PROVE DInv OBVIOUS
<1>1. \A t \in Transfers, s \in Shards : \A op : ~Logged(wal[s], op, t)
  BY InitialLogAssumption, ConstantsAssumption, Zenon DEF Init, ShardInit, Logged
<1>2. \A t \in Transfers, s \in Shards : seen[s][t] = "NONE"
  <2> TAKE t \in Transfers, s \in Shards
  <2>1. seen[s][t] = RecoveredState(wal[s], t) BY Zenon DEF Init, ShardInit, TxnIDs
  <2> QED BY <2>1, <1>1 DEF RecoveredState, FinalState
<1>3. \A x \in Submissions : TxnOf[x] \in Transfers BY ConstantsAssumption
<1>4. BudgetInv BY BudgetInit
<1>5. calls = {} /\ \A x \in Submissions : result[x] # "COMMITTED" BY DEF Init, ShardInit
<1>6. SingleInv /\ PathInv /\ AnswerInv BY <1>5, Zenon DEF SingleInv, PathInv, AnswerInv
<1>7. CommittedInv /\ MemoryInv /\ FreshInv
  BY <1>1, <1>2, <1>3, Zenon DEF CommittedInv, MemoryInv, FreshInv
<1> QED BY <1>4, <1>6, <1>7 DEF DInv, DurableInv

\* Every step keeps the invariant.
LEMMA DInvStep == TypeInv /\ TypeInv' /\ DInv /\ [Next]_vars => DInv'
<1> SUFFICES ASSUME TypeInv, TypeInv', DInv, [Next]_vars PROVE DInv' OBVIOUS
<1>1. Charged BY StepCharged
<1>2. BudgetInv' BY <1>1, BudgetInvStep DEF DInv
<1> SUFFICES SingleInv' /\ DurableInv' BY <1>2 DEF DInv
<1>3. ASSUME NEW c \in calls, Handle(c) \/ Network(c), UNCHANGED coordVars
      PROVE  SingleInv' /\ DurableInv'
  BY <1>1, <1>3, HandlerDurable
<1>4. CASE Create /\ UNCHANGED coordVars BY <1>1, <1>4, CreateDurable
<1>5. ASSUME NEW s \in Shards, Crash(s) \/ Restart(s), UNCHANGED coordVars
      PROVE  SingleInv' /\ DurableInv'
  BY <1>1, <1>5, CrashDurable, RestartDurable
<1>6. ASSUME NEW c \in calls, Receive(c) \/ Timeout(c) PROVE SingleInv' /\ DurableInv'
  BY <1>1, <1>6, EndDirects, DirectsDurable
<1>7. ASSUME NEW x \in Submissions, Coordinate(x) \/ CoordinatorCrash(x)
      PROVE  SingleInv' /\ DurableInv'
  BY <1>1, <1>7, CoordinateDirects, CoordinatorCrashDirects, DirectsDurable
<1>8. CASE UNCHANGED vars
  <2>1. Directs BY <1>8, Zenon DEF vars, shardVars, coordVars, Directs, localFrame
  <2> QED BY <1>1, <2>1, DirectsDurable
<1> QED BY <1>3, <1>4, <1>5, <1>6, <1>7, <1>8 DEF Next, ShardNext, Idle

\* A client told that its single-shard transfer COMMITTED finds COMMITTED and
\* both operations in the shard's log, whatever faults happened: always if
\* the transfer was submitted once, and as long as no write to a log failed
\* if it was submitted again (ExecuteSingleShard's order of writes, its
\* answer from seenTxns, and Recover).
THEOREM AckedIsDurableHolds == Spec => []AckedIsDurable
<1>1. DInv => AckedIsDurable
  <2> SUFFICES ASSUME DInv, NEW x \in Submissions, ~Cross(x), result[x] = "COMMITTED",
                      Spared({"flush", "fsync"}) \/ \A y \in Submissions \ {x} : TxnOf[y] # TxnOf[x]
               PROVE  \A op \in {"DEBIT", "CREDIT", "COMMITTED"} : Logged(wal[SourceShard(x)], op, TxnOf[x])
    BY Zenon DEF AckedIsDurable
  <2>1. Logged(wal[SourceShard(x)], "COMMITTED", TxnOf[x])
    BY Zenon DEF DInv, DurableInv, AnswerInv, Sure, WritesSpared, Lone
  <2>2. TxnOf[x] \in Transfers /\ SourceShard(x) \in Shards /\ ~CrossTransfer(TxnOf[x])
    BY ConstantsAssumption DEF SourceShard, DestShard, Cross, CrossTransfer
  <2> QED BY <2>1, <2>2, Zenon DEF DInv, DurableInv, CommittedInv, Both
<1> QED BY <1>1, TypeInvInit, TypeInvStep, DInvInit, DInvStep, PTL DEF Spec
=============================================================================
