---------------------------- MODULE MappingProofs ---------------------------
(***************************************************************************)
(* The steps of TwoPC, seen through the mapping to AtomicTransfer.         *)
(***************************************************************************)
EXTENDS TwoPCInvariants, TLAPS

-----------------------------------------------------------------------------
(***************************************************************************)
(* What the lemmas below use of the types, of the moves of a handler and   *)
(* of int64.                                                               *)
(***************************************************************************)

\* What is known of a call.
LEMMA CallParts ==
  ASSUME TypeInv, NEW c \in calls
  PROVE  /\ c \in Calls /\ WellFormed(c) /\ c.sub \in Submissions /\ c.shard \in Shards
         /\ Txn(c) \in Transfers /\ Txn(c) \in TxnIDs
         /\ AccountOf(c) \in Accounts
         /\ Source[Txn(c)] \in Accounts /\ Destination[Txn(c)] \in Accounts
         /\ Amount[Txn(c)] \in Int
         /\ State(c) \in TxnStates
<1>1. c \in Calls /\ WellFormed(c) /\ c.sub \in Submissions /\ c.shard \in Shards
  BY DEF TypeInv, TypeOK, ShardTypeOK, Calls
<1>2. Txn(c) \in Transfers BY <1>1, ConstantsAssumption DEF Txn
<1>3. Txn(c) \in TxnIDs BY <1>2 DEF TxnIDs
<1>4. State(c) \in TxnStates BY <1>1, <1>3 DEF TypeInv, TypeOK, ShardTypeOK, State
<1> QED BY <1>1, <1>2, <1>3, <1>4, ConstantsAssumption DEF AccountOf

\* Setting the state of a transaction to itself changes nothing.
LEMMA SeenParts ==
  ASSUME TypeInv, NEW c \in calls
  PROVE  seen = [seen EXCEPT ![c.shard][Txn(c)] = State(c)]
BY CallParts, Zenon DEF TypeInv, TypeOK, ShardTypeOK, State

\* A handler that goes on, answers or forgets the transaction moves its call.
LEMMA MoveParts ==
  ASSUME NEW c
  PROVE  /\ \A l \in RunningAt : Goto(c, l) => MovesTo(c, l)
         /\ \A l \in Answers : Return(c, l) => MovesTo(c, l)
         /\ \A l : Forget(c) => MovesTo(c, "error") /\ seen' = [seen EXCEPT ![c.shard][Txn(c)] = "NONE"]
<1>1. \A l \in Answers : l \notin RunningAt BY DEF Answers, RunningAt
<1>2. "error" \in Answers BY DEF Answers
<1> QED BY <1>1, <1>2 DEF Goto, Return, MovesTo, Forget, SetState

\* Within int64 the arithmetic is exact.
LEMMA Exact64 == ASSUME NEW n \in Nat, n <= MaxInt64 PROVE Int64(n) = n
<1> DEFINE M == MaxInt64 + 1
<1>1. M \in Nat /\ M > 0 /\ n < M BY MaxInt64Assumption
<1>2. (n + M) % (2 * M) = n + M BY <1>1
<1> QED BY <1>1, <1>2, MaxInt64Assumption DEF Int64

-----------------------------------------------------------------------------
(***************************************************************************)
(* The refinement mapping, and the cells of the state it looks at: where   *)
(* the handler of one side of a transfer is, and what the shard of that    *)
(* side remembers.                                                         *)
(***************************************************************************)
At(t, op, label) == \E c \in calls : Txn(c) = t /\ c.op = op /\ c.pc = label

\* What account a gets from transfer t beyond its entry in the ledger.
Held(t, a) == (Source[t] = a /\ Withheld(t)) \/ (Destination[t] = a /\ Owed(t))

DueTo(a) == {t \in CrossTransfers : Held(t, a)}

Opened == {b \in Accounts : b \in DOMAIN ledger[Home[b]]}

\* The mapping of the balances, in these terms.
LEMMA BalanceIs ==
  /\ AbstractBalance = [a \in Opened |-> ledger[Home[a]][a] + TotalOf[DueTo(a)]]
  /\ AbstractBalance' = [a \in Opened' |-> ledger'[Home[a]][a] + TotalOf[DueTo(a)']]
BY DEF AbstractBalance, Opened, DueTo, Held

\* A reservation, a credit still to be applied, the outcome of a transfer
\* within a shard, in terms of the cells.
LEMMA MappingIs ==
  ASSUME TypeInv, NEW t \in Transfers
  PROVE  /\ Withheld(t) <=> /\ ~Decided(t, "COMMIT")
                            /\ \/ At(t, "DEBIT", "logPrepared")
                               \/ SideState(t, "DEBIT") = "PREPARED" /\ ~At(t, "DEBIT", "markAborted")
         /\ Owed(t) <=> /\ Decided(t, "COMMIT")
                        /\ SideState(t, "CREDIT") # "COMMITTED"
                        /\ ~At(t, "CREDIT", "logCommitted")
         /\ CallAt(t, "EXECUTE", {"logCommitted"}) <=> At(t, "TRANSFER", "logCommitted")
         /\ CallAt(t, "EXECUTE", {"logAborted"}) <=> At(t, "TRANSFER", "logAborted")
<1>1. Withheld(t) <=> /\ ~Decided(t, "COMMIT")
                      /\ \/ At(t, "DEBIT", "logPrepared")
                         \/ SideState(t, "DEBIT") = "PREPARED" /\ ~At(t, "DEBIT", "markAborted")
  BY DEF Withheld, At, SideState
<1>2. \A c \in calls : /\ (c.kind = "EXECUTE") <=> (c.op = "TRANSFER")
                       /\ (c.op = "CREDIT" /\ c.pc = "logCommitted") => c.kind = "COMMIT"
  BY DEF TypeInv, WellFormed, KindsAt
<1>3. (\E c \in calls : Txn(c) = t /\ c.op = "CREDIT" /\ c.kind = "COMMIT" /\ c.pc = "logCommitted")
        <=> At(t, "CREDIT", "logCommitted")
  BY <1>2 DEF At
<1>4. SideState(t, "CREDIT") = seen[Home[Destination[t]]][t] BY DEF SideState
<1>5. Owed(t) <=> /\ Decided(t, "COMMIT")
                  /\ SideState(t, "CREDIT") # "COMMITTED"
                  /\ ~At(t, "CREDIT", "logCommitted")
  BY <1>3, <1>4 DEF Owed
<1>6. \A p : CallAt(t, "EXECUTE", {p}) <=> At(t, "TRANSFER", p) BY <1>2 DEF CallAt, At
<1> QED BY <1>1, <1>5, <1>6

\* A handler's step moves its own cell, and the cells of nobody else: the
\* mutex keeps any other handler of the same side away.
LEMMA CellView ==
  ASSUME TypeInv, NEW c \in calls, NEW l \in RunningAt \cup Answers, NEW v, MovesTo(c, l),
         seen' = [seen EXCEPT ![c.shard][Txn(c)] = v]
  PROVE  /\ \A u \in Transfers, op \in {"TRANSFER", "DEBIT", "CREDIT"} :
              (u # Txn(c) \/ (CrossTransfer(u) /\ op \in Sides /\ c.op \in Sides /\ op # c.op)) =>
                /\ SideState(u, op)' = SideState(u, op)
                /\ \A p : At(u, op, p)' <=> At(u, op, p)
         /\ SideState(Txn(c), c.op) = State(c) /\ SideState(Txn(c), c.op)' = v
         /\ (Running(c) \/ Acquire(c)) =>
              \A p \in RunningAt : (At(Txn(c), c.op, p) <=> c.pc = p) /\ (At(Txn(c), c.op, p)' <=> l = p)
         /\ (c.pc = "sent" /\ l = "error") =>
              \A p \in RunningAt : At(Txn(c), c.op, p)' <=> At(Txn(c), c.op, p)
<1> DEFINE t == Txn(c)
           nc == [c EXCEPT !.pc = l]
           Cell(u, op) == Home[IF op = "CREDIT" THEN Destination[u] ELSE Source[u]]
<1>1. c \in Calls /\ c.sub \in Submissions /\ c.shard \in Shards /\ t \in Transfers /\ t \in TxnIDs
  BY CallParts
<1>2. nc.pc = l /\ nc.op = c.op /\ nc.shard = c.shard /\ Txn(nc) = t BY <1>1 DEF Calls, Txn
<1>3. /\ calls' \subseteq (calls \ {c}) \cup {nc} /\ calls \ {c} \subseteq calls'
      /\ l \in RunningAt => nc \in calls'
  BY DEF MovesTo
<1> HIDE DEF nc
<1>4. \A d \in calls : d.shard = Cell(Txn(d), d.op)
  BY DEF TypeInv, WellFormed, ShardOf, SourceShard, DestShard, Txn
<1>5. \A s \in Shards, u \in Transfers : seen'[s][u] = IF s = c.shard /\ u = t THEN v ELSE seen[s][u]
  <2>1. seen \in [Shards -> [TxnIDs -> TxnStates]] BY Zenon DEF TypeInv, TypeOK, ShardTypeOK
  <2>2. Transfers \subseteq TxnIDs BY DEF TxnIDs
  <2> QED BY <2>1, <2>2, <1>1
<1>6. \A u \in Transfers, op \in {"TRANSFER", "DEBIT", "CREDIT"} :
        /\ Cell(u, op) \in Shards
        /\ SideState(u, op) = seen[Cell(u, op)][u] /\ SideState(u, op)' = seen'[Cell(u, op)][u]
  BY ConstantsAssumption DEF SideState
<1>7. c.op \in {"TRANSFER", "DEBIT", "CREDIT"} BY <1>1 DEF Calls
<1>8. c.shard = Cell(t, c.op) BY <1>4
<1>9. SideState(t, c.op) = State(c) /\ SideState(t, c.op)' = v
  <2> HIDE DEF Cell, t
  <2>1. SideState(t, c.op) = seen[c.shard][t] /\ SideState(t, c.op)' = seen'[c.shard][t]
    BY <1>1, <1>6, <1>7, <1>8
  <2>2. seen'[c.shard][t] = v BY <1>1, <1>5
  <2> QED BY <2>1, <2>2 DEF State, t
<1>10. ASSUME NEW u \in Transfers, NEW op \in {"TRANSFER", "DEBIT", "CREDIT"},
              u # t \/ (CrossTransfer(u) /\ op \in Sides /\ c.op \in Sides /\ op # c.op)
       PROVE  SideState(u, op)' = SideState(u, op) /\ \A p : At(u, op, p)' <=> At(u, op, p)
  <2>1. u # t \/ Cell(u, op) # Cell(u, c.op) BY <1>10 DEF CrossTransfer, Sides
  <2>2. SideState(u, op)' = SideState(u, op)
    <3> HIDE DEF Cell, t
    <3>1. SideState(u, op) = seen[Cell(u, op)][u] /\ SideState(u, op)' = seen'[Cell(u, op)][u] BY <1>6
    <3>2. Cell(u, op) \in Shards /\ ~(Cell(u, op) = c.shard /\ u = t) BY <2>1, <1>6, <1>8
    <3>3. seen'[Cell(u, op)][u] = seen[Cell(u, op)][u] BY <3>2, <1>5
    <3> QED BY <3>1, <3>3
  <2>3. \A d : (Txn(d) = u /\ d.op = op) => (d \in calls' <=> d \in calls)
    BY <1>2, <1>3, <1>10
  <2>4. \A p : At(u, op, p)' <=> At(u, op, p) BY <2>3 DEF At, Txn
  <2> QED BY <2>2, <2>4
<1>11. ASSUME Running(c) \/ Acquire(c), NEW p \in RunningAt
       PROVE  (At(t, c.op, p) <=> c.pc = p) /\ (At(t, c.op, p)' <=> l = p)
  <2>1. \A d \in calls : (Txn(d) = t /\ d.op = c.op /\ d.pc = p) => d = c
    <3> SUFFICES ASSUME NEW d \in calls, Txn(d) = t, d.op = c.op, d.pc = p PROVE d = c OBVIOUS
    <3>1. Running(d) /\ d.shard = c.shard BY <1>4, <1>8, <1>11 DEF Running
    <3> QED BY <3>1, <1>11, Zenon DEF TypeInv, Mutex, Acquire
  <2>2. At(t, c.op, p) <=> c.pc = p BY <2>1, Zenon DEF At
  <2>3. At(t, c.op, p)' => l = p
    <3> SUFFICES ASSUME NEW d \in calls', Txn(d) = t, d.op = c.op, d.pc = p PROVE l = p BY DEF At, Txn
    <3>1. d = nc BY <2>1, <1>3
    <3> QED BY <3>1, <1>2
  <2>4. l = p => At(t, c.op, p)'
    <3> SUFFICES ASSUME l = p PROVE At(t, c.op, p)' OBVIOUS
    <3>1. nc \in calls' /\ Txn(nc) = t /\ nc.op = c.op /\ nc.pc = p BY <1>2, <1>3, <1>11
    <3> QED BY <3>1 DEF At, Txn
  <2> QED BY <2>2, <2>3, <2>4
<1>12. ASSUME c.pc = "sent", l = "error", NEW p \in RunningAt
       PROVE  At(t, c.op, p)' <=> At(t, c.op, p)
  <2>1. p # "sent" /\ p # "error" BY DEF RunningAt
  <2>2. \A d : d.pc = p => (d \in calls' <=> d \in calls) BY <2>1, <1>2, <1>3, <1>12
  <2> QED BY <2>2 DEF At, Txn
<1> QED BY <1>9, <1>10, <1>11, <1>12

-----------------------------------------------------------------------------
(***************************************************************************)
(* How the balances of the mapping move.                                   *)
(***************************************************************************)

\* The sums of the mapping are sums.
Summable ==
  \A S \in SUBSET Transfers :
    /\ TotalOf[S] \in Int
    /\ (\A t \in S : Amount[t] >= 0) => TotalOf[S] >= 0
    /\ \A x \in S : TotalOf[S] = Amount[x] + TotalOf[S \ {x}]

\* The same for one set.
LEMMA Totals ==
  ASSUME Summable, NEW S \in SUBSET Transfers
  PROVE  /\ TotalOf[S] \in Int
         /\ (\A t \in S : Amount[t] >= 0) => TotalOf[S] >= 0
         /\ \A x \in S : TotalOf[S] = Amount[x] + TotalOf[S \ {x}]
BY DEF Summable

\* Two sets that agree but for t have sums that agree but for t.
LEMMA DueShift ==
  ASSUME Summable, NEW S \in SUBSET Transfers, NEW T \in SUBSET Transfers,
         NEW t \in Transfers, \A u \in Transfers : u # t => (u \in S <=> u \in T)
  PROVE  /\ TotalOf[S] \in Int /\ TotalOf[T] \in Int
         /\ TotalOf[T] + (IF t \in S THEN Amount[t] ELSE 0) = TotalOf[S] + (IF t \in T THEN Amount[t] ELSE 0)
<1>1. S \ {t} = T \ {t} OBVIOUS
<1>2. TotalOf[S] \in Int /\ TotalOf[T] \in Int /\ TotalOf[S \ {t}] \in Int
  <2>1. S \ {t} \in SUBSET Transfers OBVIOUS
  <2> QED BY <2>1, Totals
<1>3. TotalOf[S] = (IF t \in S THEN Amount[t] ELSE 0) + TotalOf[S \ {t}]
  <2>1. CASE t \in S BY <2>1, Totals
  <2>2. CASE t \notin S
    <3>1. S \ {t} = S BY <2>2
    <3> QED BY <2>2, <3>1, <1>2
  <2> QED BY <2>1, <2>2
<1>4. TotalOf[T] = (IF t \in T THEN Amount[t] ELSE 0) + TotalOf[S \ {t}]
  <2>1. CASE t \in T BY <2>1, <1>1, Totals
  <2>2. CASE t \notin T
    <3>1. S \ {t} = T BY <2>2, <1>1
    <3> QED BY <2>2, <3>1, <1>2
  <2> QED BY <2>1, <2>2
<1>5. Amount[t] \in Int BY ConstantsAssumption
<1> QED BY <1>2, <1>3, <1>4, <1>5

\* What t alone is due to account a.
Share(t, a) == IF Held(t, a) THEN Amount[t] ELSE 0

Elsewhere(t) ==
  \A u \in CrossTransfers : u # t => (Withheld(u)' <=> Withheld(u)) /\ (Owed(u)' <=> Owed(u))

\* A step that touches no transfer but t shifts the sums by t's share.
LEMMA TotalsShift ==
  ASSUME Summable, NEW t \in CrossTransfers, Elsewhere(t), NEW a
  PROVE  /\ TotalOf[DueTo(a)] \in Int /\ TotalOf[DueTo(a)'] \in Int
         /\ TotalOf[DueTo(a)'] + Share(t, a) = TotalOf[DueTo(a)] + Share(t, a)'
<1>1. t \in Transfers /\ CrossTransfers \subseteq Transfers BY DEF CrossTransfers
<1>2. DueTo(a) \in SUBSET Transfers /\ DueTo(a)' \in SUBSET Transfers BY <1>1 DEF DueTo
<1>3. \A u \in Transfers : u # t => (u \in DueTo(a) <=> u \in DueTo(a)')
  BY DEF DueTo, Held, Elsewhere
<1>4. (t \in DueTo(a) <=> Held(t, a)) /\ (t \in DueTo(a)' <=> Held(t, a)') BY DEF DueTo
<1> HIDE DEF DueTo
<1>5. /\ TotalOf[DueTo(a)] \in Int /\ TotalOf[DueTo(a)'] \in Int
      /\ TotalOf[DueTo(a)'] + (IF t \in DueTo(a) THEN Amount[t] ELSE 0)
           = TotalOf[DueTo(a)] + (IF t \in DueTo(a)' THEN Amount[t] ELSE 0)
  BY <1>1, <1>2, <1>3, DueShift, Zenon
<1> QED BY <1>4, <1>5 DEF Share

\* A step that moves money between the ledger and the share of t, or
\* nothing at all, leaves the balances of the mapping alone.
LEMMA KeptBalance ==
  ASSUME Summable, NEW t \in CrossTransfers, Elsewhere(t), Opened' = Opened,
         \A a \in Opened :
           /\ ledger[Home[a]][a] \in Int /\ ledger'[Home[a]][a] \in Int
           /\ ledger'[Home[a]][a] + Share(t, a)' = ledger[Home[a]][a] + Share(t, a)
  PROVE  UNCHANGED AbstractBalance
<1>1. ASSUME NEW a PROVE Share(t, a) \in Int /\ Share(t, a)' \in Int
  <2>1. Amount[t] \in Int BY ConstantsAssumption DEF CrossTransfers
  <2> QED BY <2>1 DEF Share
<1>2. ASSUME NEW a \in Opened
      PROVE  ledger'[Home[a]][a] + TotalOf[DueTo(a)'] = ledger[Home[a]][a] + TotalOf[DueTo(a)]
  <2>1. /\ TotalOf[DueTo(a)] \in Int /\ TotalOf[DueTo(a)'] \in Int
        /\ TotalOf[DueTo(a)'] + Share(t, a) = TotalOf[DueTo(a)] + Share(t, a)'
    BY TotalsShift
  <2>2. Share(t, a) \in Int /\ Share(t, a)' \in Int BY <1>1
  <2>3. /\ ledger[Home[a]][a] \in Int /\ ledger'[Home[a]][a] \in Int
        /\ ledger'[Home[a]][a] + Share(t, a)' = ledger[Home[a]][a] + Share(t, a)
    OBVIOUS
  <2> QED BY <2>1, <2>2, <2>3
<1> QED BY <1>2, BalanceIs, Zenon

\* So does a step that touches neither the ledgers nor what is held.
LEMMA SameBalance ==
  ASSUME Opened' = Opened, \A a \in Opened : ledger'[Home[a]][a] = ledger[Home[a]][a],
         \A u \in CrossTransfers : (Withheld(u)' <=> Withheld(u)) /\ (Owed(u)' <=> Owed(u))
  PROVE  UNCHANGED AbstractBalance
<1>1. \A a : DueTo(a)' = DueTo(a) BY Zenon DEF DueTo, Held
<1> QED BY <1>1, BalanceIs, Zenon

-----------------------------------------------------------------------------
\* The outcome of a transfer within a shard, in terms of its cell.
Fate(t) ==
  CASE SideState(t, "TRANSFER") # "PENDING" ->
         IF SideState(t, "TRANSFER") \in {"COMMITTED", "ABORTED"} THEN SideState(t, "TRANSFER") ELSE "open"
    [] SideState(t, "TRANSFER") = "PENDING" /\ At(t, "TRANSFER", "logCommitted") -> "COMMITTED"
    [] SideState(t, "TRANSFER") = "PENDING" /\ At(t, "TRANSFER", "logAborted") -> "ABORTED"
    [] OTHER -> "open"

Outcome(t) ==
  IF CrossTransfer(t)
    THEN IF Decided(t, "COMMIT") THEN "COMMITTED"
         ELSE IF Decided(t, "ABORT") THEN "ABORTED" ELSE "open"
    ELSE Fate(t)

Cells(t) ==
  /\ Withheld(t) <=> /\ ~Decided(t, "COMMIT")
                     /\ \/ At(t, "DEBIT", "logPrepared")
                        \/ SideState(t, "DEBIT") = "PREPARED" /\ ~At(t, "DEBIT", "markAborted")
  /\ Owed(t) <=> /\ Decided(t, "COMMIT")
                 /\ SideState(t, "CREDIT") # "COMMITTED"
                 /\ ~At(t, "CREDIT", "logCommitted")

\* The mapping, in terms of the cells.
LEMMA MappingNow == TypeInv => (\A t \in Transfers : Cells(t)) /\ AbstractOutcome = [t \in Transfers |-> Outcome(t)]
<1> SUFFICES ASSUME TypeInv
             PROVE  (\A t \in Transfers : Cells(t)) /\ AbstractOutcome = [t \in Transfers |-> Outcome(t)]
  OBVIOUS
<1>1. \A t \in Transfers : Cells(t) BY MappingIs DEF Cells
<1>2. \A t \in Transfers :
        /\ CallAt(t, "EXECUTE", {"logCommitted"}) <=> At(t, "TRANSFER", "logCommitted")
        /\ CallAt(t, "EXECUTE", {"logAborted"}) <=> At(t, "TRANSFER", "logAborted")
        /\ seen[Home[Source[t]]][t] = SideState(t, "TRANSFER")
  BY MappingIs, Zenon DEF SideState
<1>3. ASSUME NEW t \in Transfers PROVE AbstractOutcome[t] = Outcome(t)
  <2>1. /\ CallAt(t, "EXECUTE", {"logCommitted"}) <=> At(t, "TRANSFER", "logCommitted")
        /\ CallAt(t, "EXECUTE", {"logAborted"}) <=> At(t, "TRANSFER", "logAborted")
        /\ seen[Home[Source[t]]][t] = SideState(t, "TRANSFER")
    BY <1>2, Zenon
  <2> QED BY <2>1 DEF AbstractOutcome, Outcome, Fate
<1>4. AbstractOutcome = [t \in Transfers |-> AbstractOutcome[t]] BY DEF AbstractOutcome
<1> QED BY <1>1, <1>3, <1>4

\* The mapping, before and after a step.
LEMMA MappingStep ==
  ASSUME TypeInv, TypeInv'
  PROVE  /\ \A t \in Transfers : Cells(t) /\ Cells(t)'
         /\ AbstractOutcome = [t \in Transfers |-> Outcome(t)]
         /\ AbstractOutcome' = [t \in Transfers |-> Outcome(t)']
<1>1. TypeInv' => ((\A t \in Transfers : Cells(t)) /\ AbstractOutcome = [t \in Transfers |-> Outcome(t)])'
  BY MappingNow, PTL
<1> QED BY <1>1, MappingNow

-----------------------------------------------------------------------------
(***************************************************************************)
(* Steps of the handlers, seen through the mapping.                        *)
(***************************************************************************)

\* What the side c serves holds for its account, and the same in terms of
\* where c is and what the shard remembers.
Mine(c) == IF c.op = "DEBIT" THEN Withheld(Txn(c)) ELSE Owed(Txn(c))

MineAt(c, pc, state) ==
  IF c.op = "DEBIT"
    THEN ~Decided(Txn(c), "COMMIT") /\ (pc = "logPrepared" \/ (state = "PREPARED" /\ pc # "markAborted"))
    ELSE Decided(Txn(c), "COMMIT") /\ state # "COMMITTED" /\ pc # "logCommitted"

\* A handler's step leaves every other transfer, and the other side of its
\* own, as they were.
LEMMA HandlerElsewhere ==
  ASSUME TypeInv, TypeInv', NEW c \in calls, NEW l \in RunningAt \cup Answers, NEW v, MovesTo(c, l),
         seen' = [seen EXCEPT ![c.shard][Txn(c)] = v], UNCHANGED decision
  PROVE  /\ Elsewhere(Txn(c))
         /\ \A u \in Transfers : (u # Txn(c) \/ CrossTransfer(u)) => Outcome(u)' = Outcome(u)
         /\ (CrossTransfer(Txn(c)) /\ c.op = "DEBIT") => (Owed(Txn(c))' <=> Owed(Txn(c)))
         /\ (CrossTransfer(Txn(c)) /\ c.op = "CREDIT") => (Withheld(Txn(c))' <=> Withheld(Txn(c)))
<1>1. \A u \in Transfers, op \in {"TRANSFER", "DEBIT", "CREDIT"} :
        (u # Txn(c) \/ (CrossTransfer(u) /\ op \in Sides /\ c.op \in Sides /\ op # c.op)) =>
          /\ SideState(u, op)' = SideState(u, op)
          /\ \A p : At(u, op, p)' <=> At(u, op, p)
  BY CellView, Zenon
<1>2. \A u, d : Decided(u, d)' <=> Decided(u, d) BY DEF Decided
<1>3. \A u \in Transfers : Cells(u) /\ Cells(u)' BY MappingStep
<1>4. Txn(c) \in Transfers BY CallParts
<1>5. ASSUME NEW u \in Transfers, u # Txn(c) PROVE (Withheld(u)' <=> Withheld(u)) /\ (Owed(u)' <=> Owed(u))
  <2>1. \A op \in {"TRANSFER", "DEBIT", "CREDIT"} :
          SideState(u, op)' = SideState(u, op) /\ \A p : At(u, op, p)' <=> At(u, op, p)
    BY <1>1, <1>5
  <2>2. Cells(u) /\ Cells(u)' BY <1>3
  <2> QED BY <2>1, <2>2, <1>2 DEF Cells
<1>6. ASSUME NEW u \in Transfers, u # Txn(c) PROVE Fate(u)' = Fate(u)
  <2>1. /\ SideState(u, "TRANSFER")' = SideState(u, "TRANSFER")
        /\ At(u, "TRANSFER", "logCommitted")' <=> At(u, "TRANSFER", "logCommitted")
        /\ At(u, "TRANSFER", "logAborted")' <=> At(u, "TRANSFER", "logAborted")
    BY <1>1, <1>6
  <2> QED BY <2>1 DEF Fate
<1>7. \A u \in Transfers : (u # Txn(c) \/ CrossTransfer(u)) => Outcome(u)' = Outcome(u)
  BY <1>2, <1>6 DEF Outcome, CrossTransfer
<1>8. ASSUME CrossTransfer(Txn(c)), NEW op \in Sides, c.op \in Sides, op # c.op
      PROVE  SideState(Txn(c), op)' = SideState(Txn(c), op) /\ \A p : At(Txn(c), op, p)' <=> At(Txn(c), op, p)
  BY <1>1, <1>4, <1>8 DEF Sides
<1>9. (CrossTransfer(Txn(c)) /\ c.op = "DEBIT") => (Owed(Txn(c))' <=> Owed(Txn(c)))
  <2> SUFFICES ASSUME CrossTransfer(Txn(c)), c.op = "DEBIT" PROVE Owed(Txn(c))' <=> Owed(Txn(c)) OBVIOUS
  <2>1. /\ SideState(Txn(c), "CREDIT")' = SideState(Txn(c), "CREDIT")
        /\ At(Txn(c), "CREDIT", "logCommitted")' <=> At(Txn(c), "CREDIT", "logCommitted")
    BY <1>8 DEF Sides
  <2>2. Cells(Txn(c)) /\ Cells(Txn(c))' BY <1>3, <1>4 DEF Txn
  <2> QED BY <2>1, <2>2, <1>2 DEF Cells, Txn
<1>10. (CrossTransfer(Txn(c)) /\ c.op = "CREDIT") => (Withheld(Txn(c))' <=> Withheld(Txn(c)))
  <2> SUFFICES ASSUME CrossTransfer(Txn(c)), c.op = "CREDIT" PROVE Withheld(Txn(c))' <=> Withheld(Txn(c)) OBVIOUS
  <2>1. /\ SideState(Txn(c), "DEBIT")' = SideState(Txn(c), "DEBIT")
        /\ At(Txn(c), "DEBIT", "logPrepared")' <=> At(Txn(c), "DEBIT", "logPrepared")
        /\ At(Txn(c), "DEBIT", "markAborted")' <=> At(Txn(c), "DEBIT", "markAborted")
    BY <1>8 DEF Sides
  <2>2. Cells(Txn(c)) /\ Cells(Txn(c))' BY <1>3, <1>4 DEF Txn
  <2> QED BY <2>1, <2>2, <1>2 DEF Cells, Txn
<1> QED BY <1>4, <1>5, <1>7, <1>9, <1>10 DEF Elsewhere, CrossTransfers

\* What the side holds before and after the step of its handler.
LEMMA HandlerMine ==
  ASSUME TypeInv, TypeInv', NEW c \in calls, NEW l \in RunningAt \cup Answers, NEW v, MovesTo(c, l),
         seen' = [seen EXCEPT ![c.shard][Txn(c)] = v], UNCHANGED decision, c.op \in Sides
  PROVE  /\ (Running(c) \/ Acquire(c)) => (Mine(c) <=> MineAt(c, c.pc, State(c))) /\ (Mine(c)' <=> MineAt(c, l, v))
         /\ (c.pc = "sent" /\ l = "error" /\ v = State(c)) => (Mine(c)' <=> Mine(c))
<1> DEFINE t == Txn(c)
<1>1. t \in Transfers /\ t' = t BY CallParts DEF Txn
<1>2. Cells(t) /\ Cells(t)' BY <1>1, MappingStep
<1>3. SideState(t, c.op) = State(c) /\ SideState(t, c.op)' = v BY CellView, Zenon
<1>4. (Running(c) \/ Acquire(c)) =>
        \A p \in RunningAt : (At(t, c.op, p) <=> c.pc = p) /\ (At(t, c.op, p)' <=> l = p)
  BY CellView, Zenon
<1>5. (c.pc = "sent" /\ l = "error") => \A p \in RunningAt : At(t, c.op, p)' <=> At(t, c.op, p)
  BY CellView, Zenon
<1>6. {"logPrepared", "markAborted", "logCommitted"} \subseteq RunningAt BY DEF RunningAt
<1>7. Decided(t, "COMMIT")' <=> Decided(t, "COMMIT") BY DEF Decided
<1>8. Mine(c)' <=> IF c.op = "DEBIT" THEN Withheld(t)' ELSE Owed(t)' BY DEF Mine, Txn
<1> HIDE DEF t
<1>9. CASE c.op = "DEBIT"
  BY <1>2, <1>3, <1>4, <1>5, <1>6, <1>7, <1>8, <1>9 DEF Cells, Mine, MineAt, t
<1>10. CASE c.op = "CREDIT"
  BY <1>2, <1>3, <1>4, <1>5, <1>6, <1>7, <1>8, <1>10 DEF Cells, Mine, MineAt, t
<1> QED BY <1>9, <1>10 DEF Sides

\* No shard has died and every write to a log has succeeded.
Sound == Spared({"crash", "flush", "fsync"})

\* Until a fault happens every write to a log succeeds.
LEMMA NoFailure ==
  ASSUME TypeInv, BudgetInv, Sound, Sound', NEW s \in Shards, NEW e, WriteFails(s, e)
  PROVE  FALSE
<1>1. budget \in [FaultKinds -> Nat] /\ {"flush", "fsync"} \subseteq FaultKinds
  BY DEF TypeInv, TypeOK, ShardTypeOK, FaultKinds
<1>2. ~sealed[s] BY DEF BudgetInv, Sound, Spared
<1>3. UNCHANGED <<budget["flush"], budget["fsync"]>> BY DEF Sound, Spared
<1>4. ASSUME NEW k \in {"flush", "fsync"}, Spend(k) PROVE FALSE
  <2>1. budget'[k] = budget[k] - 1 /\ budget[k] \in Nat BY <1>1, <1>4 DEF Spend
  <2>2. budget'[k] = budget[k] BY <1>3
  <2> QED BY <2>1, <2>2
<1> QED BY <1>2, <1>4 DEF WriteFails

\* The step of a handler that only moves money between the ledger and what
\* its side holds is invisible.
LEMMA SideKept ==
  ASSUME Summable, TypeInv, TypeInv', NEW c \in calls, CrossTransfer(Txn(c)), c.op \in Sides,
         NEW l \in RunningAt \cup Answers, NEW v, MovesTo(c, l),
         seen' = [seen EXCEPT ![c.shard][Txn(c)] = v], UNCHANGED decision,
         \A s \in Shards : /\ DOMAIN ledger'[s] = DOMAIN ledger[s]
                           /\ Solvent(ledger[s]) /\ Solvent(ledger'[s])
                           /\ \A a \in DOMAIN ledger[s] :
                                (s # c.shard \/ a # AccountOf(c)) => ledger'[s][a] = ledger[s][a],
         AccountOf(c) \in DOMAIN ledger[c.shard] =>
           ledger'[c.shard][AccountOf(c)] + (IF Mine(c)' THEN Amount[Txn(c)] ELSE 0)
             = ledger[c.shard][AccountOf(c)] + (IF Mine(c) THEN Amount[Txn(c)] ELSE 0)
  PROVE  UNCHANGED <<AbstractBalance, AbstractOutcome>>
<1> DEFINE t == Txn(c)
           b == AccountOf(c)
<1>1. t \in CrossTransfers /\ t \in Transfers BY CallParts DEF CrossTransfers
<1>2. Source[t] \in Accounts /\ Destination[t] \in Accounts /\ Source[t] # Destination[t] /\ Amount[t] \in Int
  BY <1>1, ConstantsAssumption DEF CrossTransfer
<1>3. \A a \in Accounts : Home[a] \in Shards BY ConstantsAssumption
<1>4. /\ Elsewhere(t)
      /\ \A u \in Transfers : (u # t \/ CrossTransfer(u)) => Outcome(u)' = Outcome(u)
      /\ c.op = "DEBIT" => (Owed(t)' <=> Owed(t))
      /\ c.op = "CREDIT" => (Withheld(t)' <=> Withheld(t))
  BY HandlerElsewhere, Zenon
<1>5. UNCHANGED AbstractOutcome BY <1>4, MappingStep
<1>6. Opened' = Opened BY <1>3 DEF Opened
<1>7. c.shard = Home[b] BY Zenon DEF TypeInv, WellFormed, ShardOf, SourceShard, DestShard, AccountOf, Txn
<1>8. c.op = "DEBIT" => b = Source[t] /\ (Mine(c) <=> Withheld(t)) /\ (Mine(c)' <=> Withheld(t)')
  BY Zenon DEF Mine, AccountOf, Txn
<1>9. c.op = "CREDIT" => b = Destination[t] /\ (Mine(c) <=> Owed(t)) /\ (Mine(c)' <=> Owed(t)')
  BY Zenon DEF Mine, AccountOf, Txn
<1>10. \A a : /\ Share(t, a) = (IF (Source[t] = a /\ Withheld(t)) \/ (Destination[t] = a /\ Owed(t)) THEN Amount[t] ELSE 0)
              /\ Share(t, a)' = (IF (Source[t] = a /\ Withheld(t)') \/ (Destination[t] = a /\ Owed(t)') THEN Amount[t] ELSE 0)
  BY DEF Share, Held, Txn
<1> HIDE DEF t, b
<1>11. ASSUME NEW a, a # b PROVE Share(t, a)' = Share(t, a)
  BY <1>2, <1>4, <1>8, <1>9, <1>10, <1>11 DEF Sides
<1>12. /\ Share(t, b) = (IF Mine(c) THEN Amount[t] ELSE 0)
       /\ Share(t, b)' = (IF Mine(c)' THEN Amount[t] ELSE 0)
  BY <1>2, <1>8, <1>9, <1>10 DEF Sides
<1>13. ASSUME NEW a \in Opened
       PROVE  /\ ledger[Home[a]][a] \in Int /\ ledger'[Home[a]][a] \in Int
              /\ ledger'[Home[a]][a] + Share(t, a)' = ledger[Home[a]][a] + Share(t, a)
  <2>1. a \in Accounts /\ Home[a] \in Shards /\ a \in DOMAIN ledger[Home[a]] BY <1>3 DEF Opened
  <2>2. ledger[Home[a]][a] \in Nat /\ ledger'[Home[a]][a] \in Nat BY <2>1 DEF Solvent
  <2>3. CASE a = b
    <3>1. b \in DOMAIN ledger[c.shard] =>
            ledger'[c.shard][b] + (IF Mine(c)' THEN Amount[t] ELSE 0) = ledger[c.shard][b] + (IF Mine(c) THEN Amount[t] ELSE 0)
      BY Zenon DEF b, t
    <3> QED BY ONLY <3>1, <2>1, <2>2, <2>3, <1>7, <1>12
  <2>4. CASE a # b
    <3>1. ledger'[Home[a]][a] = ledger[Home[a]][a] BY <2>1, <2>4 DEF b
    <3> QED BY <2>2, <2>4, <3>1, <1>11
  <2> QED BY <2>2, <2>3, <2>4
<1>14. UNCHANGED AbstractBalance BY <1>1, <1>4, <1>6, <1>13, KeptBalance
<1> QED BY <1>5, <1>14

\* COMMIT is sent after that decision, and nothing else is.
LEMMA SideVerdict ==
  ASSUME SingleSubmission, TypeInv, ProtocolInv, NEW c \in calls, c.kind # "EXECUTE"
  PROVE  /\ Decided(Txn(c), "COMMIT") <=> c.kind = "COMMIT"
         /\ CrossTransfer(Txn(c)) /\ c.op \in Sides
<1>1. c \in Calls /\ c.sub \in Submissions /\ Txn(c) \in Transfers /\ WellFormed(c) BY CallParts
<1>2. CrossTransfer(Txn(c)) /\ c.op \in Sides
  BY <1>1 DEF WellFormed, Cross, CrossTransfer, SourceShard, DestShard, Txn, Calls, Sides
<1>3. \A x \in Submissions : TxnOf[x] = Txn(c) <=> x = c.sub BY <1>1 DEF SingleSubmission, Txn
<1>4. Decided(Txn(c), "COMMIT") <=> decision[c.sub] = "COMMIT"
  BY <1>1, <1>3 DEF Decided, SubmissionsOf
<1>5. c.kind = "COMMIT" => decision[c.sub] = "COMMIT" BY DEF ProtocolInv, CallInv
<1>6. c.kind = "ABORT" => decision[c.sub] = "ABORT" BY DEF ProtocolInv, CallInv
<1>7. c.kind = "PREPARE" => decision[c.sub] # "COMMIT"
  <2>1. CASE c.live BY <1>1, <2>1 DEF ProtocolInv, CallInv, PhaseInv
  <2>2. CASE ~c.live BY <1>1, <2>2 DEF ProtocolInv, CallInv, PhaseInv, Abandoned
  <2> QED BY <2>1, <2>2
<1>8. c.kind \in {"PREPARE", "COMMIT", "ABORT"} BY <1>1 DEF Calls
<1> QED BY <1>2, <1>4, <1>5, <1>6, <1>7, <1>8

\* The steps of a side that move no money and change nothing of what the
\* side holds.
Still(c, l, v) ==
  /\ MovesTo(c, l) /\ seen' = [seen EXCEPT ![c.shard][Txn(c)] = v]
  /\ \/ c.pc = "sent" /\ l = "error" /\ v = State(c)
     \/ (Running(c) \/ Acquire(c)) /\ (MineAt(c, c.pc, State(c)) <=> MineAt(c, l, v))

SomeStill(c) == UNCHANGED ledger /\ \E l \in RunningAt \cup Answers : \E v : Still(c, l, v)

\* Every step of PrepareTransaction but reserve.
LEMMA PrepareStill ==
  ASSUME SingleSubmission, TypeInv, ProtocolInv, StageInv, BudgetInv, Sound, Sound', NEW c \in calls,
         c.kind = "PREPARE", PrepareSeen(c) \/ BeginPrepare(c) \/ LogPrepared(c) \/ LogAborted(c)
  PROVE  SomeStill(c)
<1>1. ~Decided(Txn(c), "COMMIT") /\ c.op \in Sides BY SideVerdict
<1>2. c.shard \in Shards /\ Stage(c) BY CallParts DEF StageInv
<1>3. seen = [seen EXCEPT ![c.shard][Txn(c)] = State(c)] BY SeenParts
<1>4. /\ \A l \in RunningAt : Goto(c, l) => MovesTo(c, l)
      /\ \A l \in Answers : Return(c, l) => MovesTo(c, l)
  BY MoveParts, Zenon
<1> USE DEF Still, SomeStill
<1>5. CASE PrepareSeen(c)
  <2> DEFINE l == IF State(c) \in {"PREPARED", "COMMITTED"} THEN "ok" ELSE "error"
  <2>1. l \in Answers /\ c.pc = "sent" /\ Acquire(c) /\ MovesTo(c, l) /\ UNCHANGED <<ledger, seen>>
    BY <1>4, <1>5 DEF PrepareSeen, Answers, Acquire
  <2>2. MineAt(c, c.pc, State(c)) <=> MineAt(c, l, State(c)) BY <1>1, <2>1 DEF MineAt, Answers
  <2>3. Still(c, l, State(c)) BY <2>1, <2>2, <1>3
  <2> QED BY <2>1, <2>3, Zenon
<1>6. CASE BeginPrepare(c)
  <2>1. PICK l \in {"logAborted", "reserve", "logPrepared"} :
          Goto(c, l) /\ (l = "logPrepared" => c.op # "DEBIT")
    BY <1>6, Zenon DEF BeginPrepare
  <2>2. /\ Acquire(c) /\ c.pc = "sent" /\ State(c) = "NONE" /\ UNCHANGED ledger
        /\ seen' = [seen EXCEPT ![c.shard][Txn(c)] = "PENDING"]
    BY <1>6 DEF BeginPrepare, Acquire, SetState
  <2>3. l \in RunningAt /\ MovesTo(c, l) BY <2>1, <1>4 DEF RunningAt
  <2>4. MineAt(c, c.pc, State(c)) <=> MineAt(c, l, "PENDING") BY <1>1, <2>1, <2>2 DEF MineAt
  <2>5. Still(c, l, "PENDING") BY <2>2, <2>3, <2>4
  <2> QED BY <2>2, <2>3, <2>5, Zenon
<1>7. CASE LogPrepared(c)
  <2>1. /\ c.pc = "logPrepared" /\ UNCHANGED ledger /\ Return(c, "ok")
        /\ seen' = [seen EXCEPT ![c.shard][Txn(c)] = "PREPARED"]
    BY <1>7, <1>2, NoFailure, Zenon DEF LogPrepared, SetState
  <2>2. "ok" \in Answers /\ MovesTo(c, "ok") /\ Running(c) BY <2>1, <1>4 DEF Answers, Running, RunningAt
  <2>3. MineAt(c, c.pc, State(c)) <=> MineAt(c, "ok", "PREPARED") BY <1>1, <2>1 DEF MineAt
  <2>4. Still(c, "ok", "PREPARED") BY <2>1, <2>2, <2>3
  <2> QED BY <2>1, <2>2, <2>4, Zenon
<1>8. CASE LogAborted(c)
  <2>1. /\ c.pc = "logAborted" /\ UNCHANGED ledger /\ Return(c, "error")
        /\ seen' = [seen EXCEPT ![c.shard][Txn(c)] = "ABORTED"]
    BY <1>8 DEF LogAborted, SetState
  <2>2. "error" \in Answers /\ MovesTo(c, "error") /\ Running(c) BY <2>1, <1>4 DEF Answers, Running, RunningAt
  <2>3. State(c) = "PENDING" BY <1>2, <2>1 DEF Stage, StageAt
  <2>4. MineAt(c, c.pc, State(c)) <=> MineAt(c, "error", "ABORTED") BY <1>1, <2>1, <2>3 DEF MineAt
  <2>5. Still(c, "error", "ABORTED") BY <2>1, <2>2, <2>4
  <2> QED BY <2>1, <2>2, <2>5, Zenon
<1> QED BY <1>5, <1>6, <1>7, <1>8, Zenon

\* Every step of CommitTransaction but the credit.
LEMMA CommitStill ==
  ASSUME SingleSubmission, TypeInv, ProtocolInv, BudgetInv, Sound, Sound', NEW c \in calls,
         c.kind = "COMMIT", CommitSeen(c) \/ BeginCommit(c) \/ LogCommitted(c)
  PROVE  SomeStill(c)
<1>1. Decided(Txn(c), "COMMIT") /\ c.op \in Sides BY SideVerdict
<1>2. c.shard \in Shards BY CallParts
<1>3. seen = [seen EXCEPT ![c.shard][Txn(c)] = State(c)] BY SeenParts
<1>4. /\ \A l \in RunningAt : Goto(c, l) => MovesTo(c, l)
      /\ \A l \in Answers : Return(c, l) => MovesTo(c, l)
  BY MoveParts, Zenon
<1> USE DEF Still, SomeStill
<1>5. CASE CommitSeen(c)
  <2> DEFINE l == IF State(c) = "COMMITTED" THEN "ok" ELSE "error"
  <2>1. l \in Answers /\ c.pc = "sent" /\ Acquire(c) /\ MovesTo(c, l) /\ UNCHANGED <<ledger, seen>>
    BY <1>4, <1>5, Zenon DEF CommitSeen, Answers, Acquire
  <2>2. MineAt(c, c.pc, State(c)) <=> MineAt(c, l, State(c)) BY <1>1, <2>1 DEF MineAt, Answers
  <2>3. Still(c, l, State(c)) BY <2>1, <2>2, <1>3
  <2> QED BY <2>1, <2>3, Zenon
<1>6. CASE BeginCommit(c)
  <2> DEFINE l == IF c.op = "CREDIT" THEN "applyCredit" ELSE "logCommitted"
  <2>1. Acquire(c) /\ c.pc = "sent" /\ UNCHANGED <<ledger, seen>> /\ Goto(c, l)
    BY <1>6, <1>2, NoFailure, Zenon DEF BeginCommit, Acquire
  <2>2. l \in RunningAt /\ MovesTo(c, l) BY <2>1, <1>4 DEF RunningAt
  <2>3. MineAt(c, c.pc, State(c)) <=> MineAt(c, l, State(c)) BY <1>1, <2>1 DEF MineAt, Sides
  <2>4. Still(c, l, State(c)) BY <2>1, <2>2, <2>3, <1>3
  <2> QED BY <2>1, <2>2, <2>4, Zenon
<1>7. CASE LogCommitted(c)
  <2>1. /\ c.pc = "logCommitted" /\ UNCHANGED ledger /\ Return(c, "ok")
        /\ seen' = [seen EXCEPT ![c.shard][Txn(c)] = "COMMITTED"]
    BY <1>7, <1>2, NoFailure DEF LogCommitted, SetState
  <2>2. "ok" \in Answers /\ MovesTo(c, "ok") /\ Running(c) BY <2>1, <1>4 DEF Answers, Running, RunningAt
  <2>3. MineAt(c, c.pc, State(c)) <=> MineAt(c, "ok", "COMMITTED") BY <1>1, <2>1 DEF MineAt
  <2>4. Still(c, "ok", "COMMITTED") BY <2>1, <2>2, <2>3
  <2> QED BY <2>1, <2>2, <2>4, Zenon
<1> QED BY <1>5, <1>6, <1>7, Zenon

\* Every step of AbortTransaction but the release.
LEMMA AbortStill ==
  ASSUME SingleSubmission, TypeInv, ProtocolInv, BudgetInv, Sound, Sound', NEW c \in calls,
         c.kind = "ABORT", AbortSeen(c) \/ MarkAborted(c)
  PROVE  SomeStill(c)
<1>1. ~Decided(Txn(c), "COMMIT") /\ c.op \in Sides BY SideVerdict
<1>2. c.shard \in Shards BY CallParts
<1>3. seen = [seen EXCEPT ![c.shard][Txn(c)] = State(c)] BY SeenParts
<1>4. "ok" \in Answers /\ (Return(c, "ok") => MovesTo(c, "ok")) BY MoveParts, Zenon DEF Answers
<1> USE DEF Still, SomeStill
<1>5. CASE AbortSeen(c)
  <2>1. c.pc = "sent" /\ Acquire(c) /\ MovesTo(c, "ok") /\ UNCHANGED <<ledger, seen>>
    BY <1>4, <1>5 DEF AbortSeen, Acquire
  <2>2. MineAt(c, c.pc, State(c)) <=> MineAt(c, "ok", State(c)) BY <1>1, <2>1 DEF MineAt
  <2>3. Still(c, "ok", State(c)) BY <2>1, <2>2, <1>3
  <2> QED BY <2>1, <2>3, <1>4, Zenon
<1>6. CASE MarkAborted(c)
  <2>1. /\ c.pc = "markAborted" /\ UNCHANGED ledger /\ Return(c, "ok")
        /\ seen' = [seen EXCEPT ![c.shard][Txn(c)] = "ABORTED"]
    BY <1>6, <1>2, NoFailure, Zenon DEF MarkAborted, SetState
  <2>2. MovesTo(c, "ok") /\ Running(c) BY <2>1, <1>4 DEF Running, RunningAt
  <2>3. MineAt(c, c.pc, State(c)) <=> MineAt(c, "ok", "ABORTED") BY <1>1, <2>1 DEF MineAt
  <2>4. Still(c, "ok", "ABORTED") BY <2>1, <2>2, <2>3
  <2> QED BY <2>1, <2>4, <1>4, Zenon
<1> QED BY <1>5, <1>6, Zenon

\* What a debit, a credit or a rollback within int64 does to the accounts.
LEMMA LedgerPoint ==
  ASSUME TypeInv, Headroom, NEW c \in calls, Solvent(ledger[c.shard]), NEW a \in DOMAIN ledger[c.shard],
         Amount[Txn(c)] > 0, NEW k \in {-1, 1}, ledger[c.shard][a] + k * Amount[Txn(c)] >= 0,
         SetLedger(c, [ledger[c.shard] EXCEPT ![a] = Int64(ledger[c.shard][a] + k * Amount[Txn(c)])])
  PROVE  /\ ledger'[c.shard][a] = ledger[c.shard][a] + k * Amount[Txn(c)]
         /\ \A s \in Shards : \A b \in DOMAIN ledger[s] :
              (s # c.shard \/ b # a) => ledger'[s][b] = ledger[s][b]
<1> DEFINE n == Amount[Txn(c)]
           x == ledger[c.shard][a]
<1>1. c.shard \in Shards /\ n \in Int /\ Txn(c) \in Transfers /\ DOMAIN ledger = Shards
  BY CallParts, Zenon DEF TypeInv, TypeOK, ShardTypeOK
<1>2. x \in Nat /\ x + n <= MaxInt64 BY <1>1 DEF Solvent, Headroom
<1>3. Int64(x + k * n) = x + k * n
  <2>1. x + k * n \in Nat /\ x + k * n <= MaxInt64
    <3>1. CASE k = 1 BY <3>1, <1>1, <1>2
    <3>2. CASE k = -1 BY <3>2, <1>1, <1>2, MaxInt64Assumption
    <3> QED BY <3>1, <3>2
  <2> HIDE DEF x, n
  <2> QED BY <2>1, Exact64, Zenon
<1> QED BY <1>1, <1>3 DEF SetLedger

\* Reserving funds moves them from the ledger to what the source is due.
LEMMA ReserveKept ==
  ASSUME SingleSubmission, Summable, TypeInv, TypeInv', ProtocolInv, StageInv, Vouched, Headroom,
         \A s \in Shards : DOMAIN ledger'[s] = DOMAIN ledger[s] /\ Solvent(ledger[s]) /\ Solvent(ledger'[s]),
         NEW c \in calls, Reserve(c), UNCHANGED decision
  PROVE  UNCHANGED <<AbstractBalance, AbstractOutcome>>
<1>1. c.pc = "reserve" /\ Running(c) /\ c.op = "DEBIT" BY DEF Reserve, Running, RunningAt, Vouched
<1>2. c.shard \in Shards /\ WellFormed(c) /\ Stage(c) /\ Amount[Txn(c)] \in Int
  BY CallParts, Zenon DEF StageInv
<1>3. State(c) = "PENDING" /\ c.kind = "PREPARE" BY <1>1, <1>2 DEF Stage, StageAt, WellFormed, KindsAt
<1>4. ~Decided(Txn(c), "COMMIT") /\ CrossTransfer(Txn(c)) /\ c.op \in Sides BY <1>3, SideVerdict
<1>5. seen' = [seen EXCEPT ![c.shard][Txn(c)] = State(c)] BY SeenParts DEF Reserve
<1>6. CASE /\ ValidateDebit(ledger[c.shard], AccountOf(c), Amount[Txn(c)])
           /\ SetLedger(c, ApplyDebit(ledger[c.shard], AccountOf(c), Amount[Txn(c)]))
           /\ Goto(c, "logPrepared")
  <2>1. "logPrepared" \in RunningAt \cup Answers /\ MovesTo(c, "logPrepared")
    BY <1>6, MoveParts, Zenon DEF RunningAt
  <2>2. ~Mine(c) /\ Mine(c)' BY <2>1, <1>1, <1>3, <1>4, <1>5, HandlerMine, Zenon DEF MineAt
  <2>3. /\ AccountOf(c) \in DOMAIN ledger[c.shard] /\ Amount[Txn(c)] > 0
        /\ ledger[c.shard][AccountOf(c)] >= Amount[Txn(c)]
        /\ ledger[c.shard][AccountOf(c)] \in Nat
    BY <1>6, <1>2, Zenon DEF ValidateDebit, AccountExists, Solvent
  <2>4. /\ ledger[c.shard][AccountOf(c)] + (-1) * Amount[Txn(c)] >= 0
        /\ SetLedger(c, [ledger[c.shard] EXCEPT ![AccountOf(c)] =
                           Int64(ledger[c.shard][AccountOf(c)] + (-1) * Amount[Txn(c)])])
    <3>1. ledger[c.shard][AccountOf(c)] + (-1) * Amount[Txn(c)] = ledger[c.shard][AccountOf(c)] - Amount[Txn(c)]
      BY ONLY <2>3, <1>2
    <3>2. ledger[c.shard][AccountOf(c)] - Amount[Txn(c)] >= 0 BY <2>3, <1>2
    <3> QED BY <3>1, <3>2, <1>6, Zenon DEF ApplyDebit
  <2>5. /\ ledger'[c.shard][AccountOf(c)] = ledger[c.shard][AccountOf(c)] + (-1) * Amount[Txn(c)]
        /\ \A s \in Shards : \A b \in DOMAIN ledger[s] :
             (s # c.shard \/ b # AccountOf(c)) => ledger'[s][b] = ledger[s][b]
    BY <2>3, <2>4, <1>2, LedgerPoint, Zenon
  <2>6. ledger'[c.shard][AccountOf(c)] + (IF Mine(c)' THEN Amount[Txn(c)] ELSE 0)
          = ledger[c.shard][AccountOf(c)] + (IF Mine(c) THEN Amount[Txn(c)] ELSE 0)
    BY ONLY <2>2, <2>3, <2>5, <1>2
  <2> QED BY <2>1, <2>5, <2>6, <1>4, <1>5, SideKept, Zenon
<1>7. CASE Goto(c, "logAborted") /\ UNCHANGED ledger
  <2>1. "logAborted" \in RunningAt \cup Answers /\ MovesTo(c, "logAborted")
    BY <1>7, MoveParts, Zenon DEF RunningAt
  <2>2. ~Mine(c) /\ ~Mine(c)' BY <2>1, <1>1, <1>3, <1>4, <1>5, HandlerMine, Zenon DEF MineAt
  <2> QED BY <2>1, <2>2, <1>4, <1>5, <1>7, SideKept, Zenon
<1> QED BY <1>6, <1>7, Zenon DEF Reserve

\* Applying a credit pays out what the destination was owed.
LEMMA CreditKept ==
  ASSUME SingleSubmission, Summable, TypeInv, TypeInv', ProtocolInv, StageInv, Vouched, Headroom,
         \A s \in Shards : DOMAIN ledger'[s] = DOMAIN ledger[s] /\ Solvent(ledger[s]) /\ Solvent(ledger'[s]),
         NEW c \in calls, ApplyCreditStep(c), UNCHANGED decision
  PROVE  UNCHANGED <<AbstractBalance, AbstractOutcome>>
<1>1. c.pc = "applyCredit" /\ Running(c) /\ c.op = "CREDIT" BY Zenon DEF ApplyCreditStep, Running, RunningAt, Vouched
<1>2. c.shard \in Shards /\ WellFormed(c) /\ Stage(c) /\ Amount[Txn(c)] \in Int
  BY CallParts DEF StageInv
<1>3. State(c) # "COMMITTED" /\ c.kind = "COMMIT" BY <1>1, <1>2 DEF Stage, StageAt, WellFormed, KindsAt
<1>4. Decided(Txn(c), "COMMIT") /\ CrossTransfer(Txn(c)) /\ c.op \in Sides BY <1>3, SideVerdict
<1>5. seen' = [seen EXCEPT ![c.shard][Txn(c)] = State(c)] BY SeenParts DEF ApplyCreditStep
<1>6. CASE /\ CanApplyCredit(ledger[c.shard], AccountOf(c), Amount[Txn(c)])
           /\ SetLedger(c, ApplyCredit(ledger[c.shard], AccountOf(c), Amount[Txn(c)]))
           /\ Goto(c, "logCommitted")
  <2>1. "logCommitted" \in RunningAt \cup Answers /\ MovesTo(c, "logCommitted")
    BY <1>6, MoveParts, Zenon DEF RunningAt
  <2>2. Mine(c) /\ ~Mine(c)' BY <2>1, <1>1, <1>3, <1>4, <1>5, HandlerMine, Zenon DEF MineAt
  <2>3. /\ AccountOf(c) \in DOMAIN ledger[c.shard] /\ Amount[Txn(c)] > 0
        /\ ledger[c.shard][AccountOf(c)] \in Nat
    BY <1>6, <1>2 DEF CanApplyCredit, AccountExists, Solvent
  <2>4. /\ ledger[c.shard][AccountOf(c)] + 1 * Amount[Txn(c)] >= 0
        /\ SetLedger(c, [ledger[c.shard] EXCEPT ![AccountOf(c)] =
                           Int64(ledger[c.shard][AccountOf(c)] + 1 * Amount[Txn(c)])])
    <3>1. ledger[c.shard][AccountOf(c)] + 1 * Amount[Txn(c)] = ledger[c.shard][AccountOf(c)] + Amount[Txn(c)]
      BY ONLY <2>3, <1>2
    <3>2. ledger[c.shard][AccountOf(c)] + Amount[Txn(c)] >= 0 BY <2>3, <1>2
    <3> QED BY <3>1, <3>2, <1>6, Zenon DEF ApplyCredit
  <2>5. /\ ledger'[c.shard][AccountOf(c)] = ledger[c.shard][AccountOf(c)] + 1 * Amount[Txn(c)]
        /\ \A s \in Shards : \A b \in DOMAIN ledger[s] :
             (s # c.shard \/ b # AccountOf(c)) => ledger'[s][b] = ledger[s][b]
    BY <2>3, <2>4, <1>2, LedgerPoint, Zenon
  <2>6. ledger'[c.shard][AccountOf(c)] + (IF Mine(c)' THEN Amount[Txn(c)] ELSE 0)
          = ledger[c.shard][AccountOf(c)] + (IF Mine(c) THEN Amount[Txn(c)] ELSE 0)
    BY ONLY <2>2, <2>3, <2>5, <1>2
  <2> QED BY <2>1, <2>5, <2>6, <1>4, <1>5, SideKept, Zenon
<1>7. CASE Return(c, "error") /\ UNCHANGED ledger
  <2>1. "error" \in RunningAt \cup Answers /\ MovesTo(c, "error")
    BY <1>7, MoveParts, Zenon DEF Answers
  <2>2. Mine(c)' <=> Mine(c) BY <2>1, <1>1, <1>3, <1>4, <1>5, HandlerMine, Zenon DEF MineAt
  <2> QED BY <2>1, <2>2, <1>4, <1>5, <1>7, SideKept, Zenon
<1> QED BY <1>6, <1>7 DEF ApplyCreditStep

\* Releasing a reservation moves it back into the ledger.
LEMMA ReleaseKept ==
  ASSUME SingleSubmission, Summable, TypeInv, TypeInv', ProtocolInv, Vouched, Headroom,
         \A s \in Shards : DOMAIN ledger'[s] = DOMAIN ledger[s] /\ Solvent(ledger[s]) /\ Solvent(ledger'[s]),
         NEW c \in calls, BeginAbort(c), UNCHANGED decision
  PROVE  UNCHANGED <<AbstractBalance, AbstractOutcome>>
<1>1. c.kind = "ABORT" /\ c.pc = "sent" /\ Acquire(c) BY DEF BeginAbort, Acquire
<1>2. c.shard \in Shards /\ WellFormed(c) /\ Amount[Txn(c)] \in Int /\ Txn(c) \in Transfers
  BY CallParts
<1>3. ~Decided(Txn(c), "COMMIT") /\ CrossTransfer(Txn(c)) /\ c.op \in Sides BY <1>1, SideVerdict
<1>4. seen' = [seen EXCEPT ![c.shard][Txn(c)] = State(c)] BY SeenParts DEF BeginAbort
<1>5. "markAborted" \in RunningAt \cup Answers /\ MovesTo(c, "markAborted")
  BY MoveParts, Zenon DEF RunningAt, BeginAbort
<1>6. ~Mine(c)' /\ (Mine(c) <=> c.op = "DEBIT" /\ State(c) = "PREPARED")
  BY <1>1, <1>3, <1>4, <1>5, HandlerMine, Zenon DEF MineAt
<1>7. CASE c.op = "DEBIT" /\ State(c) = "PREPARED"
  <2>1. Known(Txn(c), "DEBIT")
    <3>1. SideState(Txn(c), "DEBIT") = State(c)
      BY <1>2, <1>7, Zenon DEF SideState, State, WellFormed, ShardOf, SourceShard, Txn
    <3> QED BY <3>1, <1>2, <1>3, <1>7 DEF Vouched, CrossTransfers, Sides
  <2>2. /\ AccountOf(c) \in DOMAIN ledger[c.shard] /\ Amount[Txn(c)] > 0
        /\ ledger[c.shard][AccountOf(c)] \in Nat
    BY <2>1, <1>2, <1>7, Zenon DEF Known, AccountOf, WellFormed, ShardOf, SourceShard, Txn, Solvent
  <2>3. SetLedger(c, ApplyCredit(ledger[c.shard], AccountOf(c), Amount[Txn(c)]))
    BY <2>2, <1>7 DEF BeginAbort, RollbackDebit, CanApplyCredit, AccountExists
  <2>4. /\ ledger[c.shard][AccountOf(c)] + 1 * Amount[Txn(c)] >= 0
        /\ SetLedger(c, [ledger[c.shard] EXCEPT ![AccountOf(c)] =
                           Int64(ledger[c.shard][AccountOf(c)] + 1 * Amount[Txn(c)])])
    <3>1. ledger[c.shard][AccountOf(c)] + 1 * Amount[Txn(c)] = ledger[c.shard][AccountOf(c)] + Amount[Txn(c)]
      BY ONLY <2>2, <1>2
    <3>2. ledger[c.shard][AccountOf(c)] + Amount[Txn(c)] >= 0 BY <2>2, <1>2
    <3> QED BY <3>1, <3>2, <2>3, Zenon DEF ApplyCredit
  <2>5. /\ ledger'[c.shard][AccountOf(c)] = ledger[c.shard][AccountOf(c)] + 1 * Amount[Txn(c)]
        /\ \A s \in Shards : \A b \in DOMAIN ledger[s] :
             (s # c.shard \/ b # AccountOf(c)) => ledger'[s][b] = ledger[s][b]
    BY <2>2, <2>4, <1>2, LedgerPoint, Zenon
  <2>6. ledger'[c.shard][AccountOf(c)] + (IF Mine(c)' THEN Amount[Txn(c)] ELSE 0)
          = ledger[c.shard][AccountOf(c)] + (IF Mine(c) THEN Amount[Txn(c)] ELSE 0)
    BY ONLY <2>2, <2>5, <1>2, <1>6, <1>7
  <2> QED BY <2>5, <2>6, <1>3, <1>4, <1>5, SideKept, Zenon
<1>8. CASE ~(c.op = "DEBIT" /\ State(c) = "PREPARED")
  <2>1. UNCHANGED ledger BY <1>8, Zenon DEF BeginAbort
  <2> QED BY <2>1, <1>3, <1>4, <1>5, <1>6, <1>8, SideKept, Zenon
<1> QED BY <1>7, <1>8

\* Handlers of one side of a transfer leave the abstract state alone.
LEMMA SideRefines ==
  ASSUME SingleSubmission, Summable, TypeInv, TypeInv', ProtocolInv, StageInv, BudgetInv, Vouched,
         Headroom, Sound, Sound', \A s \in Shards : Solvent(ledger[s]) /\ Solvent(ledger'[s]),
         NEW c \in calls, c.kind # "EXECUTE", Handle(c) \/ Network(c), HandlerFrame, UNCHANGED decision
  PROVE  UNCHANGED <<AbstractBalance, AbstractOutcome>>
<1>1. \A s \in Shards : DOMAIN ledger'[s] = DOMAIN ledger[s] BY Zenon DEF HandlerFrame
<1>2. c \in Calls /\ WellFormed(c) BY CallParts, Zenon
<1>3. CrossTransfer(Txn(c)) /\ c.op \in Sides BY SideVerdict
<1>4. ASSUME SomeStill(c) PROVE UNCHANGED <<AbstractBalance, AbstractOutcome>>
  <2>1. PICK l \in RunningAt \cup Answers : \E v : Still(c, l, v) BY <1>4 DEF SomeStill
  <2>2. PICK v : Still(c, l, v) BY <2>1
  <2>3. MovesTo(c, l) /\ seen' = [seen EXCEPT ![c.shard][Txn(c)] = v] BY <2>2 DEF Still
  <2>4. Mine(c)' <=> Mine(c) BY <2>2, <2>3, <1>3, HandlerMine, Zenon DEF Still
  <2> QED BY <2>3, <2>4, <1>1, <1>3, <1>4, SideKept, Zenon DEF SomeStill
<1>5. CASE Reserve(c) BY <1>1, <1>5, ReserveKept
<1>6. CASE ApplyCreditStep(c) BY <1>1, <1>6, CreditKept
<1>7. CASE BeginAbort(c) BY <1>1, <1>7, ReleaseKept
<1>8. CASE Network(c)
  <2>1. Return(c, "error") /\ UNCHANGED <<ledger, seen>> /\ c.pc = "sent" BY <1>8, Zenon DEF Network, Refused, Lost
  <2>2. "error" \in Answers /\ MovesTo(c, "error") BY <2>1, MoveParts, Zenon DEF Answers
  <2>3. seen' = [seen EXCEPT ![c.shard][Txn(c)] = State(c)] BY <2>1, SeenParts
  <2>4. Still(c, "error", State(c)) BY <2>1, <2>2, <2>3, Zenon DEF Still
  <2> QED BY <2>1, <2>2, <2>4, <1>4 DEF SomeStill
<1>9. CASE Handle(c) /\ ~Reserve(c) /\ ~ApplyCreditStep(c) /\ ~BeginAbort(c)
  <2>1. c.pc \notin {"logDebit", "logCredit", "applyTransfer"} BY <1>2 DEF WellFormed, KindsAt
  <2>2. \/ PrepareSeen(c) \/ BeginPrepare(c) \/ LogPrepared(c) \/ CommitSeen(c) \/ BeginCommit(c)
        \/ LogCommitted(c) \/ AbortSeen(c) \/ MarkAborted(c) \/ LogAborted(c)
    BY <1>9, <2>1, Zenon DEF Handle, ExecuteSeen, BeginExecute, LogDebit, LogCredit, ReplicationFails, ApplyTransferStep
  <2>3. /\ PrepareSeen(c) \/ BeginPrepare(c) \/ LogPrepared(c) \/ LogAborted(c) => c.kind = "PREPARE"
        /\ CommitSeen(c) \/ BeginCommit(c) \/ LogCommitted(c) => c.kind = "COMMIT"
        /\ AbortSeen(c) \/ MarkAborted(c) => c.kind = "ABORT"
    <3>1. /\ c.pc \in {"logPrepared", "logAborted"} => c.kind = "PREPARE"
          /\ c.pc = "logCommitted" => c.kind = "COMMIT"
          /\ c.pc = "markAborted" => c.kind = "ABORT"
      BY <1>2 DEF WellFormed, KindsAt
    <3> QED BY <3>1, Zenon DEF PrepareSeen, BeginPrepare, LogPrepared, LogAborted, CommitSeen, BeginCommit,
                               LogCommitted, AbortSeen, MarkAborted
  <2>4. SomeStill(c) BY <2>2, <2>3, PrepareStill, CommitStill, AbortStill, Zenon
  <2> QED BY <2>4, <1>4
<1> QED BY <1>5, <1>6, <1>7, <1>8, <1>9, Zenon

-----------------------------------------------------------------------------
(***************************************************************************)
(* Transfers within a shard.                                               *)
(***************************************************************************)

\* Only amounts that were checked are withheld or owed.
LEMMA DuePositive ==
  ASSUME Summable, TypeInv, Vouched, NEW a
  PROVE  /\ \A u \in DueTo(a) : Amount[u] > 0
         /\ DueTo(a) \in SUBSET Transfers /\ TotalOf[DueTo(a)] \in Int /\ TotalOf[DueTo(a)] >= 0
<1>1. ASSUME NEW u \in DueTo(a) PROVE Amount[u] > 0
  <2>1. u \in CrossTransfers /\ u \in Transfers /\ (Withheld(u) \/ Owed(u))
    BY DEF DueTo, Held, CrossTransfers
  <2>2. Cells(u) BY <2>1, MappingNow
  <2>3. At(u, "DEBIT", "logPrepared") => Known(u, "DEBIT") BY DEF At, Vouched
  <2>4. SideState(u, "DEBIT") = "PREPARED" => Known(u, "DEBIT") BY <2>1 DEF Vouched, Sides
  <2>5. Decided(u, "COMMIT") => Known(u, "DEBIT")
    <3> SUFFICES ASSUME NEW x \in Submissions, TxnOf[x] = u, decision[x] = "COMMIT" PROVE Known(u, "DEBIT")
      BY <2>1 DEF Decided, SubmissionsOf
    <3>1. Cross(x) BY <2>1 DEF Cross, CrossTransfers, CrossTransfer, SourceShard, DestShard
    <3> QED BY <3>1 DEF Vouched, Sides
  <2>6. Known(u, "DEBIT") BY <2>1, <2>2, <2>3, <2>4, <2>5 DEF Cells
  <2> QED BY <2>6 DEF Known
<1>2. DueTo(a) \in SUBSET Transfers BY DEF DueTo, CrossTransfers
<1>3. \A u \in DueTo(a) : Amount[u] >= 0 BY <1>1, <1>2, ConstantsAssumption
<1> QED BY <1>1, <1>2, <1>3, Totals

\* The outcome of one transfer is decided, and of no other.
LEMMA DecideStep ==
  ASSUME TypeInv, TypeInv', NEW t \in Transfers, NEW o, o # "open", Outcome(t) = "open", Outcome(t)' = o,
         \A u \in Transfers : u # t => Outcome(u)' = Outcome(u)
  PROVE  Abstract!Decide(t, o) /\ AbstractOutcome' # AbstractOutcome
<1>1. /\ AbstractOutcome = [u \in Transfers |-> Outcome(u)]
      /\ AbstractOutcome' = [u \in Transfers |-> Outcome(u)']
  BY MappingStep
<1>2. /\ \A u \in Transfers : AbstractOutcome[u] = Outcome(u) /\ AbstractOutcome'[u] = Outcome(u)'
  BY <1>1
<1> QED BY <1>2 DEF Abstract!Decide

Refined == Abstract!Next \/ UNCHANGED <<AbstractBalance, AbstractOutcome>>

FateAt(pc, state) ==
  CASE state # "PENDING" -> IF state \in {"COMMITTED", "ABORTED"} THEN state ELSE "open"
    [] state = "PENDING" /\ pc = "logCommitted" -> "COMMITTED"
    [] state = "PENDING" /\ pc = "logAborted" -> "ABORTED"
    [] OTHER -> "open"

\* The outcome before and after the step of the handler.
LEMMA HandlerFate ==
  ASSUME TypeInv, TypeInv', NEW c \in calls, NEW l \in RunningAt \cup Answers, NEW v, MovesTo(c, l),
         seen' = [seen EXCEPT ![c.shard][Txn(c)] = v], c.kind = "EXECUTE"
  PROVE  /\ Txn(c) \in Transfers /\ ~CrossTransfer(Txn(c))
         /\ (Running(c) \/ Acquire(c)) => /\ Outcome(Txn(c)) = FateAt(c.pc, State(c))
                                          /\ Outcome(Txn(c))' = FateAt(l, v)
         /\ (c.pc = "sent" /\ l = "error" /\ v = State(c)) => Outcome(Txn(c))' = Outcome(Txn(c))
<1> DEFINE t == Txn(c)
<1>1. t \in Transfers /\ WellFormed(c) BY CallParts
<1>2. c.op = "TRANSFER" /\ ~CrossTransfer(t)
  BY <1>1 DEF WellFormed, Cross, CrossTransfer, SourceShard, DestShard, Txn
<1>3. Outcome(t) = Fate(t) /\ Outcome(t)' = Fate(t)' BY <1>2 DEF Outcome, CrossTransfer, Txn
<1>4. SideState(t, "TRANSFER") = State(c) /\ SideState(t, "TRANSFER")' = v BY <1>2, CellView, Zenon
<1>5. (Running(c) \/ Acquire(c)) =>
        \A p \in RunningAt : (At(t, "TRANSFER", p) <=> c.pc = p) /\ (At(t, "TRANSFER", p)' <=> l = p)
  <2>1. (Running(c) \/ Acquire(c)) =>
          \A p \in RunningAt : (At(t, c.op, p) <=> c.pc = p) /\ (At(t, c.op, p)' <=> l = p)
    BY CellView, Zenon
  <2> QED BY <2>1, <1>2
<1>6. (c.pc = "sent" /\ l = "error") => \A p \in RunningAt : At(t, "TRANSFER", p)' <=> At(t, "TRANSFER", p)
  <2>1. (c.pc = "sent" /\ l = "error") => \A p \in RunningAt : At(t, c.op, p)' <=> At(t, c.op, p)
    BY CellView, Zenon
  <2> QED BY <2>1, <1>2
<1>7. {"logAborted", "logCommitted"} \subseteq RunningAt BY DEF RunningAt
<1> HIDE DEF t
<1>8. ASSUME Running(c) \/ Acquire(c) PROVE Fate(t) = FateAt(c.pc, State(c)) /\ Fate(t)' = FateAt(l, v)
  <2>1. /\ At(t, "TRANSFER", "logCommitted") <=> c.pc = "logCommitted"
        /\ At(t, "TRANSFER", "logAborted") <=> c.pc = "logAborted"
    BY <1>5, <1>7, <1>8
  <2>2. /\ At(t, "TRANSFER", "logCommitted")' <=> l = "logCommitted"
        /\ At(t, "TRANSFER", "logAborted")' <=> l = "logAborted"
    BY <1>5, <1>7, <1>8
  <2>3. Fate(t) = FateAt(c.pc, State(c)) BY <2>1, <1>4 DEF Fate, FateAt
  <2>4. Fate(t)' = FateAt(l, v) BY <2>2, <1>4 DEF Fate, FateAt
  <2> QED BY <2>3, <2>4
<1>9. ASSUME c.pc = "sent", l = "error", v = State(c) PROVE Fate(t)' = Fate(t)
  <2>1. /\ At(t, "TRANSFER", "logCommitted")' <=> At(t, "TRANSFER", "logCommitted")
        /\ At(t, "TRANSFER", "logAborted")' <=> At(t, "TRANSFER", "logAborted")
        /\ SideState(t, "TRANSFER")' = SideState(t, "TRANSFER")
    BY <1>4, <1>6, <1>7, <1>9
  <2> QED BY <2>1 DEF Fate
<1> QED BY <1>1, <1>2, <1>3, <1>8, <1>9 DEF t

\* Until the transfer is applied, ExecuteSingleShard leaves the outcome
\* open or gives up; afterwards it only writes down what has happened.
LEMMA RowFate ==
  ASSUME NEW c, NEW l \in RunningAt \cup Answers, NEW v, NEW w, NEW ok \in BOOLEAN,
         State(c) \in TxnStates, c.kind = "EXECUTE", ~(c.pc = "applyTransfer" /\ l = "logCommitted"),
         Stage(c), Row(c, l, v, w, ok), Acquire(c) => State(c) # "PENDING"
  PROVE  \/ c.pc = "sent" /\ l = "error" /\ v = State(c)
         \/ /\ Running(c) \/ Acquire(c)
            /\ \/ FateAt(l, v) = FateAt(c.pc, State(c))
               \/ FateAt(l, v) = "ABORTED" /\ FateAt(c.pc, State(c)) = "open"
<1>1. NetworkRow(c, l, v, w) \/ ExecuteRow(c, l, v, w, ok) BY DEF Row
<1>2. CASE NetworkRow(c, l, v, w) BY <1>2 DEF NetworkRow
<1>3. CASE ExecuteRow(c, l, v, w, ok)
  BY <1>3 DEF ExecuteRow, FateAt, Stage, StageAt, Running, RunningAt, TxnStates
<1> QED BY <1>1, <1>2, <1>3

\* ApplyTransfer within int64: the source loses what the destination gains.
LEMMA TransferPoint ==
  ASSUME NEW l, Solvent(l), NEW n \in Int, NEW a, NEW b, CanApplyTransfer(l, a, b, n),
         \A e \in DOMAIN l : l[e] + n <= MaxInt64
  PROVE  \A e \in DOMAIN l :
           ApplyTransfer(l, a, b, n)[e] = l[e] - (IF e = a THEN n ELSE 0) + (IF e = b THEN n ELSE 0)
<1> DEFINE k == ApplyDebit(l, a, n)
<1>1. n > 0 /\ a \in DOMAIN l /\ b \in DOMAIN l /\ l[a] >= n
  BY DEF CanApplyTransfer, ValidateDebit, AccountExists
<1>2. \A e \in DOMAIN l : l[e] \in Nat BY DEF Solvent
<1>3. l[a] - n \in Nat /\ l[a] - n <= MaxInt64 BY <1>1, <1>2, MaxInt64Assumption
<1>4. Int64(l[a] - n) = l[a] - n BY <1>3, Exact64
<1>5. DOMAIN k = DOMAIN l /\ \A e \in DOMAIN l : k[e] = l[e] - (IF e = a THEN n ELSE 0)
  BY <1>1, <1>2, <1>4 DEF ApplyDebit
<1> HIDE DEF k
<1>6. k[b] + n \in Nat /\ k[b] + n <= MaxInt64
  <2>1. l[b] \in Nat /\ l[b] + n <= MaxInt64 /\ (b = a => l[b] >= n) BY <1>1, <1>2
  <2>2. k[b] = l[b] - (IF b = a THEN n ELSE 0) BY <1>1, <1>5
  <2> QED BY <2>1, <2>2, <1>1, MaxInt64Assumption
<1>7. Int64(k[b] + n) = k[b] + n BY <1>6, Exact64
<1>8. ApplyTransfer(l, a, b, n) = [k EXCEPT ![b] = k[b] + n] BY <1>7, Zenon DEF ApplyTransfer, ApplyCredit, k
<1>9. ASSUME NEW e \in DOMAIN l
      PROVE  ApplyTransfer(l, a, b, n)[e] = l[e] - (IF e = a THEN n ELSE 0) + (IF e = b THEN n ELSE 0)
  <2>1. l[e] \in Nat /\ k[e] = l[e] - (IF e = a THEN n ELSE 0) /\ e \in DOMAIN k BY <1>2, <1>5
  <2>2. ApplyTransfer(l, a, b, n)[e] = k[e] + (IF e = b THEN n ELSE 0)
    BY <2>1, <1>8
  <2> QED BY <2>1, <2>2
<1> QED BY <1>9

\* The money of a transfer that commits goes from its source to its
\* destination.
LEMMA CommitStep ==
  ASSUME NEW t \in Transfers, Abstract!Decide(t, "COMMITTED"), AbstractOutcome' # AbstractOutcome,
         Opened' = Opened, {Source[t], Destination[t]} \subseteq Opened,
         Amount[t] > 0, Amount[t] <= AbstractBalance[Source[t]],
         \A a \in Opened : ledger'[Home[a]][a] + TotalOf[DueTo(a)'] =
           (ledger[Home[a]][a] + TotalOf[DueTo(a)]) - (IF a = Source[t] THEN Amount[t] ELSE 0)
                                                  + (IF a = Destination[t] THEN Amount[t] ELSE 0)
  PROVE  Abstract!Next
<1>1. /\ AbstractBalance = [a \in Opened |-> ledger[Home[a]][a] + TotalOf[DueTo(a)]]
      /\ AbstractBalance' = [a \in Opened |-> ledger'[Home[a]][a] + TotalOf[DueTo(a)']]
  BY BalanceIs
<1>2. DOMAIN AbstractBalance = Opened /\ \A a \in Opened : AbstractBalance[a] = ledger[Home[a]][a] + TotalOf[DueTo(a)]
  BY <1>1
<1>3. AbstractBalance' = [a \in DOMAIN AbstractBalance |->
        AbstractBalance[a] - (IF a = Source[t] THEN Amount[t] ELSE 0) + (IF a = Destination[t] THEN Amount[t] ELSE 0)]
  BY <1>1, <1>2, Zenon
<1>4. 0 < Amount[t] BY ConstantsAssumption
<1>5. Abstract!Commit(t) BY <1>2, <1>3, <1>4, Zenon DEF Abstract!Commit
<1> QED BY <1>5 DEF Abstract!Next

\* ApplyTransfer commits the transfer whole.
LEMMA TransferCommits ==
  ASSUME Summable, TypeInv, TypeInv', StageInv, Vouched, Headroom,
         \A s \in Shards : DOMAIN ledger'[s] = DOMAIN ledger[s] /\ Solvent(ledger[s]),
         NEW c \in calls, c.kind = "EXECUTE", c.pc = "applyTransfer", UNCHANGED <<decision, seen>>,
         CanApplyTransfer(ledger[c.shard], Source[Txn(c)], Destination[Txn(c)], Amount[Txn(c)]),
         SetLedger(c, ApplyTransfer(ledger[c.shard], Source[Txn(c)], Destination[Txn(c)], Amount[Txn(c)])),
         Goto(c, "logCommitted")
  PROVE  Abstract!Next
<1> DEFINE t == Txn(c)
           s == c.shard
           n == Amount[t]
<1>1. /\ t \in Transfers /\ s \in Shards /\ n \in Int /\ WellFormed(c) /\ Stage(c) /\ DOMAIN ledger = Shards
      /\ Source[t] \in Accounts /\ Destination[t] \in Accounts
  BY CallParts, Zenon DEF StageInv, TypeInv, TypeOK, ShardTypeOK
<1>2. "logCommitted" \in RunningAt \cup Answers /\ MovesTo(c, "logCommitted") /\ Running(c) /\ State(c) = "PENDING"
  BY <1>1, MoveParts, Zenon DEF RunningAt, Running, Stage, StageAt
<1>3. seen' = [seen EXCEPT ![c.shard][Txn(c)] = State(c)] BY SeenParts
<1>4. ~CrossTransfer(t) /\ Outcome(t) = FateAt(c.pc, State(c)) /\ Outcome(t)' = FateAt("logCommitted", State(c))
  <2>1. /\ ~CrossTransfer(Txn(c))
        /\ (Running(c) \/ Acquire(c)) => /\ Outcome(Txn(c)) = FateAt(c.pc, State(c))
                                         /\ Outcome(Txn(c))' = FateAt("logCommitted", State(c))
    BY <1>2, <1>3, HandlerFate, Zenon
  <2> QED BY <2>1, <1>2, Zenon
<1>5. Outcome(t) = "open" /\ Outcome(t)' = "COMMITTED" BY <1>2, <1>4 DEF FateAt
<1>6. /\ Elsewhere(t) /\ \A u \in Transfers : (u # t \/ CrossTransfer(u)) => Outcome(u)' = Outcome(u)
  BY <1>2, <1>3, HandlerElsewhere, Zenon
<1>7. Abstract!Decide(t, "COMMITTED") /\ AbstractOutcome' # AbstractOutcome
  BY <1>1, <1>5, <1>6, DecideStep, Zenon
<1>8. \A a : DueTo(a)' = DueTo(a) BY <1>4, <1>6, Zenon DEF DueTo, Held, Elsewhere, CrossTransfers
<1>9. s = Home[Source[t]] /\ s = Home[Destination[t]]
  BY <1>1, <1>4, Zenon DEF WellFormed, ShardOf, SourceShard, DestShard, CrossTransfer, Txn
<1>10. Opened' = Opened BY ConstantsAssumption, Zenon DEF Opened
<1>11. /\ n > 0 /\ Source[t] \in DOMAIN ledger[s] /\ Destination[t] \in DOMAIN ledger[s]
       /\ ledger[s][Source[t]] >= n
  BY Zenon DEF CanApplyTransfer, ValidateDebit, AccountExists
<1>12. {Source[t], Destination[t]} \subseteq Opened BY <1>1, <1>9, <1>11, Zenon DEF Opened
<1>13. \A a \in Opened : Home[a] \in Shards /\ a \in DOMAIN ledger[Home[a]] /\ ledger[Home[a]][a] \in Nat
  BY ConstantsAssumption, Zenon DEF Opened, Solvent
<1>14. \A a \in Opened : ledger'[Home[a]][a] =
         ledger[Home[a]][a] - (IF a = Source[t] THEN n ELSE 0) + (IF a = Destination[t] THEN n ELSE 0)
  <2>1. \A e \in DOMAIN ledger[s] : ledger[s][e] + n <= MaxInt64 BY <1>1, Zenon DEF Headroom
  <2>2. \A e \in DOMAIN ledger[s] : ApplyTransfer(ledger[s], Source[t], Destination[t], n)[e] =
          ledger[s][e] - (IF e = Source[t] THEN n ELSE 0) + (IF e = Destination[t] THEN n ELSE 0)
    <3>1. Solvent(ledger[s]) /\ n \in Int /\ CanApplyTransfer(ledger[s], Source[t], Destination[t], n) BY <1>1, Zenon
    <3> HIDE DEF s, t, n
    <3> QED BY ONLY <3>1, <2>1, TransferPoint
  <2>3. /\ ledger'[s] = ApplyTransfer(ledger[s], Source[t], Destination[t], n)
        /\ \A r \in Shards : r # s => ledger'[r] = ledger[r]
    BY <1>1, Zenon DEF SetLedger
  <2> HIDE DEF s, t, n
  <2>4. ASSUME NEW a \in Opened, Home[a] = s
        PROVE  ledger'[Home[a]][a] =
                 ledger[Home[a]][a] - (IF a = Source[t] THEN n ELSE 0) + (IF a = Destination[t] THEN n ELSE 0)
    BY ONLY <2>2, <2>3, <2>4, <1>13
  <2>5. ASSUME NEW a \in Opened, Home[a] # s
        PROVE  ledger'[Home[a]][a] =
                 ledger[Home[a]][a] - (IF a = Source[t] THEN n ELSE 0) + (IF a = Destination[t] THEN n ELSE 0)
    <3>1. ledger'[Home[a]][a] = ledger[Home[a]][a] BY <2>3, <2>5, <1>13, Zenon
    <3>2. a # Source[t] /\ a # Destination[t] BY <2>5, <1>9, Zenon
    <3>n. ledger[Home[a]][a] \in Nat BY <1>13, Zenon
    <3>3. ledger[Home[a]][a] \in Int BY ONLY <3>n
    <3>4. (ledger[Home[a]][a] - 0) + 0 = ledger[Home[a]][a] BY ONLY <3>3
    <3> QED BY <3>1, <3>2, <3>4, Zenon
  <2> QED BY <2>4, <2>5, Zenon
<1> HIDE DEF s, t, n
<1>15. \A a : TotalOf[DueTo(a)] \in Int /\ TotalOf[DueTo(a)] >= 0 BY DuePositive, Zenon
<1>16. /\ AbstractBalance = [a \in Opened |-> ledger[Home[a]][a] + TotalOf[DueTo(a)]]
       /\ AbstractBalance' = [a \in Opened |-> ledger'[Home[a]][a] + TotalOf[DueTo(a)]]
  BY <1>8, <1>10, BalanceIs, Zenon
<1>17. n <= AbstractBalance[Source[t]]
  <2>1. AbstractBalance[Source[t]] = ledger[s][Source[t]] + TotalOf[DueTo(Source[t])]
    BY <1>9, <1>12, <1>16, Zenon
  <2>2. ledger[s][Source[t]] \in Nat BY <1>9, <1>12, <1>13, Zenon
  <2>3. n \in Int /\ n <= ledger[s][Source[t]] /\ ledger[s][Source[t]] \in Int BY ONLY <2>2, <1>1, <1>11
  <2> QED BY ONLY <2>1, <2>3, <1>15
<1>18. \A a \in Opened : ledger'[Home[a]][a] + TotalOf[DueTo(a)'] =
         (ledger[Home[a]][a] + TotalOf[DueTo(a)]) - (IF a = Source[t] THEN n ELSE 0) + (IF a = Destination[t] THEN n ELSE 0)
  <2> SUFFICES ASSUME NEW a \in Opened
               PROVE  ledger'[Home[a]][a] + TotalOf[DueTo(a)] =
                 (ledger[Home[a]][a] + TotalOf[DueTo(a)]) - (IF a = Source[t] THEN n ELSE 0) + (IF a = Destination[t] THEN n ELSE 0)
    BY <1>8, Zenon
  <2> DEFINE p == IF a = Source[t] THEN n ELSE 0
             q == IF a = Destination[t] THEN n ELSE 0
  <2>1. p \in Int /\ q \in Int /\ ledger[Home[a]][a] \in Int /\ TotalOf[DueTo(a)] \in Int
    BY ONLY <1>1, <1>13, <1>15
  <2>2. ledger'[Home[a]][a] = (ledger[Home[a]][a] - p) + q BY <1>14, Zenon
  <2> HIDE DEF p, q
  <2>3. ledger'[Home[a]][a] + TotalOf[DueTo(a)] = ((ledger[Home[a]][a] + TotalOf[DueTo(a)]) - p) + q
    BY ONLY <2>1, <2>2
  <2> QED BY <2>3, Zenon DEF p, q
<1> QED BY <1>1, <1>7, <1>10, <1>11, <1>12, <1>17, <1>18, CommitStep, Zenon DEF n

\* Without touching the ledger, ExecuteSingleShard changes nothing or
\* aborts.
LEMMA ExecuteQuiet ==
  ASSUME TypeInv, TypeInv', NEW c \in calls, c.kind = "EXECUTE", Stage(c), Acquire(c) => State(c) # "PENDING",
         UNCHANGED <<decision, ledger>>,
         NEW l \in RunningAt \cup Answers, NEW v, NEW w, NEW ok \in BOOLEAN, Row(c, l, v, w, ok), MovesTo(c, l),
         seen' = [seen EXCEPT ![c.shard][Txn(c)] = v], ~(c.pc = "applyTransfer" /\ l = "logCommitted")
  PROVE  Refined
<1> DEFINE t == Txn(c)
<1>1. State(c) \in TxnStates /\ (Acquire(c) => State(c) # "PENDING")
  BY CallParts
<1>2. \/ c.pc = "sent" /\ l = "error" /\ v = State(c)
      \/ /\ Running(c) \/ Acquire(c)
         /\ \/ FateAt(l, v) = FateAt(c.pc, State(c))
            \/ FateAt(l, v) = "ABORTED" /\ FateAt(c.pc, State(c)) = "open"
  BY <1>1, RowFate
<1>3. /\ t \in Transfers /\ ~CrossTransfer(t)
      /\ (Running(c) \/ Acquire(c)) => Outcome(t) = FateAt(c.pc, State(c)) /\ Outcome(t)' = FateAt(l, v)
      /\ (c.pc = "sent" /\ l = "error" /\ v = State(c)) => Outcome(t)' = Outcome(t)
  BY HandlerFate, Zenon
<1>4. Elsewhere(t) /\ \A u \in Transfers : (u # t \/ CrossTransfer(u)) => Outcome(u)' = Outcome(u)
  BY HandlerElsewhere, Zenon
<1> HIDE DEF t
<1>5. UNCHANGED AbstractBalance
  <2>1. Opened' = Opened /\ \A a \in Opened : ledger'[Home[a]][a] = ledger[Home[a]][a] BY DEF Opened
  <2>2. \A u \in CrossTransfers : (Withheld(u)' <=> Withheld(u)) /\ (Owed(u)' <=> Owed(u))
    BY <1>3, <1>4 DEF Elsewhere, CrossTransfers
  <2> QED BY <2>1, <2>2, SameBalance
<1>6. CASE Outcome(t)' = Outcome(t)
  <2>1. UNCHANGED AbstractOutcome BY <1>4, <1>6, MappingStep
  <2> QED BY <2>1, <1>5 DEF Refined
<1>7. CASE Outcome(t) = "open" /\ Outcome(t)' = "ABORTED"
  <2>1. Abstract!Decide(t, "ABORTED") /\ AbstractOutcome' # AbstractOutcome BY <1>3, <1>4, <1>7, DecideStep
  <2> QED BY <2>1, <1>3, <1>5 DEF Refined, Abstract!Next, Abstract!Abort
<1> QED BY <1>2, <1>3, <1>6, <1>7

\* ExecuteSingleShard commits the transfer whole, aborts it, or has no
\* effect yet.
LEMMA ExecuteRefines ==
  ASSUME Summable, TypeInv, TypeInv', StageInv, Vouched, Headroom,
         \A s \in Shards : Solvent(ledger[s]),
         NEW c \in calls, c.kind = "EXECUTE", Handle(c) \/ Network(c), HandlerFrame, SomeRow(c),
         Acquire(c) => State(c) # "PENDING", UNCHANGED decision
  PROVE  Refined
<1>1. \A s \in Shards : DOMAIN ledger'[s] = DOMAIN ledger[s] BY Zenon DEF HandlerFrame
<1>2. c \in Calls /\ WellFormed(c) /\ Stage(c) BY CallParts, Zenon DEF StageInv
<1>3. {"logAborted", "error"} \subseteq RunningAt \cup Answers BY DEF RunningAt, Answers
<1>4. seen = [seen EXCEPT ![c.shard][Txn(c)] = State(c)] BY SeenParts
<1>5. CASE ApplyTransferStep(c)
  <2>1. c.pc = "applyTransfer" /\ UNCHANGED seen BY <1>5, Zenon DEF ApplyTransferStep
  <2>2. CASE /\ CanApplyTransfer(ledger[c.shard], Source[Txn(c)], Destination[Txn(c)], Amount[Txn(c)])
             /\ SetLedger(c, ApplyTransfer(ledger[c.shard], Source[Txn(c)], Destination[Txn(c)], Amount[Txn(c)]))
             /\ Goto(c, "logCommitted")
    BY <2>1, <2>2, <1>1, TransferCommits, Zenon DEF Refined
  <2>3. CASE Goto(c, "logAborted") /\ UNCHANGED ledger
    <3>1. Row(c, "logAborted", State(c), "none", TRUE) BY <2>1 DEF Row, ExecuteRow
    <3>2. MovesTo(c, "logAborted") BY <2>3, MoveParts, Zenon DEF RunningAt
    <3> QED BY <3>1, <3>2, <2>1, <2>3, <1>2, <1>3, <1>4, ExecuteQuiet, Zenon
  <2> QED BY <2>2, <2>3, <1>5, Zenon DEF ApplyTransferStep
<1>6. CASE ReplicationFails(c)
  <2>1. c.pc \in {"logCredit", "applyTransfer"} /\ UNCHANGED ledger /\ Forget(c) BY <1>6 DEF ReplicationFails
  <2>2. Row(c, "error", "NONE", "none", TRUE) BY <2>1 DEF Row, ExecuteRow
  <2>3. MovesTo(c, "error") /\ seen' = [seen EXCEPT ![c.shard][Txn(c)] = "NONE"] BY <2>1, MoveParts
  <2> QED BY <2>1, <2>2, <2>3, <1>2, <1>3, ExecuteQuiet, Zenon
<1>7. CASE ~ApplyTransferStep(c) /\ ~ReplicationFails(c)
  <2>1. c.pc \notin {"reserve", "logPrepared", "applyCredit", "markAborted"} BY <1>2 DEF WellFormed, KindsAt
  <2>2. \/ ExecuteSeen(c) \/ BeginExecute(c) \/ LogDebit(c) \/ LogCredit(c) \/ LogCommitted(c) \/ LogAborted(c)
        \/ Network(c)
    BY Zenon, <1>7, <2>1 DEF Handle, PrepareSeen, BeginPrepare, Reserve, LogPrepared, CommitSeen, BeginCommit,
                      ApplyCreditStep, AbortSeen, BeginAbort, MarkAborted
  <2>3. UNCHANGED ledger /\ c.pc # "applyTransfer"
    BY <2>2, Zenon DEF ExecuteSeen, BeginExecute, LogDebit, LogCredit, LogCommitted, LogAborted, Network, Refused, Lost, Acquire
  <2>4. PICK l \in RunningAt \cup Answers, v \in TxnStates, w \in Entries, ok \in BOOLEAN : Takes(c, l, v, w, ok)
    BY Zenon DEF SomeRow
  <2>5. Row(c, l, v, w, ok) /\ MovesTo(c, l) /\ seen' = [seen EXCEPT ![c.shard][Txn(c)] = v] BY <2>4 DEF Takes
  <2> QED BY <2>3, <2>5, <1>2, ExecuteQuiet, Zenon
<1> QED BY <1>5, <1>6, <1>7

-----------------------------------------------------------------------------
(***************************************************************************)
(* Steps of the coordinator, seen through the mapping.                     *)
(***************************************************************************)

\* The coordinator moves no handler and writes nothing on a shard.
LEMMA CoordCells ==
  ASSUME TypeInv, CoordEffect
  PROVE  \A t, op : SideState(t, op)' = SideState(t, op) /\ \A p \in RunningAt : At(t, op, p)' <=> At(t, op, p)
<1>1. \A t, op : SideState(t, op)' = SideState(t, op) BY DEF SideState, CoordEffect, localFrame
<1>2. PICK D, G, R : CallsEffect(D, G, R) BY DEF CoordEffect
<1>3. ASSUME NEW t, NEW op, NEW p \in RunningAt, At(t, op, p)' PROVE At(t, op, p)
  <2>1. PICK d \in calls' : Txn(d) = t /\ d.op = op /\ d.pc = p BY <1>3 DEF At, Txn
  <2>2. d \notin R BY <2>1, <1>2 DEF CallsEffect, RunningAt
  <2>3. \E c \in calls : d.sub = c.sub /\ d.op = c.op /\ d.pc = c.pc
    <3> SUFFICES ASSUME d \in {[c EXCEPT !.live = FALSE] : c \in G}
                 PROVE  \E c \in calls : d.sub = c.sub /\ d.op = c.op /\ d.pc = c.pc
      BY <2>2, <1>2, Zenon DEF CallsEffect
    <3>1. PICK c \in G : d = [c EXCEPT !.live = FALSE] OBVIOUS
    <3>2. c \in calls /\ c \in Calls BY <1>2 DEF CallsEffect, TypeInv, TypeOK, ShardTypeOK
    <3>3. d.sub = c.sub /\ d.op = c.op /\ d.pc = c.pc BY <3>1, <3>2, Zenon DEF Calls
    <3> QED BY <3>2, <3>3
  <2> QED BY <2>1, <2>3 DEF At, Txn
<1>4. ASSUME NEW t, NEW op, NEW p \in RunningAt, At(t, op, p) PROVE At(t, op, p)'
  <2>1. PICK c \in calls : Txn(c) = t /\ c.op = op /\ c.pc = p BY <1>4 DEF At
  <2>2. c \notin D BY <2>1, <1>2 DEF CallsEffect, RunningAt, Answers
  <2>3. CASE c \in G
    <3> DEFINE d == [c EXCEPT !.live = FALSE]
    <3>1. d \in calls' BY <2>3, <1>2, Zenon DEF CallsEffect
    <3>2. c \in Calls BY CallParts
    <3>3. d.sub = c.sub /\ d.op = c.op /\ d.pc = c.pc BY <3>2 DEF Calls
    <3> HIDE DEF d
    <3> QED BY <3>1, <3>3, <2>1 DEF At, Txn
  <2>4. CASE c \notin G
    <3>1. c \in calls' BY <2>2, <2>4, <1>2 DEF CallsEffect
    <3> QED BY <3>1, <2>1 DEF At, Txn
  <2> QED BY <2>3, <2>4
<1> QED BY <1>1, <1>3, <1>4

\* What holds of a transfer the coordinator takes no decision on.
LEMMA CoordSame ==
  ASSUME TypeInv, TypeInv', CoordEffect, NEW u \in Transfers, \A d : Decided(u, d)' <=> Decided(u, d)
  PROVE  Outcome(u)' = Outcome(u) /\ (Withheld(u)' <=> Withheld(u)) /\ (Owed(u)' <=> Owed(u))
<1>1. /\ \A op : SideState(u, op)' = SideState(u, op)
      /\ \A op : \A p \in {"logPrepared", "markAborted", "logCommitted", "logAborted"} : At(u, op, p)' <=> At(u, op, p)
  BY CoordCells DEF RunningAt
<1>2. Cells(u) /\ Cells(u)' BY MappingStep
<1>3. Fate(u)' = Fate(u) BY <1>1 DEF Fate
<1>4. Outcome(u)' = Outcome(u) BY <1>3 DEF Outcome, CrossTransfer
<1>5. (Withheld(u)' <=> Withheld(u)) /\ (Owed(u)' <=> Owed(u)) BY <1>1, <1>2 DEF Cells
<1> QED BY <1>4, <1>5

\* Everything but the decision itself is invisible.
LEMMA CoordQuiet ==
  ASSUME TypeInv, TypeInv', CoordEffect, UNCHANGED decision
  PROVE  UNCHANGED <<AbstractBalance, AbstractOutcome>>
<1>1. UNCHANGED ledger BY DEF CoordEffect, localFrame
<1>2. \A u, d : Decided(u, d)' <=> Decided(u, d) BY DEF Decided
<1>3. \A u \in Transfers : Outcome(u)' = Outcome(u) /\ (Withheld(u)' <=> Withheld(u)) /\ (Owed(u)' <=> Owed(u))
  BY <1>2, CoordSame
<1>4. UNCHANGED AbstractOutcome BY <1>3, MappingStep
<1>5. UNCHANGED AbstractBalance
  <2>1. Opened' = Opened /\ \A a \in Opened : ledger'[Home[a]][a] = ledger[Home[a]][a] BY <1>1 DEF Opened
  <2>2. \A u \in CrossTransfers : (Withheld(u)' <=> Withheld(u)) /\ (Owed(u)' <=> Owed(u)) BY <1>3 DEF CrossTransfers
  <2> QED BY <2>1, <2>2, SameBalance, Zenon
<1> QED BY <1>4, <1>5

\* Deciding submission x decides its transfer, and no other.
LEMMA DecidedStep ==
  ASSUME SingleSubmission, TypeInv, NEW x \in Submissions, decision[x] = "none", NEW d,
         decision' = [decision EXCEPT ![x] = d]
  PROVE  /\ \A u \in Transfers : \A e : u # TxnOf[x] => (Decided(u, e)' <=> Decided(u, e))
         /\ \A e : Decided(TxnOf[x], e) <=> e = "none"
         /\ \A e : Decided(TxnOf[x], e)' <=> e = d
<1>2. \A y \in Submissions : decision'[y] = IF y = x THEN d ELSE decision[y] BY DEF TypeInv, TypeOK
<1>3. TxnOf[x] \in Transfers BY ConstantsAssumption
<1>4. \A y \in Submissions : TxnOf[y] = TxnOf[x] => y = x BY DEF SingleSubmission
<1>5. ASSUME NEW u \in Transfers, NEW e, u # TxnOf[x] PROVE Decided(u, e)' <=> Decided(u, e)
  <2>1. \A y \in Submissions : TxnOf[y] = u => decision'[y] = decision[y] BY <1>2, <1>5, Zenon
  <2> QED BY ONLY <2>1 DEF Decided, SubmissionsOf
<1>6. \A e : (Decided(TxnOf[x], e) <=> e = "none") /\ (Decided(TxnOf[x], e)' <=> e = d)
  <2> TAKE e
  <2>1. decision'[x] = d BY <1>2, Zenon
  <2>2. (Decided(TxnOf[x], e) <=> \E y \in Submissions : TxnOf[y] = TxnOf[x] /\ decision[y] = e)
        /\ (Decided(TxnOf[x], e)' <=> \E y \in Submissions : TxnOf[y] = TxnOf[x] /\ decision'[y] = e)
    BY ONLY <1>3, Zenon DEF Decided, SubmissionsOf
  <2> QED BY <2>1, <2>2, <1>4, Zenon
<1> QED BY <1>5, <1>6

\* The coordinator decides: the outcome of the transfer, and of no other,
\* is settled.
LEMMA CoordDecides ==
  ASSUME SingleSubmission, TypeInv, TypeInv', PhaseInv, CoordEffect, NEW x \in Submissions, phase[x] = "preparing",
         NEW d \in {"COMMIT", "ABORT"}, decision' = [decision EXCEPT ![x] = d]
  PROVE  /\ TxnOf[x] \in CrossTransfers /\ Elsewhere(TxnOf[x])
         /\ Abstract!Decide(TxnOf[x], IF d = "COMMIT" THEN "COMMITTED" ELSE "ABORTED")
         /\ AbstractOutcome' # AbstractOutcome
         /\ decision[x] = "none"
<1> DEFINE t == TxnOf[x]
<1>1. decision[x] = "none" BY DEF PhaseInv
<1>2. Cross(x) BY DEF TypeInv, RoutedInv
<1>3. t \in Transfers /\ t \in CrossTransfers /\ CrossTransfer(t)
  BY <1>2, ConstantsAssumption DEF Cross, CrossTransfers, CrossTransfer, SourceShard, DestShard
<1>4. /\ \A u \in Transfers : \A e : u # t => (Decided(u, e)' <=> Decided(u, e))
      /\ \A e : Decided(t, e) <=> e = "none"
      /\ \A e : Decided(t, e)' <=> e = d
  BY <1>1, DecidedStep, Zenon
<1> HIDE DEF t
<1>5. \A u \in Transfers : u # t =>
        Outcome(u)' = Outcome(u) /\ (Withheld(u)' <=> Withheld(u)) /\ (Owed(u)' <=> Owed(u))
  BY <1>4, CoordSame
<1>6. Elsewhere(t) BY <1>5 DEF Elsewhere, CrossTransfers
<1>7. Outcome(t) = "open" /\ Outcome(t)' = (IF d = "COMMIT" THEN "COMMITTED" ELSE "ABORTED")
  BY <1>3, <1>4 DEF Outcome, CrossTransfer
<1>8. /\ Abstract!Decide(t, IF d = "COMMIT" THEN "COMMITTED" ELSE "ABORTED")
      /\ AbstractOutcome' # AbstractOutcome
  <2>1. (IF d = "COMMIT" THEN "COMMITTED" ELSE "ABORTED") # "open" OBVIOUS
  <2> QED BY <2>1, <1>3, <1>5, <1>7, DecideStep
<1> QED BY <1>1, <1>3, <1>6, <1>8 DEF t

\* Execute takes the branch to abortAll.
LEMMA DecideAborts ==
  ASSUME SingleSubmission, TypeInv, TypeInv', PhaseInv, CoordEffect, NEW x \in Submissions, phase[x] = "preparing",
         decision' = [decision EXCEPT ![x] = "ABORT"]
  PROVE  Abstract!Next
<1> DEFINE t == TxnOf[x]
<1>1. /\ t \in CrossTransfers /\ Elsewhere(t) /\ Abstract!Decide(t, "ABORTED") /\ AbstractOutcome' # AbstractOutcome
      /\ decision[x] = "none"
  BY CoordDecides, Zenon
<1>2. UNCHANGED ledger BY DEF CoordEffect, localFrame
<1>3. ~Decided(t, "COMMIT") /\ ~Decided(t, "COMMIT")' BY <1>1, DecidedStep, Zenon
<1>4. t \in Transfers BY <1>1 DEF CrossTransfers
<1> HIDE DEF t
<1>5. (Withheld(t)' <=> Withheld(t)) /\ (Owed(t)' <=> Owed(t))
  <2>1. Cells(t) /\ Cells(t)' BY <1>4, MappingStep
  <2>2. /\ \A op : SideState(t, op)' = SideState(t, op)
        /\ \A op : \A p \in {"logPrepared", "markAborted"} : At(t, op, p)' <=> At(t, op, p)
    BY CoordCells DEF RunningAt
  <2> QED BY <2>1, <2>2, <1>3 DEF Cells
<1>6. UNCHANGED AbstractBalance
  <2>1. Opened' = Opened /\ \A a \in Opened : ledger'[Home[a]][a] = ledger[Home[a]][a] BY <1>2 DEF Opened
  <2>2. \A u \in CrossTransfers : (Withheld(u)' <=> Withheld(u)) /\ (Owed(u)' <=> Owed(u))
    BY <1>1, <1>5 DEF Elsewhere
  <2> QED BY <2>1, <2>2, SameBalance
<1> QED BY <1>1, <1>4, <1>6 DEF Abstract!Next, Abstract!Abort

\* Execute takes the branch to commitAll: what the source's shard withheld
\* is owed to the destination from here on.
LEMMA DecideCommits ==
  ASSUME SingleSubmission, Summable, TypeInv, TypeInv', PhaseInv, CallInv, Ballot, Vouched, CoordEffect,
         \A s \in Shards : Solvent(ledger[s]),
         NEW x \in Submissions, phase[x] = "preparing", BothPrepared(x),
         decision' = [decision EXCEPT ![x] = "COMMIT"]
  PROVE  Abstract!Next
<1> DEFINE t == TxnOf[x]
           n == Amount[t]
<1>1. /\ t \in CrossTransfers /\ Elsewhere(t) /\ Abstract!Decide(t, "COMMITTED") /\ AbstractOutcome' # AbstractOutcome
      /\ decision[x] = "none"
  BY CoordDecides, Zenon
<1>2. UNCHANGED ledger BY DEF CoordEffect, localFrame
<1>3. ~Decided(t, "COMMIT") /\ Decided(t, "COMMIT")' BY <1>1, DecidedStep, Zenon
<1>4. t \in Transfers /\ n \in Int BY <1>1, ConstantsAssumption DEF CrossTransfers
<1>5. SideState(t, "DEBIT") = "PREPARED" /\ SideState(t, "CREDIT") = "PREPARED"
  BY Zenon DEF Ballot, BothPrepared, Sides, StateOf
<1>6. Known(t, "DEBIT") /\ Known(t, "CREDIT") BY <1>1, <1>5, Zenon DEF Vouched, Sides
<1>7. ~At(t, "DEBIT", "markAborted") /\ ~At(t, "CREDIT", "logCommitted")
  <2> SUFFICES ASSUME NEW c \in calls, Txn(c) = t,
                      c.pc = "markAborted" \/ (c.op = "CREDIT" /\ c.pc = "logCommitted")
               PROVE  FALSE
    BY Zenon DEF At
  <2>1. c.sub = x BY CallParts, Zenon DEF SingleSubmission, Txn, TypeInv
  <2>2. c.kind \in {"COMMIT", "ABORT"} BY DEF TypeInv, WellFormed, KindsAt
  <2> QED BY <2>1, <2>2, <1>1, Zenon DEF CallInv
<1>8. {Source[t], Destination[t]} \subseteq Opened /\ n > 0
  <2>1. Source[t] \in Accounts /\ Destination[t] \in Accounts BY <1>4, ConstantsAssumption
  <2>2. n > 0 /\ Source[t] \in DOMAIN ledger[Home[Source[t]]] BY <1>6, Zenon DEF Known
  <2>3. Destination[t] \in DOMAIN ledger[Home[Destination[t]]] BY <1>6, Zenon DEF Known
  <2> QED BY <2>1, <2>2, <2>3, Zenon DEF Opened
<1> HIDE DEF t
<1>9. Withheld(t) /\ ~Owed(t) /\ ~Withheld(t)' /\ Owed(t)'
  <2>1. Cells(t) /\ Cells(t)' BY <1>4, MappingStep
  <2>2. SideState(t, "CREDIT")' = SideState(t, "CREDIT") /\ ~At(t, "CREDIT", "logCommitted")'
    BY <1>7, CoordCells DEF RunningAt
  <2> QED BY <2>1, <2>2, <1>3, <1>5, <1>7 DEF Cells
<1>10. \A a : /\ Share(t, a) = (IF a = Source[t] THEN n ELSE 0)
              /\ Share(t, a)' = (IF a = Destination[t] THEN n ELSE 0)
  BY <1>9 DEF Share, Held
<1>11. \A a \in Opened : ledger[Home[a]][a] \in Nat BY ConstantsAssumption, Zenon DEF Opened, Solvent
<1>12. Opened' = Opened BY <1>2, Zenon DEF Opened
<1>13. \A a \in Opened : ledger'[Home[a]][a] + TotalOf[DueTo(a)'] =
         (ledger[Home[a]][a] + TotalOf[DueTo(a)]) - (IF a = Source[t] THEN n ELSE 0) + (IF a = Destination[t] THEN n ELSE 0)
  <2> SUFFICES ASSUME NEW a \in Opened
               PROVE  ledger'[Home[a]][a] + TotalOf[DueTo(a)'] =
                        (ledger[Home[a]][a] + TotalOf[DueTo(a)]) - (IF a = Source[t] THEN n ELSE 0) + (IF a = Destination[t] THEN n ELSE 0)
    BY Zenon
  <2> HIDE DEF n
  <2>1. /\ TotalOf[DueTo(a)] \in Int /\ TotalOf[DueTo(a)'] \in Int
        /\ TotalOf[DueTo(a)'] + Share(t, a) = TotalOf[DueTo(a)] + Share(t, a)'
    BY <1>1, TotalsShift, Zenon
  <2>2. Share(t, a) \in Int /\ Share(t, a)' \in Int BY ONLY <1>4, <1>10
  <2>n. ledger[Home[a]][a] \in Nat /\ ledger'[Home[a]][a] = ledger[Home[a]][a] BY <1>2, <1>11, Zenon
  <2>3. ledger[Home[a]][a] \in Int /\ ledger'[Home[a]][a] = ledger[Home[a]][a] BY ONLY <2>n
  <2>4. ledger[Home[a]][a] + TotalOf[DueTo(a)'] =
          ((ledger[Home[a]][a] + TotalOf[DueTo(a)]) - Share(t, a)) + Share(t, a)'
    BY ONLY <2>1, <2>2, <2>3
  <2> QED BY <2>3, <2>4, <1>10, Zenon
<1>14. n <= AbstractBalance[Source[t]]
  <2> DEFINE S == DueTo(Source[t])
  <2>1. t \in S BY <1>1, <1>9 DEF DueTo, Held
  <2>2. S \in SUBSET Transfers /\ \A u \in S : Amount[u] > 0 BY DuePositive
  <2>3. AbstractBalance[Source[t]] = ledger[Home[Source[t]]][Source[t]] + TotalOf[S] BY <1>8, BalanceIs
  <2>4. ledger[Home[Source[t]]][Source[t]] \in Nat BY <1>8, <1>11
  <2> HIDE DEF S
  <2>5. TotalOf[S] = n + TotalOf[S \ {t}] BY <2>1, <2>2, Totals
  <2>6. S \ {t} \in SUBSET Transfers /\ \A u \in S \ {t} : Amount[u] >= 0 BY <2>2, ConstantsAssumption
  <2>7. TotalOf[S \ {t}] \in Int /\ TotalOf[S \ {t}] >= 0 BY <2>6, Totals, Zenon
  <2> HIDE DEF n
  <2>8. ledger[Home[Source[t]]][Source[t]] \in Int /\ ledger[Home[Source[t]]][Source[t]] >= 0 BY <2>4
  <2>9. TotalOf[S] \in Int /\ TotalOf[S] >= n BY ONLY <2>5, <2>7, <1>4
  <2> QED BY ONLY <2>3, <2>8, <2>9, <1>4
<1> QED BY <1>1, <1>4, <1>8, <1>12, <1>13, <1>14, CommitStep, Zenon

\* Whatever a coordinator does commits one transfer whole, aborts one, or
\* is invisible.
LEMMA CoordRefines ==
  ASSUME SingleSubmission, Summable, TypeInv, TypeInv', ProtocolInv, Ballot, Vouched, CoordEffect,
         \A s \in Shards : Solvent(ledger[s]),
         \/ \E c \in calls : Receive(c) \/ Timeout(c)
         \/ \E x \in Submissions : Coordinate(x) \/ CoordinatorCrash(x)
  PROVE  Refined
<1>1. PhaseInv /\ CallInv BY DEF ProtocolInv
<1>2. CASE UNCHANGED decision BY <1>2, CoordQuiet DEF Refined
<1>3. ASSUME NEW x \in Submissions, CommitAll(x) PROVE Refined
  <2>1. /\ phase[x] = "preparing" /\ BothPrepared(x) /\ decision' = [decision EXCEPT ![x] = "COMMIT"]
    BY <1>3 DEF CommitAll, Voted
  <2> QED BY <2>1, <1>1, DecideCommits, Zenon DEF Refined
<1>4. ASSUME NEW x \in Submissions, DecideAbort(x) PROVE Refined
  <2>1. phase[x] = "preparing" /\ decision' = [decision EXCEPT ![x] = "ABORT"]
    BY <1>4, Zenon DEF DecideAbort, Voted
  <2> QED BY <2>1, <1>1, DecideAborts, Zenon DEF Refined
<1>5. ASSUME NEW c \in calls, Receive(c) \/ Timeout(c) PROVE UNCHANGED decision
  BY <1>5, Zenon DEF Receive, Timeout, End, EndExecute, EndPrepare, EndCommit, EndAbort
<1>6. ASSUME NEW x \in Submissions, Coordinate(x) \/ CoordinatorCrash(x), ~CommitAll(x), ~DecideAbort(x)
      PROVE  UNCHANGED decision
  BY <1>6, Zenon DEF Coordinate, RouteSingle, SendPrepares, SendAbort, FinishCommit, FinishAbort, Finish, CoordinatorCrash
<1> QED BY <1>2, <1>3, <1>4, <1>5, <1>6

-----------------------------------------------------------------------------
(***************************************************************************)
(* Account creations, seen through the mapping.                            *)
(***************************************************************************)

\* An account creation opens the account, or is invisible.
LEMMA CreateRefines ==
  ASSUME Summable, TypeInv, TypeInv', Vouched, AtHome, Create, CreateEffect, UNCHANGED coordVars
  PROVE  Refined
<1>1. UNCHANGED <<calls, decision>> BY Zenon DEF CreateEffect, coordVars
<1>2. \A s \in Shards, t \in Transfers : seen'[s][t] = seen[s][t] BY Zenon DEF CreateEffect
<1>3. \A t \in Transfers : \A op : SideState(t, op)' = SideState(t, op) BY <1>2, ConstantsAssumption, Zenon DEF SideState
<1>4. /\ \A t, op, p : At(t, op, p)' <=> At(t, op, p)
      /\ \A t, d : Decided(t, d)' <=> Decided(t, d)
  BY <1>1, Zenon DEF At, Decided, Txn
<1>5. ASSUME NEW u \in Transfers
      PROVE  Outcome(u)' = Outcome(u) /\ (Withheld(u)' <=> Withheld(u)) /\ (Owed(u)' <=> Owed(u))
  <2>1. Cells(u) /\ Cells(u)' BY MappingStep
  <2>2. Fate(u)' = Fate(u) BY <1>3, <1>4 DEF Fate
  <2>3. Outcome(u)' = Outcome(u) BY <2>2, <1>4, Zenon DEF Outcome, CrossTransfer
  <2> QED BY <2>1, <2>3, <1>3, <1>4 DEF Cells
<1>6. UNCHANGED AbstractOutcome BY <1>5, MappingStep
<1>7. \A u \in CrossTransfers : (Withheld(u)' <=> Withheld(u)) /\ (Owed(u)' <=> Owed(u)) BY <1>5 DEF CrossTransfers
<1>8. CASE UNCHANGED ledger
  <2>1. Opened' = Opened /\ \A a \in Opened : ledger'[Home[a]][a] = ledger[Home[a]][a] BY <1>8 DEF Opened
  <2> QED BY <2>1, <1>6, <1>7, SameBalance, Zenon DEF Refined
<1>9. ASSUME NEW s \in Shards, creating[s].pc = "createLedger",
             CanCreateAccount(ledger[s], creating[s].account, creating[s].amount),
             ledger' = [ledger EXCEPT ![s] = SetBalance(@, creating[s].account, creating[s].amount)]
      PROVE  Refined
  <2> DEFINE a == creating[s].account
             n == creating[s].amount
  <2>1. /\ a \in Accounts /\ Home[a] = s /\ n \in Int /\ n >= 0 /\ a \notin DOMAIN ledger[s] /\ DOMAIN ledger = Shards
    BY <1>9, Zenon DEF TypeInv, TypeOK, ShardTypeOK, CreatingOK, AtHome, CreateStates, CanCreateAccount, AccountExists
  <2>2. /\ ledger'[s] = [b \in DOMAIN ledger[s] \cup {a} |-> IF b = a THEN n ELSE ledger[s][b]]
        /\ \A r \in Shards : r # s => ledger'[r] = ledger[r]
    BY <2>1, <1>9 DEF SetBalance
  <2> HIDE DEF a, n
  <2>h. \A b \in Accounts : Home[b] \in Shards BY ConstantsAssumption
  <2>d. /\ DOMAIN ledger'[s] = DOMAIN ledger[s] \cup {a}
        /\ \A b \in DOMAIN ledger[s] : b # a => ledger'[s][b] = ledger[s][b]
    BY ONLY <2>2
  <2>3. a \notin Opened /\ Opened' = Opened \cup {a}
    <3>1. \A b \in Accounts : b \in DOMAIN ledger'[Home[b]] <=> b \in DOMAIN ledger[Home[b]] \/ b = a
      BY ONLY <2>1, <2>2, <2>d, <2>h
    <3> QED BY ONLY <3>1, <2>1 DEF Opened
  <2>4. ledger'[Home[a]][a] = n BY <2>1, <2>2, Zenon
  <2>5. \A b \in Opened : ledger'[Home[b]][b] = ledger[Home[b]][b]
    BY ONLY <2>1, <2>2, <2>3, <2>d, <2>h DEF Opened
  <2>6. \A b : DueTo(b)' = DueTo(b) BY <1>7, Zenon DEF DueTo, Held
  <2>7. TotalOf[DueTo(a)] \in Int /\ TotalOf[DueTo(a)] >= 0 BY DuePositive
  <2>8. /\ AbstractBalance = [b \in Opened |-> ledger[Home[b]][b] + TotalOf[DueTo(b)]]
        /\ AbstractBalance' = [b \in Opened \cup {a} |-> ledger'[Home[b]][b] + TotalOf[DueTo(b)]]
    BY <2>3, <2>6, BalanceIs, Zenon
  <2>9. AbstractBalance'[a] = n + TotalOf[DueTo(a)] BY <2>4, <2>8, Zenon
  <2>10. AbstractBalance'[a] >= 0 BY <2>1, <2>7, <2>9
  <2>11. \A b \in Opened : AbstractBalance'[b] = AbstractBalance[b] BY <2>5, <2>8
  <2>12. DOMAIN AbstractBalance = Opened /\ DOMAIN AbstractBalance' = Opened \cup {a} BY <2>8
  <2>13. Abstract!Open(a) BY <2>10, <2>11, <2>12, <1>6 DEF Abstract!Open
  <2> QED BY <2>1, <2>3, <2>12, <2>13, Zenon DEF Refined, Abstract!Next
<1> QED BY <1>8, <1>9, Zenon DEF Create, BeginCreate, BeginCreateFails, CreateLedger, LogCreated, LogCreateAborted
=============================================================================
