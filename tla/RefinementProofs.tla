-------------------------- MODULE RefinementProofs --------------------------
(***************************************************************************)
(* TwoPC implements AtomicTransfer.                                        *)
(***************************************************************************)
EXTENDS AgreementProofs, MemoryProofs, MappingProofs, WellFoundedInduction

-----------------------------------------------------------------------------
\* Sets of natural numbers have least elements.
LEMMA LeastOf ==
  ASSUME NEW B \in SUBSET Nat, B # {}
  PROVE  \E m \in B : \A k \in B : m <= k
<1> DEFINE R == OpToRel(<, Nat)
<1>1. PICK m \in B : \A k \in B : ~(<<k, m>> \in R)
  BY WFMin, NatLessThanWellFounded, Zenon
<1>2. \A k \in B : ~(k < m) BY <1>1, Zenon DEF OpToRel
<1> QED BY <1>2

\* A set of positions of a log has a last one.
LEMMA LastOf ==
  ASSUME NEW n \in Nat, NEW S \in SUBSET (1 .. n), S # {}
  PROVE  Max(S) \in S
<1> DEFINE T == {k \in Nat : \A x \in S : x <= k}
           R == OpToRel(<, Nat)
<1>1. T \subseteq Nat /\ n \in T OBVIOUS
<1>2. PICK m \in T : \A k \in T : ~(<<k, m>> \in R)
  BY <1>1, WFMin, NatLessThanWellFounded, Zenon
<1>3. \A k \in T : ~(k < m) BY <1>1, <1>2, Zenon DEF OpToRel
<1>4. m \in S
  <2> SUFFICES ASSUME m \notin S PROVE FALSE OBVIOUS
  <2>1. \A x \in S : x \in Nat /\ x <= m - 1 OBVIOUS
  <2>2. m - 1 \in Nat
    <3>1. PICK x : x \in S OBVIOUS
    <3>2. x \in Nat /\ x <= m - 1 BY <3>1, <2>1
    <3> QED BY <3>2
  <2> QED BY <2>1, <2>2, <1>3
<1>5. \A x \in S : m >= x OBVIOUS
<1> QED BY <1>4, <1>5, Zenon DEF Max

\* A sum over no transfers is zero.
LEMMA EmptySum ==
  ASSUME NEW Value(_)
  PROVE  MapThenSumSet(Value, {}) = 0
<1> DEFINE F(f) == [s \in SUBSET {} |->
                     IF s = {} THEN 0
                     ELSE LET x == CHOOSE x \in s : TRUE IN Value(x) + f[s \ {x}]]
           g == [s \in SUBSET {} |-> 0]
<1>1. g = F(g) OBVIOUS
<1>2. (CHOOSE f : f = F(f)) = F(CHOOSE f : f = F(f)) BY <1>1, Zenon
<1>3. (CHOOSE f : f = F(f))[{}] = 0 BY <1>2, Zenon
<1> QED BY <1>3 DEF MapThenSumSet, MapThenFoldSet

-----------------------------------------------------------------------------
\* The balances NewShardServer logs at first start-up are balances.
Funded == \A s \in Shards : \A i \in DOMAIN InitialLog[s] : InitialLog[s][i].amount \in 0 .. MaxInt64

\* Replaying the log of a first start-up gives the balances it names.
LEMMA InitialFunds == ASSUME Funded, NEW s \in Shards PROVE Solvent(Recover(InitialLog[s]))
<1> DEFINE log == InitialLog[s]
           replayed == Replayed(log)
           Of(a, ops) == {i \in replayed : log[i].account = a /\ log[i].op \in ops}
           Opening(a) == IF Of(a, {"CREATE_ACCOUNT"}) = {} THEN 0
                         ELSE log[Max(Of(a, {"CREATE_ACCOUNT"}))].amount
           Delta(i) == IF log[i].op = "DEBIT" THEN -log[i].amount ELSE log[i].amount
           Moved(a) == MapThenSumSet(Delta, Of(a, {"DEBIT", "CREDIT"}))
<1>1. log \in Seq(WALEntries) /\ replayed \subseteq DOMAIN log
  BY InitialLogAssumption DEF Replayed
<1>2. DOMAIN log = 1 .. Len(log) /\ Len(log) \in Nat BY <1>1
<1>3. \A a : Of(a, {"DEBIT", "CREDIT"}) = {} BY <1>1, InitialLogAssumption
<1>4. ASSUME NEW a PROVE Opening(a) \in 0 .. MaxInt64
  <2>1. CASE Of(a, {"CREATE_ACCOUNT"}) = {} BY <2>1, MaxInt64Assumption
  <2>2. CASE Of(a, {"CREATE_ACCOUNT"}) # {}
    <3>1. Max(Of(a, {"CREATE_ACCOUNT"})) \in DOMAIN log
      <4>1. Of(a, {"CREATE_ACCOUNT"}) \in SUBSET (1 .. Len(log)) BY <1>1, <1>2
      <4> QED BY <4>1, <1>2, <2>2, LastOf, Zenon
    <3> QED BY <3>1, <2>2, Zenon DEF Funded
  <2> QED BY <2>1, <2>2, Zenon
<1>5. \A a : Moved(a) = 0 BY <1>3, EmptySum, Zenon
<1>6. \A a \in DOMAIN Recover(log) : Recover(log)[a] = Int64(Opening(a) + Moved(a))
  BY Zenon DEF Recover
<1> HIDE DEF Opening, Moved
<1>7. \A a : Int64(Opening(a) + Moved(a)) \in Nat
  BY <1>4, <1>5, Int64Exact, MaxInt64Assumption
<1> QED BY <1>6, <1>7 DEF Solvent

\* No balance goes negative (ledger.go) as long as no shard dies, no sum
\* exceeds int64 and none was negative at first start-up: the checks of
\* ValidateDebit still hold when the debit is applied.
THEOREM NoOverdraftHolds ==
  ASSUME Funded
  PROVE  Spec /\ []Headroom => [](Spared({"crash"}) => NoOverdraft)
<1>1. Init => FundsInv
  BY InitialFunds DEF Init, ShardInit, FundsInv
<1>2. FundsInv => (Spared({"crash"}) => NoOverdraft)
  BY DEF FundsInv, Solvent, NoOverdraft
<1>3. TypeInv /\ BudgetInv /\ [Next]_vars => BudgetInv'
  BY StepCharged, BudgetInvStep
<1>4. Init => BudgetInv BY BudgetInit
<1> QED BY <1>1, <1>2, <1>3, <1>4, FundsStep, TypeInvInit, TypeInvStep, PTL DEF Spec

-----------------------------------------------------------------------------
\* A shard that runs never takes a transfer out of COMMITTED or ABORTED
\* (constants/states.go), when no transfer is submitted twice: the only
\* handler that would is an AbortTransaction on a COMMITTED transfer, and
\* the coordinator sends ABORT only when it decided so.
THEOREM DecidedIsFinalHolds ==
  ASSUME SingleSubmission
  PROVE  Spec => DecidedIsFinal
<1> DEFINE Inv == TypeInv /\ ProtocolInv /\ OriginInv
           Final(s, t) == (seen[s][t] \in {"COMMITTED", "ABORTED"} /\ up'[s]) => seen'[s][t] = seen[s][t]
<1>1. ASSUME Inv, StageInv, [Next]_vars
      PROVE  \A s \in Shards, t \in Transfers : Final(s, t)
  <2> SUFFICES ASSUME NEW s \in Shards, NEW t \in Transfers, NEW c \in calls,
                      s = c.shard, t = Txn(c), c.kind = "ABORT", seen[s][t] = "COMMITTED"
               PROVE  FALSE
    BY <1>1, StageStep
  <2>1. c.sub \in Submissions /\ t = TxnOf[c.sub] /\ Cross(c.sub)
    BY <1>1, CallFacts DEF TypeInv, WellFormed, Txn
  <2>2. decision[c.sub] = "ABORT" BY <1>1 DEF ProtocolInv, CallInv
  <2>3. decision[c.sub] = "COMMIT" BY <1>1, <2>1 DEF ProtocolInv, VerdictInv
  <2> QED BY <2>2, <2>3
<1>2. TypeInv /\ StageInv /\ [Next]_vars => StageInv' BY StageStep
<1>3. Spec => []StageInv
  BY <1>2, StageInit, TypeInvInit, TypeInvStep, PTL DEF Spec
<1>4. Inv /\ StageInv /\ [Next]_vars => [\A s \in Shards, t \in Transfers : Final(s, t)]_vars
  BY <1>1
<1>5. Spec => []Inv BY ProtocolInvHolds
<1> QED BY <1>3, <1>4, <1>5, PTL DEF Spec, DecidedIsFinal

-----------------------------------------------------------------------------
(***************************************************************************)
(* The sum of the amounts of a finite set of transfers, as MapThenSumSet   *)
(* computes it: it picks one element after the other.                      *)
(***************************************************************************)
Pick(S) == CHOOSE x \in S : TRUE

Adds(f, s) == f[s] = IF s = {} THEN 0 ELSE Amount[Pick(s)] + f[s \ {Pick(s)}]

IsSum(f, S) == f = [s \in SUBSET S |-> IF s = {} THEN 0 ELSE Amount[Pick(s)] + f[s \ {Pick(s)}]]

Sum(S) == (CHOOSE f : IsSum(f, S))[S]

\* The sum of the mapping is this one.
LEMMA TotalIsSum == \A S \in SUBSET Transfers : TotalOf[S] = Sum(S)
BY DEF TotalOf, MapThenSumSet, MapThenFoldSet, Sum, IsSum, Pick

\* The element picked is one of the set.
LEMMA PickIn == \A S : S # {} => Pick(S) \in S
BY DEF Pick

\* A list of n entries in which every member of S occurs.
Listed(S, n) == \E e : \A x \in S : \E i \in 1 .. n : e[i] = x

\* A finite set can be listed.
LEMMA FiniteListed == ASSUME NEW S, IsFiniteSet(S) PROVE \E n \in Nat : Listed(S, n)
<1>1. PICK q \in Seq(S) : \A x \in S : \E i \in 1 .. Len(q) : q[i] = x BY DEF IsFiniteSet
<1>2. Len(q) \in Nat OBVIOUS
<1> QED BY <1>1, <1>2, Zenon DEF Listed

\* A set with one member less has a shorter list.
LEMMA ListedFewer ==
  ASSUME NEW S, NEW n \in Nat, Listed(S, n), NEW x \in S
  PROVE  n - 1 \in Nat /\ Listed(S \ {x}, n - 1)
<1>1. PICK e : \A y \in S : \E i \in 1 .. n : e[i] = y BY DEF Listed
<1>2. PICK k \in 1 .. n : e[k] = x BY <1>1
<1> DEFINE g == [i \in 1 .. n - 1 |-> IF i < k THEN e[i] ELSE e[i + 1]]
<1>3. ASSUME NEW y \in S \ {x} PROVE \E i \in 1 .. n - 1 : g[i] = y
  <2>1. PICK i \in 1 .. n : e[i] = y BY <1>1
  <2>2. i # k BY <1>2, <1>3, <2>1
  <2>3. CASE i < k
    <3>1. i \in 1 .. n - 1 /\ g[i] = y BY <2>1, <2>3
    <3> QED BY <3>1
  <2>4. CASE i > k
    <3>1. i - 1 \in 1 .. n - 1 /\ g[i - 1] = y BY <2>1, <2>4
    <3> QED BY <3>1
  <2> QED BY <2>2, <2>3, <2>4
<1> HIDE DEF g
<1>4. Listed(S \ {x}, n - 1) BY <1>3 DEF Listed
<1> QED BY <1>2, <1>4

\* A list of a set lists its subsets.
LEMMA ListedSubset == ASSUME NEW S, NEW T \in SUBSET S, NEW n, Listed(S, n) PROVE Listed(T, n)
BY DEF Listed

\* The empty list lists the empty set only.
LEMMA ListedNone == ASSUME NEW S, Listed(S, 0) PROVE S = {}
BY DEF Listed

\* The recursion is well defined on a finite set.
LEMMA SumExists ==
  ASSUME NEW S, NEW N \in Nat, Listed(S, N)
  PROVE  \E f : IsSum(f, S)
<1> DEFINE P(n) == \E f : /\ f = [s \in SUBSET S |-> f[s]]
                          /\ \A s \in SUBSET S : Listed(s, n) => Adds(f, s)
           B == {n \in Nat : ~P(n)}
<1>2. P(0)
  <2> DEFINE f == [s \in SUBSET S |-> 0]
  <2>2. f = [s \in SUBSET S |-> f[s]] /\ \A s \in SUBSET S : Listed(s, 0) => Adds(f, s)
    BY ListedNone DEF Adds
  <2> QED BY <2>2, Zenon
<1>3. ASSUME NEW n \in Nat, P(n) PROVE P(n + 1)
  <2>1. PICK f : /\ f = [s \in SUBSET S |-> f[s]]
                 /\ \A s \in SUBSET S : Listed(s, n) => Adds(f, s)
    BY <1>3, Zenon
  <2> DEFINE g == [s \in SUBSET S |-> IF Listed(s, n) \/ s = {} THEN f[s]
                                      ELSE Amount[Pick(s)] + f[s \ {Pick(s)}]]
  <2>2. ASSUME NEW s \in SUBSET S, Listed(s, n + 1) PROVE Adds(g, s)
    <3>1. CASE s = {}
      <4>1. Listed(s, n) BY <3>1 DEF Listed
      <4>2. Adds(f, s) BY <2>1, <4>1, Zenon
      <4>3. g[s] = f[s] BY <4>1
      <4> HIDE DEF g
      <4> QED BY <3>1, <4>2, <4>3 DEF Adds
    <3>2. CASE s # {}
      <4> DEFINE r == s \ {Pick(s)}
      <4>1. Pick(s) \in s BY <3>2, PickIn
      <4>2. r \in SUBSET S /\ Listed(r, (n + 1) - 1) BY <2>2, <4>1, ListedFewer
      <4>3. Listed(r, n)
        <5>1. (n + 1) - 1 = n OBVIOUS
        <5> QED BY <4>2, <5>1
      <4>4. g[r] = f[r] BY <4>2, <4>3
      <4>5. g[s] = Amount[Pick(s)] + f[r]
        <5>1. CASE Listed(s, n) BY <5>1, <2>1, <3>2, Zenon DEF Adds
        <5>2. CASE ~Listed(s, n) BY <5>2, <3>2
        <5> QED BY <5>1, <5>2
      <4> HIDE DEF g
      <4> QED BY <3>2, <4>4, <4>5 DEF Adds
    <3> QED BY <3>1, <3>2
  <2>3. g = [s \in SUBSET S |-> g[s]] OBVIOUS
  <2> HIDE DEF g
  <2> QED BY <2>2, <2>3, Zenon
<1>4. B = {}
  <2> SUFFICES ASSUME B # {} PROVE FALSE BY Zenon
  <2>1. PICK m \in B : \A k \in B : m <= k BY LeastOf, Zenon
  <2> HIDE DEF P
  <2>2. m # 0 BY <1>2
  <2>3. m - 1 \in Nat /\ m - 1 \notin B BY <2>1, <2>2
  <2>4. P(m - 1) BY <2>3
  <2>5. P((m - 1) + 1) BY <2>3, <2>4, <1>3
  <2> QED BY <2>1, <2>5
<1>5. P(N) BY <1>4, Zenon
<1>6. PICK f : f = [s \in SUBSET S |-> f[s]] /\ \A s \in SUBSET S : Adds(f, s)
  BY <1>5, ListedSubset, Zenon
<1>7. IsSum(f, S) BY <1>6, Zenon DEF IsSum, Adds
<1> QED BY <1>7

\* It has the same value on a subset, from wherever it starts.
LEMMA SumUnique ==
  ASSUME NEW S, NEW N \in Nat, Listed(S, N), NEW T \in SUBSET S,
         NEW f, IsSum(f, S), NEW g, IsSum(g, T)
  PROVE  f[T] = g[T]
<1> DEFINE B == {n \in Nat : \E s \in SUBSET T : Listed(s, n) /\ f[s] # g[s]}
<1>1. \A s \in SUBSET T : s \in SUBSET S /\ Listed(s, N) BY ListedSubset
<1>2. \A s \in SUBSET T : Adds(f, s) /\ Adds(g, s) BY Zenon DEF Adds, IsSum
<1>3. B = {}
  <2> SUFFICES ASSUME B # {} PROVE FALSE OBVIOUS
  <2>1. PICK m \in B : \A k \in B : m <= k BY LeastOf, Zenon
  <2>2. PICK s \in SUBSET T : Listed(s, m) /\ f[s] # g[s] OBVIOUS
  <2>3. s # {} BY <1>2, <2>2 DEF Adds
  <2> DEFINE r == s \ {Pick(s)}
  <2>4. Pick(s) \in s BY <2>3, PickIn
  <2>5. r \in SUBSET T /\ m - 1 \in Nat /\ Listed(r, m - 1) BY <2>2, <2>4, ListedFewer
  <2>6. f[r] # g[r] BY <1>2, <2>2, <2>3 DEF Adds
  <2>7. m - 1 \in B BY <2>5, <2>6
  <2> QED BY <2>1, <2>7
<1> QED BY <1>1, <1>3

\* What a sum is: zero for no transfer, and one more amount for one more.
LEMMA SumStep ==
  ASSUME NEW S, NEW N \in Nat, Listed(S, N)
  PROVE  /\ S = {} => Sum(S) = 0
         /\ S # {} => Sum(S) = Amount[Pick(S)] + Sum(S \ {Pick(S)})
<1> DEFINE f == CHOOSE h : IsSum(h, S)
<1>1. IsSum(f, S) BY SumExists
<1>2. Sum(S) = f[S] BY DEF Sum
<1> HIDE DEF f
<1>3. Adds(f, S) BY <1>1, Zenon DEF IsSum, Adds
<1>4. ASSUME S # {} PROVE Sum(S \ {Pick(S)}) = f[S \ {Pick(S)}]
  <2> DEFINE T == S \ {Pick(S)}
             g == CHOOSE h : IsSum(h, T)
  <2>1. T \in SUBSET S /\ Listed(T, N) BY ListedSubset
  <2> HIDE DEF T
  <2>2. IsSum(g, T) BY <2>1, SumExists
  <2>3. Sum(T) = g[T] BY DEF Sum
  <2> HIDE DEF g
  <2>4. f[T] = g[T] BY <1>1, <2>1, <2>2, SumUnique
  <2> QED BY <2>3, <2>4 DEF T
<1> QED BY <1>2, <1>3, <1>4 DEF Adds

\* The sum of integers is one, of non-negative ones is non-negative, and the
\* order in which it is taken does not matter.
LEMMA SumTheory ==
  ASSUME IsFiniteSet(Transfers), NEW S \in SUBSET Transfers
  PROVE  /\ Sum(S) \in Int
         /\ (\A t \in S : Amount[t] >= 0) => Sum(S) >= 0
         /\ \A x \in S : Sum(S) = Amount[x] + Sum(S \ {x})
<1> DEFINE Q(T) == /\ Sum(T) \in Int
                   /\ (\A t \in T : Amount[t] >= 0) => Sum(T) >= 0
                   /\ \A x \in T : Sum(T) = Amount[x] + Sum(T \ {x})
           B == {n \in Nat : \E T \in SUBSET S : Listed(T, n) /\ ~Q(T)}
<1>1. PICK N \in Nat : Listed(S, N) BY FiniteListed, ListedSubset
<1>2. \A t \in S : Amount[t] \in Int BY ConstantsAssumption
<1>3. B = {}
  <2> SUFFICES ASSUME B # {} PROVE FALSE OBVIOUS
  <2>1. PICK m \in B : \A k \in B : m <= k BY LeastOf, Zenon
  <2>2. PICK T \in SUBSET S : Listed(T, m) /\ ~Q(T) OBVIOUS
  <2>3. \A U \in SUBSET S : (m - 1 \in Nat /\ Listed(U, m - 1)) => Q(U)
    <3> HIDE DEF Q
    <3> TAKE U \in SUBSET S
    <3>1. m - 1 \in Nat => m - 1 \notin B BY <2>1
    <3> QED BY <3>1
  <2>q. \A x \in T : Q(T \ {x})
    <3> HIDE DEF Q
    <3> TAKE x \in T
    <3>1. m - 1 \in Nat /\ Listed(T \ {x}, m - 1) BY <2>2, ListedFewer
    <3> QED BY <3>1, <2>3
  <2>4. CASE T = {}
    <3>1. m \in Nat BY <2>1
    <3>2. Sum(T) = 0 BY <3>1, <2>2, <2>4, SumStep
    <3> QED BY <3>2, <2>2, <2>4
  <2>5. CASE T # {}
    <3> DEFINE p == Pick(T)
    <3>1. p \in T BY <2>5, PickIn
    <3>2. Sum(T) = Amount[p] + Sum(T \ {p}) BY <2>2, <2>5, SumStep
    <3> HIDE DEF p
    <3>3. Q(T \ {p}) BY <2>q, <3>1
    <3>4. Sum(T) \in Int BY <3>1, <3>2, <3>3, <1>2
    <3>5. (\A t \in T : Amount[t] >= 0) => Sum(T) >= 0 BY <3>1, <3>2, <3>3, <1>2
    <3>6. ASSUME NEW x \in T, x # p PROVE Sum(T) = Amount[x] + Sum(T \ {x})
      <4>1. Q(T \ {x}) BY <2>q, Zenon
      <4>2. (T \ {p}) \ {x} = (T \ {x}) \ {p} OBVIOUS
      <4>3. Sum(T \ {p}) = Amount[x] + Sum((T \ {x}) \ {p}) BY <3>3, <3>6, <4>2, Zenon
      <4>4. Sum(T \ {x}) = Amount[p] + Sum((T \ {x}) \ {p}) BY <3>1, <3>6, <4>1
      <4>5. Sum((T \ {x}) \ {p}) \in Int
        <5>1. m - 1 \in Nat /\ Listed(T \ {x}, m - 1) BY <2>2, ListedFewer
        <5>2. (T \ {x}) \ {p} \in SUBSET S /\ (T \ {x}) \ {p} \in SUBSET (T \ {x}) OBVIOUS
        <5>3. Listed((T \ {x}) \ {p}, m - 1) BY <5>1, <5>2, ListedSubset
        <5> QED BY <5>1, <5>2, <5>3, <2>3
      <4> QED BY <3>1, <3>2, <4>3, <4>4, <4>5, <1>2
    <3> QED BY <2>2, <3>2, <3>4, <3>5, <3>6
  <2> QED BY <2>4, <2>5
<1> HIDE DEF Q
<1>4. Q(S) BY <1>1, <1>3
<1> QED BY <1>4 DEF Q

\* The amounts of finitely many transfers have sums.
LEMMA TransfersSummable == ASSUME IsFiniteSet(Transfers) PROVE Summable
<1> SUFFICES ASSUME NEW S \in SUBSET Transfers
             PROVE  /\ TotalOf[S] \in Int
                    /\ (\A t \in S : Amount[t] >= 0) => TotalOf[S] >= 0
                    /\ \A x \in S : TotalOf[S] = Amount[x] + TotalOf[S \ {x}]
  BY DEF Summable
<1>1. TotalOf[S] = Sum(S) /\ \A x \in S : TotalOf[S \ {x}] = Sum(S \ {x})
  BY TotalIsSum
<1> QED BY <1>1, SumTheory, Zenon

-----------------------------------------------------------------------------
(***************************************************************************)
(* The refinement.                                                         *)
(***************************************************************************)

\* The service starts with the balances of the logs and nothing decided.
LEMMA AbstractInit ==
  ASSUME Funded, Summable, Init
  PROVE  Abstract!Init
<1>1. TypeInv /\ BackedInv /\ Spared({"crash"})
  BY TypeInvInit, BackedInit DEF Init, ShardInit, Spared
<1>2. Vouched BY <1>1 DEF BackedInv
<1>3. \A s \in Shards : Solvent(ledger[s]) BY InitialFunds DEF Init, ShardInit
<1>4. calls = {} /\ \A x \in Submissions : decision[x] = "none" BY DEF Init, ShardInit
<1>5. \A s \in Shards, t \in Transfers : seen[s][t] = "NONE"
  <2> TAKE s \in Shards, t \in Transfers
  <2>1. \A op : ~Logged(InitialLog[s], op, t) BY InitialLogAssumption, ConstantsAssumption DEF Logged
  <2>2. seen[s][t] = RecoveredState(InitialLog[s], t) BY DEF Init, ShardInit, TxnIDs
  <2> QED BY <2>1, <2>2 DEF RecoveredState, FinalState
<1>6. \A t \in Transfers : SideState(t, "TRANSFER") = "NONE" BY <1>5, ConstantsAssumption DEF SideState
<1>7. \A t \in Transfers : ~Decided(t, "COMMIT") /\ ~Decided(t, "ABORT") BY <1>4 DEF Decided, SubmissionsOf
<1>8. \A t \in Transfers : Outcome(t) = "open" BY <1>6, <1>7 DEF Outcome, Fate
<1>9. AbstractOutcome = [t \in Transfers |-> "open"] BY <1>1, <1>8, MappingNow
<1>10. AbstractBalance = [a \in Opened |-> ledger[Home[a]][a] + TotalOf[DueTo(a)]] BY BalanceIs
<1>11. Opened \subseteq Accounts BY DEF Opened
<1>12. ASSUME NEW a \in Opened PROVE AbstractBalance[a] \in Nat
  <2>1. ledger[Home[a]][a] \in Nat BY <1>3, ConstantsAssumption DEF Opened, Solvent
  <2>2. TotalOf[DueTo(a)] \in Int /\ TotalOf[DueTo(a)] >= 0 BY <1>1, <1>2, DuePositive
  <2>3. AbstractBalance[a] = ledger[Home[a]][a] + TotalOf[DueTo(a)] BY <1>10
  <2> QED BY <2>1, <2>2, <2>3
<1>13. DOMAIN AbstractBalance = Opened BY <1>10
<1> QED BY <1>9, <1>11, <1>12, <1>13 DEF Abstract!Init

\* While no shard dies, the votes stand for what they say.
LEMMA BackedStep ==
  ASSUME SingleSubmission
  PROVE  TypeInv /\ ProtocolInv /\ StageInv /\ BudgetInv /\ FundsInv /\ BackedInv /\ [Next]_vars => BackedInv'
<1> SUFFICES ASSUME TypeInv, ProtocolInv, StageInv, BudgetInv, FundsInv, BackedInv, [Next]_vars,
                    Spared({"crash"})'
             PROVE  Ballot' /\ Vouched'
  BY DEF BackedInv
<1>1. Spared({"crash"}) BY StepCharged, SparedBefore DEF FaultKinds
<1>2. Ballot /\ Vouched BY <1>1 DEF BackedInv
<1>3. ASSUME NEW c \in calls, Handle(c) \/ Network(c), UNCHANGED coordVars PROVE Ballot' /\ Vouched'
  BY <1>2, <1>3, HandlerBacked
<1>4. CASE Create /\ UNCHANGED coordVars BY <1>2, <1>4, CreateBacked
<1>5. ASSUME NEW s \in Shards, Crash(s) \/ Restart(s) PROVE FALSE BY <1>1, <1>5, NoCrash
<1>6. CASE \/ \E c \in calls : Receive(c) \/ Timeout(c)
           \/ \E x \in Submissions : Coordinate(x) \/ CoordinatorCrash(x)
  <2>1. CoordEffect /\ CoordKeeps BY <1>6, CoordSteps, CoordKeepsStep
  <2> QED BY <2>1, <1>2, CoordBacked
<1>7. CASE UNCHANGED vars
  <2>1. UNCHANGED <<phase, decision, leg, calls, ledger, seen>> BY <1>7 DEF vars, shardVars, coordVars
  <2> QED BY <2>1, <1>2, Zenon DEF Ballot, Vouched, State, StateOf, SideState, SourceShard, DestShard, Txn, Known, Cross
<1> QED BY <1>3, <1>4, <1>5, <1>6, <1>7, Zenon DEF Next, ShardNext, Idle

\* The inductive invariant of the refinement.
RefinementInv == TypeInv /\ ProtocolInv /\ StageInv /\ BudgetInv /\ FundsInv /\ BackedInv /\ AtHome

\* It holds as long as the balances leave room for the transfers.
LEMMA RefinementInvHolds ==
  ASSUME SingleSubmission, Funded
  PROVE  Spec /\ []Headroom => []RefinementInv
<1>1. Init => RefinementInv
  <2>1. Init => FundsInv BY InitialFunds DEF Init, ShardInit, FundsInv
  <2>2. Init => AtHome BY DEF Init, ShardInit, AtHome, NoCreate
  <2>3. Init => BudgetInv BY BudgetInit
  <2> QED BY <2>1, <2>2, <2>3, TypeInvInit, ProtocolInvInit, StageInit, BackedInit DEF RefinementInv
<1>2. RefinementInv /\ Headroom /\ [Next]_vars => RefinementInv'
  <2> SUFFICES ASSUME RefinementInv, Headroom, [Next]_vars PROVE RefinementInv' OBVIOUS
  <2>1. TypeInv /\ ProtocolInv /\ StageInv /\ BudgetInv /\ FundsInv /\ BackedInv /\ AtHome BY DEF RefinementInv
  <2>2. TypeInv' /\ ProtocolInv' BY <2>1, TypeInvStep, ProtocolInvStep
  <2>3. StageInv' BY <2>1, StageStep
  <2>4. BudgetInv' BY <2>1, StepCharged, BudgetInvStep
  <2>5. FundsInv' /\ BackedInv' /\ AtHome' BY <2>1, FundsStep, BackedStep, AtHomeStep
  <2> QED BY <2>2, <2>3, <2>4, <2>5 DEF RefinementInv
<1> QED BY <1>1, <1>2, PTL DEF Spec

\* Every step of the system, until a shard dies or a write fails, is a step
\* of the service or invisible.
LEMMA RefinementStep ==
  ASSUME SingleSubmission, Summable, RefinementInv, RefinementInv', Headroom, [Next]_vars, Sound'
  PROVE  Refined
<1>1. TypeInv /\ ProtocolInv /\ StageInv /\ BudgetInv /\ FundsInv /\ BackedInv /\ AtHome BY DEF RefinementInv
<1>2. TypeInv' /\ FundsInv' BY DEF RefinementInv
<1>3. Sound BY <1>1, StepCharged, SparedBefore DEF Sound, FaultKinds
<1>4. Spared({"crash"}) /\ Spared({"crash"})' BY <1>3 DEF Sound, Spared
<1>5. Ballot /\ Vouched BY <1>1, <1>4 DEF BackedInv
<1>6. \A s \in Shards : Solvent(ledger[s]) /\ Solvent(ledger'[s]) BY <1>1, <1>2, <1>4 DEF FundsInv, Solvent
<1>7. ASSUME NEW c \in calls, Handle(c) \/ Network(c), UNCHANGED coordVars PROVE Refined
  <2>1. UNCHANGED decision BY <1>7 DEF coordVars
  <2>2. HandlerFrame /\ SomeRow(c) /\ (Acquire(c) => State(c) # "PENDING")
    BY <1>1, <1>7, HandlerStep, HandlerRow, NotPending, Zenon
  <2>3. CASE c.kind = "EXECUTE" BY <2>1, <2>2, <2>3, <1>1, <1>2, <1>5, <1>6, <1>7, ExecuteRefines
  <2>4. CASE c.kind # "EXECUTE"
    <3>1. UNCHANGED <<AbstractBalance, AbstractOutcome>>
      BY <2>1, <2>2, <2>4, <1>1, <1>2, <1>3, <1>5, <1>6, <1>7, SideRefines
    <3> QED BY <3>1 DEF Refined
  <2> QED BY <2>3, <2>4
<1>8. ASSUME Create, UNCHANGED coordVars PROVE Refined
  <2>1. CreateEffect BY <1>1, <1>8, CreateStep
  <2> QED BY <2>1, <1>8, <1>1, <1>2, <1>5, CreateRefines
<1>9. ASSUME NEW s \in Shards, Crash(s) \/ Restart(s) PROVE FALSE BY <1>9, <1>1, <1>4, NoCrash
<1>10. ASSUME \/ \E c \in calls : Receive(c) \/ Timeout(c)
              \/ \E x \in Submissions : Coordinate(x) \/ CoordinatorCrash(x)
       PROVE  Refined
  <2>1. CoordEffect BY <1>1, <1>10, CoordSteps
  <2> QED BY <2>1, <1>1, <1>2, <1>5, <1>6, <1>10, CoordRefines
<1>11. ASSUME UNCHANGED vars PROVE Refined
  <2>1. UNCHANGED <<ledger, seen, calls, decision>> BY <1>11 DEF vars, shardVars, coordVars
  <2>2. \A t : Withheld(t)' = Withheld(t) /\ Owed(t)' = Owed(t)
    BY <2>1, Zenon DEF Withheld, Owed, Decided, Txn
  <2>3. UNCHANGED AbstractBalance BY <2>1, <2>2, SameBalance DEF Opened
  <2>4. ASSUME NEW t \in Transfers PROVE Outcome(t)' = Outcome(t)
    <3>1. \A op, pc : At(t, op, pc)' <=> At(t, op, pc) BY <2>1, Zenon DEF At
    <3>2. \A d : Decided(t, d)' <=> Decided(t, d) BY <2>1, Zenon DEF Decided
    <3>3. \A op : SideState(t, op)' = SideState(t, op) BY <2>1, Zenon DEF SideState
    <3> QED BY <3>1, <3>2, <3>3 DEF Outcome, Fate
  <2>5. UNCHANGED AbstractOutcome BY <1>1, <1>2, <2>4, MappingStep
  <2> QED BY <2>3, <2>5 DEF Refined
<1> QED BY <1>7, <1>8, <1>9, <1>10, <1>11, Zenon DEF Next, ShardNext, Idle

\* Transfers are atomic whatever the network and the coordinators do, as
\* long as no shard dies and no write to a log fails, for any accounts,
\* shards and transfers that are each submitted once, and while the balances
\* stay within int64 (Execute, commitWithRetry, the handlers' answers from
\* seenTxns, the striped mutex).
THEOREM AtomicDespiteNetworkHolds ==
  ASSUME SingleSubmission, Funded, IsFiniteSet(Transfers)
  PROVE  Spec /\ []Headroom => AtomicDespiteNetwork
<1>0. Summable BY TransfersSummable
<1>1. Init => Abstract!Init BY <1>0, AbstractInit
<1>2. RefinementInv /\ RefinementInv' /\ Headroom /\ [Next]_vars =>
        [~Sound' \/ Abstract!Next]_<<AbstractBalance, AbstractOutcome>>
  BY <1>0, RefinementStep DEF Refined
<1>3. Spec /\ []Headroom => Abstract!Init /\ [][~Sound' \/ Abstract!Next]_<<AbstractBalance, AbstractOutcome>>
  BY <1>1, <1>2, RefinementInvHolds, PTL DEF Spec
<1> QED BY <1>3 DEF AtomicDespiteNetwork, Sound

\* Where shards do not die and logs can be written the service is the
\* abstract one.
THEOREM IsAtomicHolds ==
  ASSUME SingleSubmission, Funded, IsFiniteSet(Transfers), \A k \in {"crash", "flush", "fsync"} : Faults[k] = 0
  PROVE  Spec /\ []Headroom => IsAtomic
<1>0. Summable BY TransfersSummable
<1>1. RefinementInv => Sound
  <2> SUFFICES ASSUME RefinementInv, NEW k \in {"crash", "flush", "fsync"} PROVE budget[k] = Faults[k]
    BY Zenon DEF Sound, Spared
  <2>1. k \in FaultKinds BY ONLY TRUE DEF FaultKinds
  <2>2. budget \in [FaultKinds -> Nat] /\ budget[k] <= Faults[k]
    BY <2>1, Zenon DEF RefinementInv, BudgetInv, TypeInv, TypeOK, ShardTypeOK
  <2>3. Faults[k] = 0 BY Zenon
  <2> QED BY ONLY <2>1, <2>2, <2>3
<1>2. RefinementInv /\ RefinementInv' /\ Headroom /\ [Next]_vars =>
        [Abstract!Next]_<<AbstractBalance, AbstractOutcome>>
  <2> SUFFICES ASSUME RefinementInv, RefinementInv', Headroom, [Next]_vars
               PROVE  [Abstract!Next]_<<AbstractBalance, AbstractOutcome>>
    OBVIOUS
  <2>1. RefinementInv' => Sound' BY <1>1, PTL
  <2> QED BY <1>0, <2>1, RefinementStep DEF Refined
<1>3. Init => Abstract!Init BY <1>0, AbstractInit
<1>4. Spec /\ []Headroom => Abstract!Init /\ [][Abstract!Next]_<<AbstractBalance, AbstractOutcome>>
  BY <1>2, <1>3, RefinementInvHolds, PTL DEF Spec
<1> QED BY <1>4 DEF IsAtomic, Abstract!Spec, Abstract!avars
=============================================================================
