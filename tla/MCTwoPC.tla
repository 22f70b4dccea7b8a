------------------------------ MODULE MCTwoPC ------------------------------
(***************************************************************************)
(* Small instances of TwoPC for TLC.                                       *)
(***************************************************************************)
EXTENDS TwoPC, TLC

CONSTANTS s1, s2, a1, a2, a3, b1, b2, t1, t2, t3, t4, x1, x2, x3, x4, y1, y2, y3,
          creating_a1, creating_a2, creating_a3, creating_b1, creating_b2

MCCreateTxn == (a1 :> creating_a1 @@ a2 :> creating_a2 @@ a3 :> creating_a3 @@ b1 :> creating_b1
               @@ b2 :> creating_b2)

Restricted(f, S) == [v \in S |-> f[v]]

CreateTxnOf == Restricted(MCCreateTxn, Accounts)

NoFaults == [k \in FaultKinds |-> 0]

With(f, k, n) == [f EXCEPT ![k] = n]

\* every transaction has a mutex of its own
OwnStripe == [t \in Transfers |-> t]

\* the log NewShardServer writes on first start, for the accounts of s
Opened(s, opening) ==
  LET e(a) == WALEntry("CREATE_ACCOUNT", InitTxn, a, opening[a])
      accounts == {a \in DOMAIN opening : Home[a] = s}
      F[S \in SUBSET accounts] ==
        IF S = {} THEN <<>>
        ELSE LET a == CHOOSE v \in S : TRUE IN Append(F[S \ {a}], e(a))
  IN  Append(F[accounts], Marker("COMMITTED", InitTxn))

-----------------------------------------------------------------------------
(* One shard: t1 pays into a2, from which t3 pays into a3, which is created *)
(* while they run.                                                          *)
LocalHome == (a1 :> s1 @@ a2 :> s1 @@ a3 :> s1)
LocalSource == (t1 :> a1 @@ t3 :> a2)
LocalDestination == (t1 :> a2 @@ t3 :> a3)
LocalAmount == (t1 :> 2 @@ t3 :> 1)
LocalTxnOf == (x1 :> t1 @@ x3 :> t3)
LocalLog == [s \in Shards |-> Opened(s, (a1 :> 3 @@ a2 :> 1))]
LocalOpenings == {-1, 1}

(* Two shards: t1 pays into b1, t3 into b2, which is created while it runs. *)
PairHome == Restricted((a1 :> s1 @@ b1 :> s2 @@ b2 :> s2), Accounts)
PairSource == [t \in Transfers |-> a1]
PairDestination == Restricted((t1 :> b1 @@ t3 :> b2), Transfers)
PairAmount == Restricted((t1 :> 2 @@ t3 :> 1), Transfers)
PairLog == [s \in Shards |-> Opened(s, (a1 :> 2 @@ b1 :> 1))]
PairTxnOf == Restricted((x1 :> t1 @@ x4 :> t3), Submissions)

(* Both: t1 and t2 within s1, t3 and t4 from s1 to s2, all for a1's funds.  *)
BothHome == (a1 :> s1 @@ a2 :> s1 @@ b1 :> s2)
BothSource == [t \in Transfers |-> a1]
BothDestination == (t1 :> a2 @@ t2 :> a2 @@ t3 :> b1 @@ t4 :> b1)
BothAmount == [t \in Transfers |-> 2]
BothLog == [s \in Shards |-> Opened(s, (a1 :> 3 @@ a2 :> 1 @@ b1 :> 1))]
BothTxnOf == (x1 :> t1 @@ x2 :> t2 @@ x3 :> t1 @@ y1 :> t3 @@ y2 :> t4 @@ y3 :> t3)

\* submissions of the same transfer: exchanging them changes nothing
BothResubmitted == Permutations({x1, x3}) \cup Permutations({y1, y3})

\* the submissions of S reach a coordinator, the others never do
Reach(S) == phase = [x \in Submissions |-> IF x \in S THEN "new" ELSE "crashed"]

Across == \E x \in Submissions : Cross(x) /\ phase[x] # "crashed"

\* three within the shard, with faults; or two across, of two transfers or of
\* one, or one of each sort, without
EitherInit == Init /\ \E S \in {{x1, x2, x3}, {y1, y2}, {y1, y3}, {x1, y1}} : Reach(S)

EitherSpec == EitherInit /\ [][Next /\ (Across => UNCHANGED budget)]_vars

(* Faults *)
OneCrash == With(NoFaults, "crash", 1)
CrashReplicateCreate == With(With(OneCrash, "replicate", 1), "create", 1)
LogFails == With(With(With(NoFaults, "flush", 1), "fsync", 1), "timeout", 1)
AllButFlush == [k \in FaultKinds |-> IF k \in {"replicate", "flush"} THEN 0 ELSE 1]
=============================================================================
