---------------------------- MODULE ClusterProofs ---------------------------
(***************************************************************************)
(* What the shards of a cluster do together: quorum replication and        *)
(* election, for any group, quorum, entries, partitions and mix of         *)
(* crashes, timeouts and failed appends; the failure detector that is      *)
(* meant to start an election; and moving a partition, for any shards,     *)
(* partitions and accounts, any traffic, moves, retries and crashes.       *)
(***************************************************************************)
EXTENDS Replication, Heartbeat, PartitionMove, FiniteSetTheorems, TLAPS

Verdicts == {"idle", "logged", "waiting", "ok", "failed", "crashed"}
Posts == {"none", "flying", "stored", "rejected", "gone"}
Acks == {"none", "waiting", "ok", "error"}

TypeInv ==
  /\ log \in [Replicas -> Seq(Entries)]
  /\ home \in [Entries -> Replicas]
  /\ verdict \in [Entries -> Verdicts]
  /\ post \in [Entries -> [Replicas -> Posts]]
  /\ ack \in [Entries -> [Replicas -> Acks]]
  /\ taken \in [Entries -> SUBSET Replicas]
  /\ routed \in [ShardPartitions -> Replicas]

(***************************************************************************)
(* Where an entry is.  Its home has it as soon as it was appended; a       *)
(* follower does not have it while the request is on its way, and has it   *)
(* from the append on.                                                     *)
(***************************************************************************)
Where(e) ==
  /\ verdict[e] = "idle" => \A r \in Replicas : ~Holds(r, e)
  /\ verdict[e] # "idle" => Holds(home[e], e)
  /\ verdict[e] \in {"idle", "logged"} =>
       /\ taken[e] = {}
       /\ \A r \in Replicas : post[e][r] = "none" /\ ack[e][r] = "none"
  /\ verdict[e] = "logged" => \A r \in Replicas : Holds(r, e) => r = home[e]
  /\ \A r \in Replicas :
       /\ post[e][r] = "flying" => ~Holds(r, e)
       /\ post[e][r] = "stored" \/ ack[e][r] = "ok" => Holds(r, e)
       /\ ack[e][r] # "none" => r \in FollowersOf(home[e])
       /\ r \in taken[e] => ack[e][r] \in {"ok", "error"}

Injective(s) == \A i, j \in DOMAIN s : s[i] = s[j] => i = j

LogInv ==
  /\ \A r \in Replicas : Injective(log[r])
  /\ \A e \in Entries : Where(e)

(***************************************************************************)
(* What a verdict was based on: the results read so far, which are final.  *)
(***************************************************************************)
Failures(e) == Cardinality({r \in taken[e] : ack[e][r] = "error"})

VerdictInv ==
  \A e \in Entries :
    /\ verdict[e] = "ok" => Needed <= 0 \/ Oks(e, taken[e]) >= Needed
    /\ verdict[e] = "failed" => Failures(e) > Cardinality(FollowersOf(home[e])) - Needed

\* The partitions an election has updated go to the replica it promoted.
RouteInv ==
  /\ election \in [pc : {"idle", "polling", "rerouting"}, next : {election.next}, found : {election.found},
                   best : Replicas, moving : SUBSET ShardPartitions]
  /\ election.pc = "rerouting" => \A p \in ShardPartitions \ election.moving : routed[p] = election.best
  /\ RoutedTogether

IInv == TypeInv /\ LogInv /\ VerdictInv /\ RouteInv

-----------------------------------------------------------------------------
\* A replica does not replicate to itself.
LEMMA NotOwnFollower ==
  ASSUME NEW r \in Replicas
  PROVE  r \notin FollowersOf(r) /\ FollowersOf(r) \subseteq Replicas /\ IsFiniteSet(FollowersOf(r))
<1>1. r \notin FollowersOf(r) /\ FollowersOf(r) \subseteq Replicas BY DEF FollowersOf
<1> QED BY <1>1, ReplicasAssumption, FS_Subset

\* An append adds one entry to one log.
LEMMA AppendHolds ==
  ASSUME log \in [Replicas -> Seq(Entries)], NEW r \in Replicas, NEW e \in Entries,
         log' = [log EXCEPT ![r] = Append(@, e)]
  PROVE  /\ log' \in [Replicas -> Seq(Entries)]
         /\ \A q \in Replicas, x \in Entries : Holds(q, x)' <=> Holds(q, x) \/ (q = r /\ x = e)
         /\ (\A q \in Replicas : Injective(log[q])) /\ ~Holds(r, e) => \A q \in Replicas : Injective(log'[q])
<1>1. log[r] \in Seq(Entries) /\ log'[r] = Append(log[r], e) /\ \A q \in Replicas : q # r => log'[q] = log[q]
  OBVIOUS
<1>2. /\ log'[r] \in Seq(Entries) /\ DOMAIN log'[r] = 1 .. Len(log[r]) + 1
      /\ DOMAIN log[r] = 1 .. Len(log[r]) /\ Len(log[r]) \in Nat
      /\ \A i \in DOMAIN log[r] : log'[r][i] = log[r][i]
      /\ log'[r][Len(log[r]) + 1] = e
  BY <1>1
<1>3. log' \in [Replicas -> Seq(Entries)] BY <1>1, <1>2
<1>4. \A x \in Entries : Holds(r, x)' <=> Holds(r, x) \/ x = e
  <2>1. ASSUME NEW x \in Entries, Holds(r, x)' PROVE Holds(r, x) \/ x = e
    BY <1>2, <2>1 DEF Holds
  <2>2. ASSUME NEW x \in Entries, Holds(r, x) PROVE Holds(r, x)' BY <1>2, <2>2 DEF Holds
  <2>3. Holds(r, e)'
    <3>1. Len(log[r]) + 1 \in DOMAIN log'[r] BY <1>2
    <3> QED BY <1>2, <3>1 DEF Holds
  <2> QED BY <2>1, <2>2, <2>3
<1>5. \A q \in Replicas, x \in Entries : q # r => (Holds(q, x)' <=> Holds(q, x)) BY <1>1 DEF Holds
<1>6. Injective(log[r]) /\ ~Holds(r, e) => Injective(log'[r]) BY <1>2 DEF Injective, Holds
<1> QED BY <1>1, <1>3, <1>4, <1>5, <1>6

\* Who has what stays as long as the logs do.
LEMMA SameHolds ==
  ASSUME UNCHANGED log
  PROVE  \A q \in Replicas, x \in Entries : Holds(q, x)' <=> Holds(q, x)
BY DEF Holds

\* Results that were read are final, and so is what was concluded from them.
LEMMA VerdictKept ==
  ASSUME TypeInv, LogInv, VerdictInv,
         UNCHANGED home,
         \A e \in Entries : verdict'[e] \in {verdict[e], "crashed", "waiting", "logged"},
         \A e \in Entries : verdict[e] \in {"ok", "failed"} =>
           /\ taken'[e] = taken[e]
           /\ \A r \in taken[e] : ack'[e][r] = ack[e][r]
  PROVE  VerdictInv'
<1>1. ASSUME NEW e \in Entries, verdict'[e] \in {"ok", "failed"}
      PROVE  /\ verdict'[e] = verdict[e]
             /\ Oks(e, taken[e])' = Oks(e, taken[e])
             /\ Failures(e)' = Failures(e)
  <2>1. verdict'[e] = verdict[e] BY <1>1
  <2>2. taken'[e] = taken[e] /\ \A r \in taken[e] : ack'[e][r] = ack[e][r] BY <1>1, <2>1
  <2>3. /\ {r \in taken'[e] : ack'[e][r] = "ok"} = {r \in taken[e] : ack[e][r] = "ok"}
        /\ {r \in taken'[e] : ack'[e][r] = "error"} = {r \in taken[e] : ack[e][r] = "error"}
    BY <2>2
  <2> QED BY <2>1, <2>3 DEF Oks, Failures
<1> HIDE DEF Oks, Failures
<1> QED BY <1>1 DEF VerdictInv

-----------------------------------------------------------------------------
\* Nothing is logged at the start.
LEMMA InitIInv == Init => IInv
<1> SUFFICES ASSUME Init PROVE IInv OBVIOUS
<1> USE ReplicasAssumption
<1>1. TypeInv BY DEF Init, TypeInv, Verdicts, Posts, Acks
<1>2. LogInv BY DEF Init, LogInv, Where, Injective, Holds
<1>3. VerdictInv BY DEF Init, VerdictInv
<1>4. RouteInv BY DEF Init, RouteInv, NoElection, RoutedTogether
<1> QED BY <1>1, <1>2, <1>3, <1>4 DEF IInv

\* The steps of the replicas and the calls leave the routes alone.
LEMMA RouteKept == RouteInv /\ UNCHANGED electVars => RouteInv'
BY DEF RouteInv, RoutedTogether, electVars

\* A new entry is on the replica that a partition is routed to, and nowhere
\* else.
LEMMA AppendIInv ==
  ASSUME IInv, NEW e \in Entries, AppendEntry(e)
  PROVE  IInv'
<1> TypeInv /\ LogInv /\ VerdictInv /\ RouteInv BY DEF IInv
<1> PICK r \in Replicas : /\ log' = [log EXCEPT ![r] = Append(@, e)]
                          /\ home' = [home EXCEPT ![e] = r]
  BY Zenon DEF AppendEntry, TypeInv
<1>1. /\ verdict[e] = "idle" /\ verdict' = [verdict EXCEPT ![e] = "logged"]
      /\ UNCHANGED <<post, ack, taken, electVars>>
  BY DEF AppendEntry
<1>2. Where(e) /\ \A q \in Replicas : ~Holds(q, e) BY <1>1 DEF LogInv, Where
<1>3. /\ log' \in [Replicas -> Seq(Entries)]
      /\ \A q \in Replicas, x \in Entries : Holds(q, x)' <=> Holds(q, x) \/ (q = r /\ x = e)
      /\ \A q \in Replicas : Injective(log'[q])
  BY <1>2, AppendHolds, Zenon DEF LogInv, TypeInv
<1>4. TypeInv' BY <1>1, <1>3 DEF TypeInv, Verdicts, electVars
<1>5. /\ home'[e] = r /\ verdict'[e] = "logged"
      /\ \A x \in Entries : x # e => home'[x] = home[x] /\ verdict'[x] = verdict[x]
  BY <1>1 DEF TypeInv
<1>6. ASSUME NEW x \in Entries PROVE Where(x)'
  <2>1. CASE x = e BY <1>1, <1>2, <1>3, <1>5, <2>1 DEF Where
  <2>2. CASE x # e
    <3>1. home[x] \in Replicas /\ Where(x) BY DEF TypeInv, LogInv
    <3> QED BY <1>1, <1>3, <1>5, <2>2, <3>1 DEF Where
  <2> QED BY <2>1, <2>2
<1>7. VerdictInv' BY <1>1, <1>5, Zenon DEF VerdictInv, Oks, Failures
<1> QED BY <1>1, <1>3, <1>4, <1>6, <1>7, RouteKept DEF IInv, LogInv

\* Replicate decides at once, or has nothing but requests on their way to
\* followers that do not have the entry.
LEMMA ReplicateIInv ==
  ASSUME IInv, NEW e \in Entries, Replicate(e)
  PROVE  IInv'
<1> TypeInv /\ LogInv /\ VerdictInv /\ RouteInv BY DEF IInv
<1> DEFINE F == FollowersOf(home[e])
<1>1. /\ verdict[e] = "logged" /\ UNCHANGED <<log, home, taken, electVars>>
      /\ verdict' = [verdict EXCEPT ![e] =
           IF Needed <= 0 THEN "ok" ELSE IF F = {} THEN "failed" ELSE "waiting"]
  BY DEF Replicate, replicaVars
<1>2. /\ post' \in [Entries -> [Replicas -> Posts]] /\ ack' \in [Entries -> [Replicas -> Acks]]
      /\ \A x \in Entries : x # e => post'[x] = post[x] /\ ack'[x] = ack[x]
      /\ \/ post'[e] = post[e] /\ ack'[e] = ack[e]
         \/ \A r \in Replicas :
              /\ post'[e][r] = IF r \in F THEN "flying" ELSE "none"
              /\ ack'[e][r] = IF r \in F THEN "waiting" ELSE "none"
  <2>1. CASE F = {} \/ Needed <= 0 BY <2>1 DEF Replicate, TypeInv
  <2>2. CASE ~(F = {} \/ Needed <= 0)
    <3>1. /\ post' = [post EXCEPT ![e] = [r \in Replicas |-> IF r \in F THEN "flying" ELSE "none"]]
          /\ ack' = [ack EXCEPT ![e] = [r \in Replicas |-> IF r \in F THEN "waiting" ELSE "none"]]
      BY <2>2 DEF Replicate
    <3> HIDE DEF F
    <3> QED BY <3>1 DEF TypeInv, Posts, Acks
  <2> QED BY <2>1, <2>2
<1>3. TypeInv' BY <1>1, <1>2, Zenon DEF TypeInv, Verdicts, electVars
<1>4. \A q \in Replicas, x \in Entries : Holds(q, x)' <=> Holds(q, x) BY <1>1, SameHolds
<1>5. home[e] \in Replicas /\ home[e] \notin F BY NotOwnFollower DEF TypeInv
<1>6. ASSUME NEW x \in Entries PROVE Where(x)'
  <2>0. home[x] \in Replicas /\ Where(x) BY DEF TypeInv, LogInv
  <2>1. CASE x = e
    <3>1. /\ verdict'[e] \in {"ok", "failed", "waiting"} /\ taken'[e] = {} /\ home'[e] = home[e]
          /\ Holds(home[e], e) /\ \A r \in Replicas : Holds(r, e) => r = home[e]
      BY <1>1, <2>0, <2>1 DEF Where, TypeInv
    <3>2. \A r \in Replicas : post[e][r] = "none" /\ ack[e][r] = "none" BY <1>1, <2>0, <2>1 DEF Where
    <3> HIDE DEF F
    <3>3. \A r \in Replicas : /\ post'[e][r] \in {"none", "flying"} /\ ack'[e][r] \in {"none", "waiting"}
                              /\ post'[e][r] = "flying" => r \in F
                              /\ ack'[e][r] # "none" => r \in F
      BY <1>2, <3>2
    <3> QED BY <1>4, <1>5, <2>1, <3>1, <3>3 DEF Where, F
  <2>2. CASE x # e
    <3>1. verdict'[x] = verdict[x] /\ post'[x] = post[x] /\ ack'[x] = ack[x] BY <1>1, <1>2, <2>2 DEF TypeInv
    <3> QED BY <1>1, <1>4, <2>0, <3>1, Zenon DEF Where
  <2> QED BY <2>1, <2>2
<1>7. VerdictInv'
  <2>1. ASSUME NEW x \in Entries, x # e
        PROVE  verdict'[x] = verdict[x] /\ Oks(x, taken[x])' = Oks(x, taken[x]) /\ Failures(x)' = Failures(x)
    BY <1>1, <1>2, <2>1, Zenon DEF TypeInv, Oks, Failures
  <2>2. taken'[e] = {} BY <1>1 DEF LogInv, Where
  <2>3. verdict'[e] = "ok" => Needed <= 0 BY <1>1 DEF TypeInv
  <2>4. verdict'[e] = "failed" => Failures(e)' > Cardinality(F) - Needed
    <3>1. Failures(e)' = 0
      <4>1. {r \in taken'[e] : ack'[e][r] = "error"} = {} BY <2>2
      <4> QED BY <4>1, FS_EmptySet DEF Failures
    <3>2. Needed \in Int BY ReplicasAssumption DEF Needed
    <3>3. verdict'[e] = "failed" => F = {} /\ ~(Needed <= 0) BY <1>1 DEF TypeInv
    <3>4. F = {} => Cardinality(F) = 0 BY FS_EmptySet
    <3> HIDE DEF F
    <3> QED BY <3>1, <3>2, <3>3, <3>4
  <2> QED BY <1>1, <2>1, <2>3, <2>4 DEF VerdictInv
<1> QED BY <1>1, <1>3, <1>6, <1>7, RouteKept DEF IInv, LogInv

\* Of the results read, those that are not ok are failures.
LEMMA CountResults ==
  ASSUME TypeInv, NEW e \in Entries, NEW read, read \subseteq FollowersOf(home[e]),
         \A r \in read : ack[e][r] \in {"ok", "error"}
  PROVE  LET n == Cardinality({r \in read : ack[e][r] = "error"})
         IN  /\ Oks(e, read) \in Nat /\ n \in Nat
             /\ Cardinality(FollowersOf(home[e]) \ read) = Cardinality(FollowersOf(home[e])) - Oks(e, read) - n
             /\ Cardinality(FollowersOf(home[e])) \in Nat
<1> DEFINE F == FollowersOf(home[e])
           A == {r \in read : ack[e][r] = "ok"}
           B == {r \in read : ack[e][r] = "error"}
<1>1. IsFiniteSet(F) BY NotOwnFollower DEF TypeInv
<1>2. IsFiniteSet(read) BY <1>1, FS_Subset
<1>3. IsFiniteSet(A) /\ IsFiniteSet(B) BY <1>2, FS_Subset
<1>4. A \cap B = {} /\ A \cup B = read /\ F \cap read = read
  <2>1. F \cap read = read OBVIOUS
  <2>2. A \cap B = {} OBVIOUS
  <2>3. A \cup B = read OBVIOUS
  <2> QED BY <2>1, <2>2, <2>3
<1> HIDE DEF F, A, B
<1>5. Cardinality(read) = Cardinality(A) + Cardinality(B) - 0
  <2>1. Cardinality(A \cup B) = Cardinality(A) + Cardinality(B) - Cardinality(A \cap B)
    BY <1>3, FS_Union
  <2>2. Cardinality(A \cap B) = 0 BY <1>4, FS_EmptySet
  <2> QED BY <1>4, <2>1, <2>2
<1>6. Cardinality(F \ read) = Cardinality(F) - Cardinality(read)
  <2>1. Cardinality(F \ read) = Cardinality(F) - Cardinality(F \cap read) BY <1>1, FS_Difference, Zenon
  <2> QED BY <1>4, <2>1
<1>7. Cardinality(F) \in Nat /\ Cardinality(A) \in Nat /\ Cardinality(B) \in Nat
  BY <1>1, <1>3, FS_CardinalityType
<1>8. Cardinality(F \ read) = Cardinality(F) - Cardinality(A) - Cardinality(B) BY <1>5, <1>6, <1>7
<1> QED BY <1>7, <1>8 DEF F, A, B, Oks

\* The loop over ackChan concludes from the results it has read.
LEMMA TakeIInv ==
  ASSUME IInv, NEW e \in Entries, NEW r \in Replicas, TakeAck(e, r)
  PROVE  IInv'
<1> TypeInv /\ LogInv /\ VerdictInv /\ RouteInv BY DEF IInv
<1> DEFINE read == taken[e] \cup {r}
<1>1. /\ verdict[e] = "waiting" /\ ack[e][r] \in {"ok", "error"}
      /\ taken' = [taken EXCEPT ![e] = @ \cup {r}]
      /\ verdict' = [verdict EXCEPT ![e] = VerdictAfter(e, read)]
      /\ UNCHANGED <<log, home, post, ack, electVars>>
  BY DEF TakeAck, replicaVars
<1>2. /\ taken'[e] = read /\ verdict'[e] = VerdictAfter(e, read)
      /\ \A x \in Entries : x # e => taken'[x] = taken[x] /\ verdict'[x] = verdict[x]
  BY <1>1 DEF TypeInv
<1>3. VerdictAfter(e, read) \in {"ok", "failed", "waiting"} BY DEF VerdictAfter
<1>4. TypeInv' BY <1>1, <1>3 DEF TypeInv, Verdicts, electVars
<1>5. \A q \in Replicas, x \in Entries : Holds(q, x)' <=> Holds(q, x) BY <1>1, SameHolds
<1>6. read \subseteq FollowersOf(home[e]) /\ \A q \in read : ack[e][q] \in {"ok", "error"}
  <2>1. Where(e) /\ taken[e] \subseteq Replicas BY DEF LogInv, TypeInv
  <2>2. \A q \in read : q \in Replicas /\ ack[e][q] \in {"ok", "error"} BY <1>1, <2>1 DEF Where
  <2> QED BY <2>1, <2>2 DEF Where
<1>7. ASSUME NEW x \in Entries PROVE Where(x)'
  <2>0. home[x] \in Replicas /\ Where(x) BY DEF TypeInv, LogInv
  <2>1. CASE x = e
    <3> HIDE DEF read
    <3> QED BY <1>1, <1>2, <1>3, <1>5, <1>6, <2>0, <2>1, Zenon DEF Where
  <2>2. CASE x # e BY <1>1, <1>2, <1>5, <2>0, <2>2, Zenon DEF Where
  <2> QED BY <2>1, <2>2
<1>8. VerdictInv'
  <2>1. ASSUME NEW x \in Entries, x # e
        PROVE  verdict'[x] = verdict[x] /\ Oks(x, taken[x])' = Oks(x, taken[x]) /\ Failures(x)' = Failures(x)
    BY <1>1, <1>2, <2>1, Zenon DEF Oks, Failures
  <2>2. Oks(e, taken[e])' = Oks(e, read) BY <1>1, <1>2 DEF Oks
  <2>3. Failures(e)' = Cardinality({q \in read : ack[e][q] = "error"}) BY <1>1, <1>2 DEF Failures
  <2>4. Needed \in Int BY ReplicasAssumption DEF Needed
  <2> HIDE DEF read
  <2>5. verdict'[e] = "ok" => Oks(e, taken[e])' >= Needed
    BY <1>2, <1>6, <2>2, <2>4, CountResults DEF VerdictAfter
  <2>6. verdict'[e] = "failed" => Failures(e)' > Cardinality(FollowersOf(home[e])) - Needed
    <3>1. verdict'[e] = "failed" =>
            Oks(e, read) + Cardinality(FollowersOf(home[e]) \ read) < Needed
      BY <1>2, <1>6, <2>4, CountResults DEF VerdictAfter
    <3> QED BY <1>6, <2>3, <2>4, <3>1, CountResults
  <2> QED BY <1>1, <2>1, <2>5, <2>6, Zenon DEF VerdictInv
<1> QED BY <1>1, <1>4, <1>7, <1>8, RouteKept DEF IInv, LogInv

\* A request or its result moves on, for one entry and one follower: no request
\* is sent a second time, no result that was there changes, and a stored entry
\* or an ok stands for an entry in the log.
Moves(e, r) ==
  /\ UNCHANGED <<home, verdict, taken, electVars>>
  /\ post' \in [Entries -> [Replicas -> Posts]] /\ ack' \in [Entries -> [Replicas -> Acks]]
  /\ \A x \in Entries, q \in Replicas :
       x # e \/ q # r => post'[x][q] = post[x][q] /\ ack'[x][q] = ack[x][q]
  /\ post'[e][r] = post[e][r] \/ (post[e][r] # "none" /\ post'[e][r] # "flying")
  /\ ack'[e][r] = ack[e][r] \/ ack[e][r] = "waiting"

\* Such a step keeps the invariant if it logs nothing, ...
LEMMA MovesIInv ==
  ASSUME IInv, NEW e \in Entries, NEW r \in Replicas, Moves(e, r),
         log' \in [Replicas -> Seq(Entries)],
         \A q \in Replicas : Injective(log'[q]),
         \A q \in Replicas, x \in Entries : Holds(q, x) => Holds(q, x)',
         \A q \in Replicas, x \in Entries : q # r \/ x # e => (Holds(q, x)' <=> Holds(q, x)),
         post'[e][r] = "stored" \/ ack'[e][r] = "ok" => Holds(r, e)',
         Holds(r, e)' => Holds(r, e) \/ (post[e][r] = "flying" /\ post'[e][r] # "flying")
  PROVE  IInv'
<1> TypeInv /\ LogInv /\ VerdictInv /\ RouteInv BY DEF IInv
<1>1. TypeInv' BY DEF Moves, TypeInv, electVars
<1>2. UNCHANGED <<home, verdict, taken>> BY Zenon DEF Moves
<1>3. ASSUME NEW x \in Entries PROVE Where(x)'
  <2>0. home[x] \in Replicas /\ Where(x) BY Zenon DEF TypeInv, LogInv
  <2>1. CASE x = e
    <3>1. \A q \in Replicas : q # r =>
            /\ post'[e][q] = post[e][q] /\ ack'[e][q] = ack[e][q] /\ (Holds(q, e)' <=> Holds(q, e))
      BY Zenon DEF Moves
    <3>2. verdict[e] \in {"idle", "logged"} =>
            post[e][r] = "none" /\ ack[e][r] = "none" /\ post'[e][r] = "none" /\ ack'[e][r] = "none"
      BY <2>0, <2>1, Zenon DEF Where, Moves
    <3>3. /\ post'[e][r] = "flying" => post[e][r] = "flying" /\ ~Holds(r, e)'
          /\ ack'[e][r] # "none" => ack[e][r] # "none"
          /\ ack[e][r] \in {"ok", "error"} => ack'[e][r] = ack[e][r]
      BY <2>0, <2>1, Zenon DEF Where, Moves
    <3>4. ASSUME NEW q \in Replicas
          PROVE  /\ post'[e][q] = "flying" => ~Holds(q, e)'
                 /\ post'[e][q] = "stored" \/ ack'[e][q] = "ok" => Holds(q, e)'
                 /\ ack'[e][q] # "none" => q \in FollowersOf(home[e])
                 /\ q \in taken[e] => ack'[e][q] \in {"ok", "error"}
      <4>1. CASE q = r BY <2>0, <2>1, <3>3, <4>1, Zenon DEF Where
      <4>2. CASE q # r BY <2>0, <2>1, <3>1, <4>2, Zenon DEF Where
      <4> QED BY <4>1, <4>2, Zenon
    <3>5. \A q \in Replicas : verdict[e] \in {"idle", "logged"} =>
            post'[e][q] = "none" /\ ack'[e][q] = "none" /\ (Holds(q, e)' <=> Holds(q, e))
      <4>1. Holds(r, e)' => Holds(r, e) \/ post[e][r] = "flying" BY Zenon
      <4>2. Holds(r, e) => Holds(r, e)' BY Zenon
      <4>3. verdict[e] \in {"idle", "logged"} => \A q \in Replicas : post[e][q] = "none" /\ ack[e][q] = "none"
        BY <2>0, <2>1, Zenon DEF Where
      <4> QED BY ONLY <3>1, <3>2, <4>1, <4>2, <4>3
    <3> QED BY <1>2, <2>0, <2>1, <3>4, <3>5, Zenon DEF Where
  <2>2. CASE x # e
    <3>1. \A q \in Replicas :
            /\ post'[x][q] = post[x][q] /\ ack'[x][q] = ack[x][q] /\ (Holds(q, x)' <=> Holds(q, x))
      BY <2>2, Zenon DEF Moves
    <3> QED BY <1>2, <2>0, <3>1, Zenon DEF Where
  <2> QED BY <2>1, <2>2, Zenon
<1>4. VerdictInv'
  <2>1. ASSUME NEW x \in Entries, NEW q \in taken[x] PROVE ack'[x][q] = ack[x][q]
    <3>1. q \in Replicas /\ ack[x][q] \in {"ok", "error"} BY Zenon DEF TypeInv, LogInv, Where
    <3> QED BY <3>1, Zenon DEF Moves
  <2> QED BY <1>2, <2>1, VerdictKept, Zenon
<1>5. RouteInv' BY RouteKept, Zenon DEF Moves
<1> QED BY <1>1, <1>3, <1>4, <1>5, Zenon DEF IInv, LogInv

\* ... as a timeout, a failed append, an answer and a refused connection do, ...
LEMMA QuietMovesIInv ==
  ASSUME IInv, NEW e \in Entries, NEW r \in Replicas, Moves(e, r), UNCHANGED log,
         post'[e][r] = "stored" \/ ack'[e][r] = "ok" => Holds(r, e)
  PROVE  IInv'
<1>1. \A q \in Replicas, x \in Entries : Holds(q, x)' <=> Holds(q, x) BY SameHolds, Zenon
<1>2. log' \in [Replicas -> Seq(Entries)] /\ \A q \in Replicas : Injective(log'[q])
  BY DEF IInv, TypeInv, LogInv
<1> QED BY <1>1, <1>2, MovesIInv, Zenon

\* ... and if it logs what was on its way.
LEMMA ReceiveIInv ==
  ASSUME IInv, NEW e \in Entries, NEW r \in Replicas, ReceiveEntry(e, r)
  PROVE  IInv'
<1> TypeInv /\ LogInv BY DEF IInv
<1>1. /\ log' = [log EXCEPT ![r] = Append(@, e)] /\ post[e][r] = "flying"
      /\ post' = [post EXCEPT ![e][r] = "stored"] /\ UNCHANGED <<ack, home, verdict, taken, electVars>>
  BY DEF ReceiveEntry, PostState
<1>2. ~Holds(r, e) BY <1>1 DEF LogInv, Where
<1>3. /\ log' \in [Replicas -> Seq(Entries)]
      /\ \A q \in Replicas, x \in Entries : Holds(q, x)' <=> Holds(q, x) \/ (q = r /\ x = e)
      /\ \A q \in Replicas : Injective(log'[q])
  BY <1>1, <1>2, AppendHolds, Zenon DEF LogInv, TypeInv
<1>4. Moves(e, r) /\ post'[e][r] = "stored" BY <1>1 DEF Moves, TypeInv, Posts
<1> QED BY <1>1, <1>3, <1>4, MovesIInv

\* The other steps of a request.
LEMMA AnswerIInv ==
  ASSUME IInv, NEW e \in Entries, NEW r \in Replicas,
         SendTimesOut(e, r) \/ ReceiveFails(e, r) \/ Respond(e, r) \/ Refused(e, r)
  PROVE  IInv'
<1> TypeInv /\ LogInv BY DEF IInv
<1>0. Where(e) BY DEF LogInv
<1>1. CASE SendTimesOut(e, r)
  <2>1. UNCHANGED log /\ Moves(e, r) /\ ack'[e][r] = "error" /\ post'[e][r] = post[e][r]
    BY <1>1 DEF SendTimesOut, Moves, TypeInv, Acks
  <2> QED BY <1>0, <2>1, QuietMovesIInv, Zenon DEF Where
<1>2. CASE ReceiveFails(e, r)
  <2>1. UNCHANGED log /\ Moves(e, r) /\ post'[e][r] = "rejected" /\ ack'[e][r] = ack[e][r]
    BY <1>2 DEF ReceiveFails, PostState, Moves, TypeInv, Posts
  <2> QED BY <1>0, <2>1, QuietMovesIInv, Zenon DEF Where
<1>3. CASE Respond(e, r)
  <2>1. /\ UNCHANGED log /\ Moves(e, r) /\ post'[e][r] = "gone"
        /\ ack'[e][r] = "ok" => ack[e][r] = "ok" \/ post[e][r] = "stored"
    BY <1>3, Zenon DEF Respond, PostState, Moves, TypeInv, Posts, Acks
  <2> QED BY <1>0, <2>1, QuietMovesIInv, Zenon DEF Where
<1>4. CASE Refused(e, r)
  <2>1. /\ UNCHANGED log /\ Moves(e, r) /\ post'[e][r] = "gone"
        /\ ack'[e][r] = "ok" => ack[e][r] = "ok"
    BY <1>4 DEF Refused, PostState, Moves, TypeInv, Posts, Acks, replicaVars
  <2> QED BY <1>0, <2>1, QuietMovesIInv, Zenon DEF Where
<1> QED BY <1>1, <1>2, <1>3, <1>4

\* What an election or a restart leaves alone.
LEMMA CallsKept ==
  ASSUME TypeInv, LogInv, VerdictInv, UNCHANGED <<log, callVars>>
  PROVE  LogInv' /\ VerdictInv'
<1>1. UNCHANGED <<home, verdict, post, ack, taken>> BY DEF callVars
<1>2. \A q \in Replicas, x \in Entries : Holds(q, x)' <=> Holds(q, x) BY SameHolds
<1>3. ASSUME NEW x \in Entries PROVE Where(x)'
  <2>1. home[x] \in Replicas /\ Where(x) BY DEF TypeInv, LogInv
  <2> QED BY <1>1, <1>2, <2>1, Zenon DEF Where
<1>4. VerdictInv' BY <1>1, VerdictKept
<1> QED BY <1>3, <1>4 DEF LogInv, Injective

\* A crash ends calls and requests, and turns a result that is still awaited
\* into an error.
LEMMA CrashIInv ==
  ASSUME IInv, NEW r \in Replicas, Crash(r)
  PROVE  IInv'
<1> TypeInv /\ LogInv /\ VerdictInv /\ RouteInv BY DEF IInv
<1>1. UNCHANGED <<log, home, taken, electVars>> BY DEF Crash
<1>2. /\ verdict' \in [Entries -> Verdicts]
      /\ post' \in [Entries -> [Replicas -> Posts]] /\ ack' \in [Entries -> [Replicas -> Acks]]
  BY DEF Crash, TypeInv, Verdicts, Posts, Acks
<1>3. \A e \in Entries : \/ verdict'[e] = verdict[e]
                         \/ verdict'[e] = "crashed" /\ verdict[e] \in {"logged", "waiting"}
  BY DEF Crash
<1>4. \A e \in Entries, q \in Replicas :
        /\ post'[e][q] = post[e][q] \/ (post'[e][q] = "gone" /\ post[e][q] \in {"stored", "rejected"})
        /\ ack'[e][q] = ack[e][q] \/ (ack'[e][q] = "error" /\ ack[e][q] = "waiting")
  BY Zenon DEF Crash
<1>5. TypeInv' BY <1>1, <1>2 DEF TypeInv, electVars
<1>6. \A q \in Replicas, x \in Entries : Holds(q, x)' <=> Holds(q, x) BY <1>1, SameHolds
<1>7. ASSUME NEW x \in Entries PROVE Where(x)'
  <2>0. home[x] \in Replicas /\ Where(x) BY DEF TypeInv, LogInv
  <2>1. verdict[x] \in {"idle", "logged"} =>
          \A q \in Replicas : post'[x][q] = "none" /\ ack'[x][q] = "none"
    BY ONLY <1>4, <2>0 DEF Where
  <2>2. ASSUME NEW q \in Replicas
        PROVE  /\ post'[x][q] = "flying" => ~Holds(q, x)'
               /\ post'[x][q] = "stored" \/ ack'[x][q] = "ok" => Holds(q, x)'
               /\ ack'[x][q] # "none" => q \in FollowersOf(home[x])
               /\ q \in taken[x] => ack'[x][q] \in {"ok", "error"}
    BY ONLY <1>4, <1>6, <2>0 DEF Where
  <2> QED BY <1>1, <1>3, <1>6, <2>0, <2>1, <2>2, Zenon DEF Where
<1>8. VerdictInv'
  <2>1. ASSUME NEW x \in Entries, NEW q \in taken[x] PROVE ack'[x][q] = ack[x][q]
    <3>1. q \in Replicas /\ ack[x][q] \in {"ok", "error"} BY Zenon DEF TypeInv, LogInv, Where
    <3> QED BY <1>4, <3>1, Zenon
  <2> QED BY <1>1, <1>3, <2>1, VerdictKept, Zenon
<1> QED BY <1>1, <1>5, <1>7, <1>8, RouteKept DEF IInv, LogInv

\* An election changes roles and routes only.
LEMMA ElectIInv ==
  ASSUME IInv, Elect
  PROVE  IInv'
<1> TypeInv /\ LogInv /\ VerdictInv /\ RouteInv BY DEF IInv
<1>1. UNCHANGED <<log, callVars>>
  BY Zenon DEF Elect, StartElection, Poll, Promote, UpdatePartition, replicaVars
<1>2. LogInv' /\ VerdictInv' BY <1>1, CallsKept
<1>3. routed' \in [ShardPartitions -> Replicas] /\ RouteInv'
  <2>1. CASE StartElection
    BY <2>1, ReplicasAssumption, Zenon DEF StartElection, NoElection, RouteInv, RoutedTogether, TypeInv
  <2>2. CASE Poll
    <3>1. /\ routed' = routed /\ election'.pc = election.pc /\ election'.best = election.best
          /\ election'.moving = election.moving
          /\ election' \in [pc : {"idle", "polling", "rerouting"}, next : {election'.next},
                            found : {election'.found}, best : Replicas, moving : SUBSET ShardPartitions]
      BY <2>2, Zenon DEF Poll, RouteInv
    <3> QED BY <3>1 DEF RouteInv, RoutedTogether, TypeInv
  <2>3. CASE Promote
    <3>1. routed' = routed /\ election.pc = "polling" BY <2>3, Zenon DEF Promote
    <3>2. CASE election' = NoElection
      BY <3>1, <3>2, ReplicasAssumption DEF NoElection, RouteInv, RoutedTogether, TypeInv
    <3>3. ASSUME NEW b \in Replicas,
                 election' = [election EXCEPT !.pc = "rerouting", !.best = b, !.moving = ShardPartitions]
          PROVE  RouteInv'
      BY <3>1, <3>3, Zenon DEF RouteInv, RoutedTogether
    <3> QED BY <2>3, <3>1, <3>2, <3>3, Zenon DEF Promote, TypeInv
  <2>4. ASSUME NEW p \in ShardPartitions, UpdatePartition(p)
        PROVE  routed' \in [ShardPartitions -> Replicas] /\ RouteInv'
    <3>1. /\ election.pc = "rerouting" /\ election.best \in Replicas
          /\ routed' \in [ShardPartitions -> Replicas] /\ routed'[p] = election.best
          /\ \A q \in ShardPartitions : q # p => routed'[q] = routed[q]
      BY <2>4 DEF UpdatePartition, RouteInv, TypeInv
    <3>2. CASE election.moving = {p}
      <4>1. election' = NoElection BY <2>4, <3>2 DEF UpdatePartition
      <4>2. \A q \in ShardPartitions : routed'[q] = election.best BY <3>1, <3>2 DEF RouteInv
      <4> QED BY <3>1, <4>1, <4>2, ReplicasAssumption DEF NoElection, RouteInv, RoutedTogether
    <3>3. CASE election.moving # {p}
      <4>1. election' = [election EXCEPT !.moving = @ \ {p}] BY <2>4, <3>3 DEF UpdatePartition
      <4>2. /\ election'.pc = "rerouting" /\ election'.best = election.best
            /\ election'.moving = election.moving \ {p}
            /\ election' \in [pc : {"idle", "polling", "rerouting"}, next : {election'.next},
                              found : {election'.found}, best : Replicas, moving : SUBSET ShardPartitions]
        BY <3>1, <4>1 DEF RouteInv
      <4> QED BY <3>1, <4>2 DEF RouteInv, RoutedTogether
    <3> QED BY <3>1, <3>2, <3>3
  <2> QED BY <2>1, <2>2, <2>3, <2>4 DEF Elect
<1>4. TypeInv' BY <1>1, <1>3 DEF TypeInv, callVars
<1> QED BY <1>2, <1>3, <1>4 DEF IInv

\* Every action keeps the invariant.
LEMMA NextIInv == IInv /\ [Next]_vars => IInv'
<1> SUFFICES ASSUME IInv, [Next]_vars PROVE IInv' OBVIOUS
<1>1. ASSUME UNCHANGED <<log, callVars, electVars>> PROVE IInv'
  <2>1. LogInv' /\ VerdictInv' BY <1>1, CallsKept DEF IInv
  <2>2. TypeInv' BY <1>1 DEF IInv, TypeInv, callVars, electVars
  <2> QED BY <1>1, <2>1, <2>2, RouteKept DEF IInv
<1>2. ASSUME NEW r \in Replicas, Restart(r) PROVE IInv' BY <1>1, <1>2 DEF Restart
<1>3. CASE UNCHANGED vars BY <1>1, <1>3 DEF vars, replicaVars
<1> QED
  BY <1>2, <1>3, AppendIInv, ReplicateIInv, TakeIInv, ReceiveIInv, AnswerIInv, CrashIInv, ElectIInv
  DEF Next, Serve

\* The invariant holds in every reachable state.
LEMMA IInvHolds == Spec => []IInv
BY InitIInv, NextIInv, PTL DEF Spec

-----------------------------------------------------------------------------
\* No entry is twice in a log, and none without being in its sender's.
THEOREM LoggedOnceHolds == Spec => []LoggedOnce
<1>1. IInv => LoggedOnce
  <2> SUFFICES ASSUME IInv PROVE LoggedOnce OBVIOUS
  <2>1. \A r \in Replicas : Injective(log[r]) BY DEF IInv, LogInv
  <2>2. \A r \in Replicas, e \in Entries : Holds(r, e) => Holds(home[e], e)
    BY DEF IInv, LogInv, Where
  <2> QED BY <2>1, <2>2 DEF LoggedOnce, Injective
<1> QED BY <1>1, IInvHolds, PTL

\* A Replicate call that returned nil is backed by a quorum of logs.
THEOREM QuorumPersistedHolds == Spec => []QuorumPersisted
<1>1. IInv => QuorumPersisted
  <2> SUFFICES ASSUME IInv, NEW e \in Entries, verdict[e] = "ok"
               PROVE  Cardinality({r \in Replicas : Holds(r, e)}) >= QuorumSize
    BY DEF QuorumPersisted
  <2> TypeInv /\ LogInv /\ VerdictInv BY DEF IInv
  <2> DEFINE Q == {r \in Replicas : Holds(r, e)}
             A == {r \in taken[e] : ack[e][r] = "ok"}
  <2>1. home[e] \in Replicas /\ Where(e) BY DEF TypeInv, LogInv
  <2>2. home[e] \in Q BY <2>1 DEF Where
  <2>3. A \subseteq Q /\ home[e] \notin A
    <3>1. \A r \in A : r \in Replicas /\ Holds(r, e) /\ r \in FollowersOf(home[e])
      BY <2>1 DEF Where, TypeInv
    <3> QED BY <2>1, <3>1, NotOwnFollower
  <2>4. IsFiniteSet(Q) BY ReplicasAssumption, FS_Subset
  <2>5. Needed <= 0 \/ Cardinality(A) >= Needed BY DEF VerdictInv, Oks
  <2> HIDE DEF Q, A
  <2>6. IsFiniteSet(A) BY <2>3, <2>4, FS_Subset
  <2>7. Cardinality(A \cup {home[e]}) = Cardinality(A) + 1 BY <2>3, <2>6, FS_AddElement, Zenon
  <2>8. Cardinality(A \cup {home[e]}) <= Cardinality(Q)
    <3>1. A \cup {home[e]} \in SUBSET Q BY <2>2, <2>3
    <3> QED BY <2>4, <3>1, FS_Subset
  <2>9. Cardinality(A) \in Nat /\ Cardinality(Q) \in Nat BY <2>4, <2>6, FS_CardinalityType
  <2>10. Cardinality(Q) >= QuorumSize
    BY <2>5, <2>7, <2>8, <2>9, ReplicasAssumption DEF Needed
  <2> QED BY <2>10 DEF Q
<1> QED BY <1>1, IInvHolds, PTL

\* A Replicate call that returned an error had too many failures to go on.
THEOREM GivesUpOnlyWhenHopelessHolds == Spec => []GivesUpOnlyWhenHopeless
<1>1. IInv => GivesUpOnlyWhenHopeless BY DEF IInv, VerdictInv, Failures, GivesUpOnlyWhenHopeless
<1> QED BY <1>1, IInvHolds, PTL

\* Between elections the partitions of the shard are routed to one address.
THEOREM RoutedTogetherHolds == Spec => []RoutedTogether
<1>1. IInv => RoutedTogether BY DEF IInv, RouteInv
<1> QED BY <1>1, IInvHolds, PTL

-----------------------------------------------------------------------------
(***************************************************************************)
(* The failure detector never reports a peer too early, for any number of  *)
(* peers, any limit and any pattern of failures.                           *)
(***************************************************************************)
Counts == 0 .. MaxMissCount

HeartbeatTypes ==
  /\ pc \in {"wait", "ping", "record", "callback", "stopped"}
  /\ pos \in 1 .. Len(PeerAddrs)
  /\ missCount \in [Peers -> Counts]
  /\ streak \in [Peers -> Counts]

(***************************************************************************)
(* missCount is the streak of every peer, except that the count of the     *)
(* peer just asked is one step behind until it is recorded.                *)
(***************************************************************************)
CountInv ==
  /\ \A p \in Peers :
       streak[p] = IF pc = "record" /\ p = Peer THEN Counted(missCount[p]) ELSE missCount[p]
  /\ pc = "callback" => Failed(missCount[Peer])

HeartbeatInv == HeartbeatTypes /\ CountInv

\* Counting stays within its bound.
LEMMA CountsType ==
  ASSUME NEW n \in Counts
  PROVE  Increment(n) \in Counts /\ 0 \in Counts
BY HeartbeatAssumption DEF Counts, Increment, MaxMissCount

\* The address at a position of the list is a peer.
LEMMA PeerType ==
  ASSUME NEW i \in 1 .. Len(PeerAddrs)
  PROVE  PeerAddrs[i] \in Peers
BY HeartbeatAssumption

\* The list of peers is walked within its bounds.
LEMMA NextPeerType ==
  ASSUME pos \in 1 .. Len(PeerAddrs), NextPeer
  PROVE  pos' \in 1 .. Len(PeerAddrs) /\ pc' \in {"ping", "wait"}
BY HeartbeatAssumption DEF NextPeer

\* Types and counts hold at the start.
LEMMA HeartbeatInvInit == HeartbeatInit => HeartbeatInv
<1> SUFFICES ASSUME HeartbeatInit PROVE HeartbeatInv OBVIOUS
<1>1. HeartbeatTypes BY HeartbeatAssumption DEF HeartbeatInit, HeartbeatTypes, Counts, MaxMissCount
<1>2. CountInv BY DEF HeartbeatInit, CountInv
<1> QED BY <1>1, <1>2 DEF HeartbeatInv

\* Every step keeps the counts in line with what the health checks returned.
LEMMA HeartbeatInvStep == HeartbeatInv /\ [HeartbeatNext]_heartbeatVars => HeartbeatInv'
<1> SUFFICES ASSUME HeartbeatInv, [HeartbeatNext]_heartbeatVars PROVE HeartbeatInv' OBVIOUS
<1> USE DEF HeartbeatInv
<1>0. Peer \in Peers BY PeerType DEF HeartbeatTypes, Peer
<1>1. ASSUME NEW p \in Peers, PeerDown(p) \/ PeerUp(p) PROVE HeartbeatInv'
  BY <1>1 DEF PeerDown, PeerUp, HeartbeatTypes, CountInv, loopVars, Peer, Counted, Failed
<1>2. CASE OnFailure BY <1>2 DEF OnFailure, HeartbeatTypes, CountInv, loopVars, Peer, Counted, Failed
<1>3. CASE Tick BY <1>3, HeartbeatAssumption DEF Tick, HeartbeatTypes, CountInv, Peer
<1>4. CASE Cancel BY <1>4 DEF Cancel, HeartbeatTypes, CountInv, Peer
<1>5. CASE HealthCheck
  <2>1. Peer' = Peer BY <1>5, Zenon DEF HealthCheck, Peer
  <2>3. streak'[Peer] = Counted(missCount[Peer])'
    BY <1>5, <1>0, <2>1 DEF HealthCheck, HeartbeatTypes, CountInv, Counted
  <2>4. \A p \in Peers : p # Peer => streak'[p] = missCount'[p]
    BY <1>5 DEF HealthCheck, HeartbeatTypes, CountInv
  <2>5. streak' \in [Peers -> Counts]
    BY <1>5, <1>0, CountsType DEF HealthCheck, HeartbeatTypes
  <2>6. HeartbeatTypes' BY <1>5, <2>5 DEF HealthCheck, HeartbeatTypes
  <2>7. CountInv' BY <1>5, <2>1, <2>3, <2>4 DEF HealthCheck, CountInv
  <2> QED BY <2>6, <2>7
<1>6. CASE Record
  <2>1. Counted(missCount[Peer]) \in Counts
    BY <1>0, CountsType DEF HeartbeatTypes, Counted
  <2>2. missCount' \in [Peers -> Counts] BY <1>6, <2>1, Zenon DEF Record, HeartbeatTypes
  <2>3. pos' \in 1 .. Len(PeerAddrs) /\ pc' \in {"ping", "wait", "callback"}
    BY <1>6, NextPeerType DEF Record, HeartbeatTypes
  <2>4. \A p \in Peers : streak'[p] = missCount'[p]
    BY <1>6, <1>0 DEF Record, HeartbeatTypes, CountInv
  <2>5. pc' = "callback" => Failed(missCount'[Peer']) BY <1>6 DEF Record, NextPeer, Peer
  <2>6. HeartbeatTypes' BY <1>6, <2>2, <2>3 DEF Record, HeartbeatTypes
  <2>7. CountInv' BY <2>3, <2>4, <2>5 DEF CountInv
  <2> QED BY <2>6, <2>7
<1>7. CASE Callback
  <2>1. pos' \in 1 .. Len(PeerAddrs) /\ pc' \in {"ping", "wait"}
    BY <1>7, NextPeerType DEF Callback, HeartbeatTypes
  <2>2. HeartbeatTypes' BY <1>7, <2>1 DEF Callback, HeartbeatTypes
  <2>3. CountInv' BY <1>7, <2>1, Zenon DEF Callback, CountInv
  <2> QED BY <2>2, <2>3
<1>8. CASE UNCHANGED heartbeatVars BY <1>8 DEF heartbeatVars, loopVars, HeartbeatTypes, CountInv, Peer, Counted, Failed
<1> QED BY <1>1, <1>2, <1>3, <1>4, <1>5, <1>6, <1>7, <1>8 DEF HeartbeatNext, Loop, Idle

\* onFailure is called for a peer only after MissLimit failed health checks of
\* it in a row (heartbeat.go, pingAll), whatever the peers, the limit and the
\* answers lost.
THEOREM ReportedAfterLimitHolds == HeartbeatSpec => []ReportedAfterLimit
<1>1. HeartbeatInv => ReportedAfterLimit
  <2> SUFFICES ASSUME HeartbeatInv, pc = "callback" PROVE streak[Peer] >= MissLimit
    BY DEF ReportedAfterLimit
  <2>1. Peer \in Peers BY PeerType DEF HeartbeatInv, HeartbeatTypes, Peer
  <2> QED BY <2>1 DEF HeartbeatInv, CountInv, Failed
<1> QED BY <1>1, HeartbeatInvInit, HeartbeatInvStep, PTL DEF HeartbeatSpec

-----------------------------------------------------------------------------
(***************************************************************************)
(* Moving a partition.                                                     *)
(***************************************************************************)
Steps == {"halt", "halted", "receive", "received"}

IsMove(m) ==
  m \in [pc : Steps, part : Partitions, from : Shards, to : Shards,
         snap : {m.snap}, todo : {m.todo}, sent : {m.sent}]

MoveTypeInv ==
  /\ ledger = [s \in Shards |-> ledger[s]]
  /\ partitions \in [Shards -> [Partitions -> {"ACTIVE", "HALTED", "ABSENT"}]]
  /\ route \in [Partitions -> Shards]
  /\ move = NoMove \/ IsMove(move)

FaultInv ==
  /\ events \in [MoveFaultKinds -> Nat]
  /\ \A k \in MoveFaultKinds : events[k] <= MoveFaults[k]

\* Whatever the source holds while it is halted is on record.
PastInv ==
  /\ move.pc = "halted" => Part(ledger[move.from], move.part) \in past
  /\ SnapshotWasHeld

(***************************************************************************)
(* Without a crash.  A move goes from the shard that is routed to, to      *)
(* another one.  From the halt on the source is not ACTIVE, and the target *)
(* is the only other shard that may be, once something was sent to it.     *)
(***************************************************************************)
OwnerInv ==
  /\ \A p \in Partitions : partitions[route[p]][p] # "ABSENT"
  /\ \A p \in Partitions, s \in Shards :
       partitions[s][p] = "ACTIVE" =>
         s = route[p] \/ (Moving /\ move.sent /\ p = move.part /\ s = move.to)
  /\ Moving =>
       /\ move.from = route[move.part] /\ move.to # move.from
       /\ move.sent \/ move.pc = "halted" => partitions[move.from][move.part] # "ACTIVE"
       /\ move.pc \in {"receive", "received"} => move.sent
       /\ move.pc = "received" => partitions[move.to][move.part] # "ABSENT"

(***************************************************************************)
(* The shard that is routed to has every account of the partition that any *)
(* shard has, so the snapshot covers the copies left over elsewhere; what  *)
(* was received is as in the snapshot.                                     *)
(***************************************************************************)
CopyInv ==
  /\ \A s \in Shards, p \in Partitions :
       DOMAIN ledger[s] \cap Members(p) \subseteq DOMAIN ledger[route[p]]
  /\ move.pc \in {"receive", "received"} =>
       /\ move.snap = [a \in DOMAIN move.snap |-> move.snap[a]]
       /\ DOMAIN move.snap = DOMAIN ledger[move.from] \cap Members(move.part)
       /\ move.todo \subseteq DOMAIN move.snap
       /\ \A a \in DOMAIN move.snap \ move.todo :
            a \in DOMAIN ledger[move.to] /\ ledger[move.to][a] = move.snap[a]
  /\ move.pc = "received" => move.todo = {}

Smooth == ~Happened({"crash"})

MoveInv == MoveTypeInv /\ FaultInv /\ PastInv /\ (Smooth => OwnerInv /\ CopyInv)

-----------------------------------------------------------------------------
\* Faults are counted down, and a crash that happened has happened.
LEMMA FaultType ==
  ASSUME FaultInv, NEW k \in MoveFaultKinds, Event(k)
  PROVE  /\ FaultInv'
         /\ Smooth' => Smooth
         /\ k = "crash" => ~Smooth'
<1>1. MoveFaults \in [MoveFaultKinds -> Nat] /\ "crash" \in MoveFaultKinds
  BY MoveAssumption DEF MoveFaultKinds
<1>2. /\ events' \in [MoveFaultKinds -> Nat]
      /\ \A m \in MoveFaultKinds : events'[m] <= events[m]
      /\ events'[k] < events[k]
  BY DEF FaultInv, Event
<1> QED BY <1>1, <1>2 DEF FaultInv, Smooth, Happened

\* A step without a fault.
LEMMA NoFault == FaultInv /\ UNCHANGED events => FaultInv' /\ (Smooth' => Smooth)
BY DEF FaultInv, Smooth, Happened

\* Every shard starts with the accounts and the partitions of its
\* configuration.
LEMMA InitMoveInv == MoveInit => MoveInv
<1> SUFFICES ASSUME MoveInit PROVE MoveInv OBVIOUS
<1> USE MoveAssumption
<1>1. MoveTypeInv BY DEF MoveInit, MoveTypeInv, Configured
<1>2. FaultInv BY DEF MoveInit, FaultInv
<1>3. PastInv BY DEF MoveInit, PastInv, SnapshotWasHeld, NoMove
<1>4. OwnerInv BY DEF MoveInit, OwnerInv, Configured, Moving, NoMove
<1>5. CopyInv BY DEF MoveInit, CopyInv, Members, NoMove
<1> QED BY <1>1, <1>2, <1>3, <1>4, <1>5 DEF MoveInv

\* The record of the halted partition is kept up by every step that can
\* happen during a halt.
LEMMA Watched ==
  ASSUME Watch, PastInv, UNCHANGED move
  PROVE  PastInv'
<1>1. CASE move.pc = "halted" BY <1>1 DEF Watch, PastInv, SnapshotWasHeld, Part
<1>2. CASE move.pc \in {"receive", "received"} BY <1>2 DEF Watch, PastInv, SnapshotWasHeld
<1>3. CASE move.pc \notin {"halted", "receive", "received"} BY <1>3 DEF PastInv, SnapshotWasHeld
<1> QED BY <1>1, <1>2, <1>3

\* A posting to an account that exists changes no other balance and no domain.
LEMMA PostKeeps ==
  ASSUME NEW bs, bs = [s \in Shards |-> bs[s]], NEW s \in Shards, NEW a, a \in DOMAIN bs[s], NEW n
  PROVE  LET new == Post(bs, s, a, n)
         IN  /\ new = [t \in Shards |-> new[t]]
             /\ \A t \in Shards : DOMAIN new[t] = DOMAIN bs[t]
             /\ \A t \in Shards : \A b \in DOMAIN bs[t] : t # s \/ b # a => new[t][b] = bs[t][b]
BY DEF Post, SetBalance

\* A transfer changes the balances of its two accounts on the shards that they
\* are routed to: never the copy at the target of a move.
LEMMA TransferIInv ==
  ASSUME MoveInv, NEW src \in Accounts, NEW dst \in Accounts, Transfer(src, dst)
  PROVE  MoveInv'
<1> MoveTypeInv /\ FaultInv /\ PastInv BY DEF MoveInv
<1> DEFINE s == route[GetPartition[src]]
           d == route[GetPartition[dst]]
           mid == Post(ledger, s, src, -1)
<1>0. s \in Shards /\ d \in Shards /\ GetPartition[src] \in Partitions /\ GetPartition[dst] \in Partitions
  BY MoveAssumption DEF MoveTypeInv
<1>1. /\ src \in DOMAIN ledger[s] /\ dst \in DOMAIN ledger[d]
      /\ ledger' = Post(mid, d, dst, 1)
      /\ UNCHANGED <<partitions, route, move>> /\ Watch
  BY Zenon DEF Transfer, ValidateDebit, AccountExists
<1>2. /\ mid = [t \in Shards |-> mid[t]]
      /\ \A t \in Shards : DOMAIN mid[t] = DOMAIN ledger[t]
      /\ \A t \in Shards : \A b \in DOMAIN ledger[t] : t # s \/ b # src => mid[t][b] = ledger[t][b]
  <2>1. ledger = [t \in Shards |-> ledger[t]] BY DEF MoveTypeInv
  <2> QED BY ONLY <1>0, <1>1, <2>1, PostKeeps
<1>3. /\ ledger' = [t \in Shards |-> ledger'[t]]
      /\ \A t \in Shards : DOMAIN ledger'[t] = DOMAIN mid[t]
      /\ \A t \in Shards : \A b \in DOMAIN mid[t] : t # d \/ b # dst => ledger'[t][b] = mid[t][b]
  <2> HIDE DEF mid
  <2> QED BY ONLY <1>0, <1>1, <1>2, PostKeeps
<1>4. /\ \A t \in Shards : DOMAIN ledger'[t] = DOMAIN ledger[t]
      /\ \A t \in Shards : \A b \in DOMAIN ledger[t] \cap Accounts :
           t # route[GetPartition[b]] => ledger'[t][b] = ledger[t][b]
  <2> HIDE DEF mid
  <2> QED BY <1>2, <1>3
<1>5. MoveTypeInv' BY <1>1, <1>3, Zenon DEF MoveTypeInv
<1>6. FaultInv' /\ (Smooth' => Smooth) BY FaultType, Zenon DEF Transfer, MoveFaultKinds
<1>7. PastInv' BY <1>1, Watched, Zenon
<1>8. ASSUME OwnerInv, CopyInv PROVE OwnerInv' /\ CopyInv'
  <2>1. OwnerInv' BY <1>1, <1>8, Zenon DEF OwnerInv, Moving
  <2>2. ASSUME move.pc \in {"receive", "received"}
        PROVE  /\ move.from \in Shards /\ move.to \in Shards /\ move.to # route[move.part]
               /\ \A a \in DOMAIN move.snap : a \in Accounts /\ GetPartition[a] = move.part
    <3>1. Moving /\ IsMove(move) BY <2>2 DEF MoveTypeInv, NoMove, Moving
    <3>2. move.from \in Shards /\ move.to \in Shards BY <3>1 DEF IsMove
    <3>3. DOMAIN move.snap \subseteq Members(move.part) BY <1>8, <2>2 DEF CopyInv
    <3> QED BY <1>8, <3>1, <3>2, <3>3, Zenon DEF OwnerInv, Members
  <2>3. \A t \in Shards, p \in Partitions :
          (DOMAIN ledger[t] \cap Members(p) \subseteq DOMAIN ledger[route[p]])'
    BY <1>1, <1>4, <1>8, Zenon DEF CopyInv, MoveTypeInv, Members
  <2>4. ASSUME move.pc \in {"receive", "received"}
        PROVE  /\ DOMAIN ledger'[move.from] = DOMAIN ledger[move.from]
               /\ DOMAIN ledger'[move.to] = DOMAIN ledger[move.to]
               /\ \A a \in DOMAIN move.snap \ move.todo : ledger'[move.to][a] = ledger[move.to][a]
    <3>1. /\ move.from \in Shards /\ move.to \in Shards /\ move.to # route[move.part]
          /\ \A a \in DOMAIN move.snap : a \in Accounts /\ GetPartition[a] = move.part
      BY <2>2, <2>4
    <3>2. \A a \in DOMAIN move.snap \ move.todo : a \in DOMAIN ledger[move.to]
      BY <1>8, <2>4, Zenon DEF CopyInv
    <3>3. ASSUME NEW a \in DOMAIN move.snap \ move.todo PROVE ledger'[move.to][a] = ledger[move.to][a]
      <4>1. a \in DOMAIN ledger[move.to] \cap Accounts /\ move.to # route[GetPartition[a]] BY <3>1, <3>2
      <4> QED BY <4>1, <3>1, <1>4
    <3> QED BY <3>1, <3>3, <1>4, Zenon
  <2>5. CopyInv'
    <3>1. UNCHANGED move BY <1>1, Zenon
    <3>2. CASE move.pc \in {"receive", "received"}
      BY <1>8, <2>3, <2>4, <3>1, <3>2, Zenon DEF CopyInv, Members
    <3>3. CASE move.pc \notin {"receive", "received"} BY <2>3, <3>1, <3>3, Zenon DEF CopyInv
    <3> QED BY <3>2, <3>3
  <2> QED BY <2>1, <2>5
<1> QED BY <1>5, <1>6, <1>7, <1>8 DEF MoveInv

\* A crash is what the properties of owners and copies do not cover.
LEMMA CrashMoveInv ==
  ASSUME MoveInv, NEW s \in Shards, ShardCrash(s)
  PROVE  MoveInv'
<1> MoveTypeInv /\ FaultInv /\ PastInv BY DEF MoveInv
<1>1. MoveTypeInv' BY Zenon DEF ShardCrash, MoveTypeInv, Configured
<1>2. FaultInv' /\ ~Smooth' BY FaultType DEF ShardCrash, MoveFaultKinds
<1>3. PastInv' BY Watched DEF ShardCrash
<1> QED BY <1>1, <1>2, <1>3 DEF MoveInv

\* A move starts at the shard that is routed to.
LEMMA BeginIInv ==
  ASSUME MoveInv, NEW p \in Partitions, NEW to \in Shards, BeginMove(p, to)
  PROVE  MoveInv'
<1> MoveTypeInv /\ FaultInv BY DEF MoveInv
<1>1. /\ move' = [pc |-> "halt", part |-> p, from |-> route[p], to |-> to,
                  snap |-> NewLedger, todo |-> {}, sent |-> FALSE]
      /\ UNCHANGED <<ledger, partitions, route>> /\ to # route[p] /\ ~Moving
  BY Zenon DEF BeginMove, books
<1>2. /\ move'.pc = "halt" /\ move'.part = p /\ move'.from = route[p] /\ move'.to = to /\ ~move'.sent
      /\ IsMove(move')
  BY <1>1, Zenon DEF IsMove, Steps, MoveTypeInv
<1>3. MoveTypeInv' BY <1>1, <1>2 DEF MoveTypeInv
<1>4. FaultInv' /\ (Smooth' => Smooth) BY FaultType DEF BeginMove, MoveFaultKinds
<1>5. PastInv' BY <1>2 DEF PastInv, SnapshotWasHeld
<1>6. ASSUME OwnerInv, CopyInv PROVE OwnerInv' /\ CopyInv'
  BY <1>1, <1>2, <1>6, Zenon DEF OwnerInv, CopyInv, Moving
<1> QED BY <1>3, <1>4, <1>5, <1>6 DEF MoveInv

\* The end of a move that leaves books and routes alone.
LEMMA EndKeeps ==
  ASSUME MoveTypeInv, CopyInv, move' = NoMove, UNCHANGED <<ledger, route>>
  PROVE  CopyInv'
BY Zenon DEF CopyInv, NoMove

\* After the halt the source is not ACTIVE.
LEMMA HaltIInv ==
  ASSUME MoveInv, HaltPartition
  PROVE  MoveInv'
<1> MoveTypeInv /\ FaultInv BY DEF MoveInv
<1>0. IsMove(move) /\ move.pc = "halt" /\ UNCHANGED <<ledger, route>>
  BY DEF HaltPartition, MoveTypeInv, NoMove, books
<1>1. FaultInv' /\ (Smooth' => Smooth) BY NoFault DEF HaltPartition
<1>2. CASE partitions[move.from][move.part] # "ABSENT"
  <2>1. /\ partitions' = [partitions EXCEPT ![move.from][move.part] = "HALTED"]
        /\ move' = [move EXCEPT !.pc = "halted"] /\ Watch
    BY <1>2 DEF HaltPartition
  <2>2. /\ IsMove(move') /\ move'.pc = "halted" /\ move'.part = move.part /\ move'.from = move.from
        /\ move'.to = move.to /\ move'.sent = move.sent
    BY <1>0, <2>1 DEF IsMove, Steps
  <2>3. move.from \in Shards /\ move.part \in Partitions BY <1>0 DEF IsMove
  <2>4. /\ partitions'[move.from][move.part] = "HALTED"
        /\ \A s \in Shards, p \in Partitions :
             s # move.from \/ p # move.part => partitions'[s][p] = partitions[s][p]
        /\ partitions' \in [Shards -> [Partitions -> {"ACTIVE", "HALTED", "ABSENT"}]]
    BY <2>1, <2>3 DEF MoveTypeInv
  <2>5. MoveTypeInv' BY <1>0, <2>2, <2>4 DEF MoveTypeInv
  <2>6. PastInv' BY <2>1, <2>2 DEF Watch, PastInv, SnapshotWasHeld, Part
  <2>7. ASSUME OwnerInv, CopyInv PROVE OwnerInv' /\ CopyInv'
    <3>1. Moving /\ Moving' BY <1>0, <2>2 DEF Moving
    <3>r. route' = route /\ route \in [Partitions -> Shards] BY <1>0, Zenon DEF MoveTypeInv
    <3>2. OwnerInv'
      <4>1. \A p \in Partitions : partitions'[route'[p]][p] # "ABSENT"
        BY ONLY <3>r, <2>3, <2>4, <2>7 DEF OwnerInv
      <4>2. \A p \in Partitions, s \in Shards : partitions'[s][p] = "ACTIVE" => partitions[s][p] = "ACTIVE"
        BY ONLY <2>3, <2>4
      <4>3. \A p \in Partitions, s \in Shards : partitions'[s][p] = "ACTIVE" =>
              s = route'[p] \/ (Moving' /\ move'.sent /\ p = move'.part /\ s = move'.to)
        BY ONLY <3>r, <4>2, <2>2, <2>7, <3>1 DEF OwnerInv
      <4>4. /\ move'.from = route'[move'.part] /\ move'.to # move'.from
            /\ partitions'[move'.from][move'.part] # "ACTIVE"
            /\ move'.pc = "halted"
        BY ONLY <3>r, <2>2, <2>3, <2>4, <2>7, <3>1 DEF OwnerInv
      <4> QED BY ONLY <4>1, <4>3, <4>4 DEF OwnerInv
    <3>3. CopyInv' BY <1>0, <2>2, <2>7, Zenon DEF CopyInv
    <3> QED BY <3>2, <3>3
  <2> QED BY <1>1, <2>5, <2>6, <2>7 DEF MoveInv
<1>3. CASE partitions[move.from][move.part] = "ABSENT"
  <2>1. move' = NoMove /\ UNCHANGED partitions BY <1>3 DEF HaltPartition
  <2>2. MoveTypeInv' BY <1>0, <2>1 DEF MoveTypeInv
  <2>3. PastInv' BY <2>1 DEF PastInv, SnapshotWasHeld, NoMove
  <2>4. ~Smooth BY <1>0, <1>3 DEF MoveInv, OwnerInv, Moving, IsMove
  <2> QED BY <1>1, <2>2, <2>3, <2>4 DEF MoveInv
<1> QED BY <1>2, <1>3

\* The snapshot is what the source holds in the step that takes it.
LEMMA SnapshotIInv ==
  ASSUME MoveInv, Snapshot
  PROVE  MoveInv'
<1> MoveTypeInv /\ FaultInv /\ PastInv BY DEF MoveInv
<1> DEFINE snap == Part(ledger[move.from], move.part)
<1>0. /\ IsMove(move) /\ move.pc = "halted" /\ UNCHANGED <<ledger, partitions, route, past>>
      /\ move' = [move EXCEPT !.pc = "receive", !.snap = snap, !.todo = DOMAIN snap, !.sent = TRUE]
  BY DEF Snapshot, MoveTypeInv, NoMove, books
<1>1. FaultInv' /\ (Smooth' => Smooth) BY NoFault DEF Snapshot
<1>2. /\ IsMove(move') /\ move'.pc = "receive" /\ move'.part = move.part /\ move'.from = move.from
      /\ move'.to = move.to /\ move'.sent /\ move'.snap = snap /\ move'.todo = DOMAIN snap
  <2> HIDE DEF snap
  <2> QED BY <1>0, Zenon DEF IsMove, Steps
<1>3. MoveTypeInv' BY <1>0, <1>2 DEF MoveTypeInv
<1>4. PastInv' BY <1>0, <1>2 DEF PastInv, SnapshotWasHeld
<1>5. ASSUME OwnerInv, CopyInv PROVE OwnerInv' /\ CopyInv'
  <2>1. Moving /\ Moving' BY <1>0, <1>2 DEF Moving
  <2>2. OwnerInv'
    <3> HIDE DEF snap
    <3> QED BY <1>0, <1>2, <1>5, <2>1 DEF OwnerInv
  <2>3. snap = [a \in DOMAIN snap |-> snap[a]] /\ DOMAIN snap = DOMAIN ledger[move.from] \cap Members(move.part)
    BY DEF Part
  <2>4. CopyInv'
    <3> HIDE DEF snap
    <3> QED BY <1>0, <1>2, <1>5, <2>3 DEF CopyInv
  <2> QED BY <2>2, <2>4
<1> QED BY <1>1, <1>3, <1>4, <1>5 DEF MoveInv

\* Giving up before anything was sent leaves the source as the only owner.
LEMMA GiveUpIInv ==
  ASSUME MoveInv, GiveUp
  PROVE  MoveInv'
<1> MoveTypeInv /\ FaultInv BY DEF MoveInv
<1>0. /\ IsMove(move) /\ move.pc = "halted" /\ ~move.sent /\ move' = NoMove /\ UNCHANGED <<ledger, route>>
      /\ partitions' = [partitions EXCEPT ![move.from][move.part] = IF @ = "ABSENT" THEN @ ELSE "ACTIVE"]
  BY DEF GiveUp, MoveTypeInv, NoMove, books
<1>1. FaultInv' /\ (Smooth' => Smooth) BY NoFault DEF GiveUp
<1>2. move.from \in Shards /\ move.part \in Partitions BY <1>0 DEF IsMove
<1>3. /\ partitions[move.from][move.part] # "ABSENT" => partitions'[move.from][move.part] = "ACTIVE"
      /\ \A s \in Shards, p \in Partitions :
           s # move.from \/ p # move.part => partitions'[s][p] = partitions[s][p]
      /\ partitions' \in [Shards -> [Partitions -> {"ACTIVE", "HALTED", "ABSENT"}]]
  BY <1>0, <1>2 DEF MoveTypeInv
<1>4. MoveTypeInv' BY <1>0, <1>3, Zenon DEF MoveTypeInv
<1>5. PastInv' BY <1>0 DEF PastInv, SnapshotWasHeld, NoMove
<1>6. ASSUME OwnerInv, CopyInv PROVE OwnerInv' /\ CopyInv'
  <2>1. Moving /\ ~Moving' BY <1>0 DEF Moving, NoMove
  <2>2. OwnerInv'
    <3>1. move.from = route[move.part] BY <1>6, <2>1 DEF OwnerInv
    <3>2. \A p \in Partitions, s \in Shards : partitions[s][p] = "ACTIVE" => s = route[p]
      BY <1>0, <1>6 DEF OwnerInv
    <3>3. \A p \in Partitions, s \in Shards : partitions'[s][p] = "ACTIVE" => s = route[p]
      BY <1>3, <3>1, <3>2, Zenon
    <3>4. \A p \in Partitions : route[p] \in Shards /\ partitions[route[p]][p] # "ABSENT"
      BY <1>6 DEF OwnerInv, MoveTypeInv
    <3>5. \A p \in Partitions : partitions'[route[p]][p] # "ABSENT"
      <4> SUFFICES ASSUME NEW p \in Partitions PROVE partitions'[route[p]][p] # "ABSENT" OBVIOUS
      <4>1. CASE p = move.part BY <4>1, <1>3, <3>1, <3>4, Zenon
      <4>2. CASE p # move.part BY <4>2, <1>3, <3>4
      <4> QED BY <4>1, <4>2
    <3> QED BY <1>0, <2>1, <3>3, <3>5, Zenon DEF OwnerInv
  <2> QED BY <1>0, <1>6, <2>2, EndKeeps
<1> QED BY <1>1, <1>4, <1>5, <1>6 DEF MoveInv

\* A received balance is that of the snapshot, for an account that the source
\* has.
LEMMA ReceiveMoveInv ==
  ASSUME MoveInv, NEW a \in Accounts, ReceiveBalance(a)
  PROVE  MoveInv'
<1> MoveTypeInv /\ FaultInv /\ PastInv BY DEF MoveInv
<1>0. /\ IsMove(move) /\ move.pc = "receive" /\ a \in move.todo /\ UNCHANGED <<partitions, route, past>>
      /\ move' = [move EXCEPT !.todo = @ \ {a}]
      /\ ledger' = [ledger EXCEPT ![move.to] = SetBalance(@, a, move.snap[a])]
  BY DEF ReceiveBalance, MoveTypeInv, NoMove
<1>1. FaultInv' /\ (Smooth' => Smooth) BY NoFault DEF ReceiveBalance
<1>2. /\ IsMove(move') /\ move'.pc = "receive" /\ move'.part = move.part /\ move'.from = move.from
      /\ move'.to = move.to /\ move'.sent = move.sent /\ move'.snap = move.snap
      /\ move'.todo = move.todo \ {a}
  BY <1>0 DEF IsMove, Steps
<1>3. move.from \in Shards /\ move.to \in Shards /\ move.part \in Partitions BY <1>0 DEF IsMove
<1>4. /\ ledger' = [s \in Shards |-> ledger'[s]]
      /\ \A s \in Shards : s # move.to => ledger'[s] = ledger[s]
      /\ DOMAIN ledger'[move.to] = DOMAIN ledger[move.to] \cup {a}
      /\ ledger'[move.to][a] = move.snap[a]
      /\ \A b \in DOMAIN ledger[move.to] : b # a => ledger'[move.to][b] = ledger[move.to][b]
  BY <1>0, <1>3, Zenon DEF MoveTypeInv, SetBalance
<1>5. MoveTypeInv' BY <1>0, <1>2, <1>4 DEF MoveTypeInv
<1>6. PastInv' BY <1>0, <1>2 DEF PastInv, SnapshotWasHeld
<1>7. ASSUME OwnerInv, CopyInv PROVE OwnerInv' /\ CopyInv'
  <2>1. Moving /\ Moving' BY <1>0, <1>2 DEF Moving
  <2>2. OwnerInv' BY <1>0, <1>2, <1>7, <2>1 DEF OwnerInv
  <2>3. /\ move.from = route[move.part] /\ move.to # move.from
        /\ a \in DOMAIN ledger[move.from] /\ a \in Members(move.part)
    BY <1>0, <1>7, <2>1 DEF OwnerInv, CopyInv
  <2>4. ASSUME NEW s \in Shards, NEW p \in Partitions
        PROVE  DOMAIN ledger'[s] \cap Members(p) \subseteq DOMAIN ledger'[route[p]]
    <3>1. route[p] \in Shards /\ DOMAIN ledger[s] \cap Members(p) \subseteq DOMAIN ledger[route[p]]
      BY <1>7, Zenon DEF CopyInv, MoveTypeInv
    <3>2. DOMAIN ledger[route[p]] \subseteq DOMAIN ledger'[route[p]] BY <1>4, <3>1
    <3>3. a \in Members(p) => a \in DOMAIN ledger[route[p]] BY <2>3 DEF Members
    <3> QED BY <1>4, <3>1, <3>2, <3>3
  <2>5. /\ DOMAIN ledger'[move.from] = DOMAIN ledger[move.from]
        /\ \A b \in DOMAIN move.snap \ (move.todo \ {a}) :
             b \in DOMAIN ledger'[move.to] /\ ledger'[move.to][b] = move.snap[b]
    BY <1>0, <1>3, <1>4, <1>7, <2>3 DEF CopyInv
  <2>6. CopyInv'
    <3>1. (\A s \in Shards, p \in Partitions :
             DOMAIN ledger[s] \cap Members(p) \subseteq DOMAIN ledger[route[p]])'
      BY <1>0, <2>4 DEF Members
    <3> QED BY <1>0, <1>2, <1>7, <2>5, <3>1 DEF CopyInv, Members
  <2> QED BY <2>2, <2>6
<1> QED BY <1>1, <1>5, <1>6, <1>7 DEF MoveInv

\* The target owns the partition after the last balance.
LEMMA AddIInv ==
  ASSUME MoveInv, AddPartition
  PROVE  MoveInv'
<1> MoveTypeInv /\ FaultInv /\ PastInv BY DEF MoveInv
<1>0. /\ IsMove(move) /\ move.pc = "receive" /\ move.todo = {} /\ UNCHANGED <<ledger, route, past>>
      /\ partitions' = [partitions EXCEPT ![move.to][move.part] = "ACTIVE"]
      /\ move' = [move EXCEPT !.pc = "received"]
  BY DEF AddPartition, MoveTypeInv, NoMove, books
<1>1. FaultInv' /\ (Smooth' => Smooth) BY NoFault DEF AddPartition
<1>2. /\ IsMove(move') /\ move'.pc = "received" /\ move'.part = move.part /\ move'.from = move.from
      /\ move'.to = move.to /\ move'.sent = move.sent /\ move'.snap = move.snap /\ move'.todo = move.todo
  BY <1>0 DEF IsMove, Steps
<1>3. move.from \in Shards /\ move.to \in Shards /\ move.part \in Partitions BY <1>0 DEF IsMove
<1>4. /\ partitions'[move.to][move.part] = "ACTIVE"
      /\ \A s \in Shards, p \in Partitions :
           s # move.to \/ p # move.part => partitions'[s][p] = partitions[s][p]
      /\ partitions' \in [Shards -> [Partitions -> {"ACTIVE", "HALTED", "ABSENT"}]]
  BY <1>0, <1>3 DEF MoveTypeInv
<1>5. MoveTypeInv' BY <1>0, <1>2, <1>4 DEF MoveTypeInv
<1>6. PastInv' BY <1>0, <1>2 DEF PastInv, SnapshotWasHeld
<1>7. ASSUME OwnerInv, CopyInv PROVE OwnerInv' /\ CopyInv'
  <2>1. Moving /\ Moving' BY <1>0, <1>2 DEF Moving
  <2>2. OwnerInv' BY <1>0, <1>2, <1>3, <1>4, <1>7, <2>1 DEF OwnerInv, MoveTypeInv
  <2>3. CopyInv' BY <1>0, <1>2, <1>7 DEF CopyInv
  <2> QED BY <2>2, <2>3
<1> QED BY <1>1, <1>5, <1>6, <1>7 DEF MoveInv

\* A repeated receive or a move started over keeps what was sent on record.
LEMMA RetryIInv ==
  ASSUME MoveInv, Retry
  PROVE  MoveInv'
<1> MoveTypeInv /\ FaultInv /\ PastInv BY DEF MoveInv
<1>0. IsMove(move) /\ move.pc = "received" /\ UNCHANGED <<ledger, partitions, route>> /\ Watch
  BY DEF Retry, MoveTypeInv, NoMove, books
<1>1. FaultInv' /\ (Smooth' => Smooth) BY FaultType DEF Retry, MoveFaultKinds
<1>2. /\ IsMove(move') /\ move'.part = move.part /\ move'.from = move.from
      /\ move'.to = move.to /\ move'.sent = move.sent /\ move'.snap = move.snap
      /\ move'.pc = "halt" \/ (move'.pc = "receive" /\ move'.todo = DOMAIN move.snap)
  BY <1>0, Zenon DEF Retry, IsMove, Steps
<1>3. MoveTypeInv' BY <1>0, <1>2 DEF MoveTypeInv
<1>4. PastInv' BY <1>0, <1>2 DEF PastInv, SnapshotWasHeld, Watch
<1>5. ASSUME OwnerInv, CopyInv PROVE OwnerInv' /\ CopyInv'
  <2>1. Moving /\ Moving' BY <1>0, <1>2 DEF Moving
  <2>2. OwnerInv' BY <1>0, <1>2, <1>5, <2>1, Zenon DEF OwnerInv
  <2>3. CopyInv' BY <1>0, <1>2, <1>5, Zenon DEF CopyInv
  <2> QED BY <2>2, <2>3
<1> QED BY <1>1, <1>3, <1>4, <1>5 DEF MoveInv

\* The resume makes the target, which has every account of the partition, the
\* shard that is routed to.
LEMMA ResumeIInv ==
  ASSUME MoveInv, ResumePartition
  PROVE  MoveInv'
<1> MoveTypeInv /\ FaultInv BY DEF MoveInv
<1>0. IsMove(move) /\ move.pc = "received" /\ move' = NoMove /\ UNCHANGED ledger
  BY DEF ResumePartition, MoveTypeInv, NoMove, books
<1>1. FaultInv' /\ (Smooth' => Smooth) BY NoFault DEF ResumePartition
<1>2. PastInv' BY <1>0 DEF PastInv, SnapshotWasHeld, NoMove
<1>3. move.from \in Shards /\ move.to \in Shards /\ move.part \in Partitions BY <1>0 DEF IsMove
<1>4. CASE partitions[move.to][move.part] = "ABSENT"
  <2>1. UNCHANGED <<partitions, route>> BY <1>4 DEF ResumePartition
  <2>2. MoveTypeInv' BY <1>0, <2>1 DEF MoveTypeInv
  <2>3. ~Smooth BY <1>0, <1>4 DEF MoveInv, OwnerInv, Moving
  <2> QED BY <1>1, <1>2, <2>2, <2>3 DEF MoveInv
<1>5. CASE partitions[move.to][move.part] # "ABSENT"
  <2>1. /\ partitions' = [partitions EXCEPT ![move.to][move.part] = "ACTIVE"]
        /\ route' = [route EXCEPT ![move.part] = move.to]
    BY <1>5 DEF ResumePartition
  <2>2. /\ partitions'[move.to][move.part] = "ACTIVE"
        /\ \A s \in Shards, p \in Partitions :
             s # move.to \/ p # move.part => partitions'[s][p] = partitions[s][p]
        /\ partitions' \in [Shards -> [Partitions -> {"ACTIVE", "HALTED", "ABSENT"}]]
    BY <1>3, <2>1 DEF MoveTypeInv
  <2>3. /\ route' \in [Partitions -> Shards] /\ route'[move.part] = move.to
        /\ \A p \in Partitions : p # move.part => route'[p] = route[p]
    BY <1>3, <2>1 DEF MoveTypeInv
  <2>4. MoveTypeInv' BY <1>0, <2>2, <2>3 DEF MoveTypeInv
  <2>5. ASSUME OwnerInv, CopyInv PROVE OwnerInv' /\ CopyInv'
    <3>1. Moving /\ ~Moving' /\ move'.pc = "none" BY <1>0 DEF Moving, NoMove
    <3>2. OwnerInv'
      <4>1. \A p \in Partitions : partitions'[route'[p]][p] # "ABSENT"
        BY <1>3, <2>2, <2>3, <2>5 DEF OwnerInv, MoveTypeInv
      <4>2. ASSUME NEW p \in Partitions, NEW s \in Shards, partitions'[s][p] = "ACTIVE"
            PROVE  s = route'[p]
        <5>1. CASE p = move.part
          <6>1. /\ move.from = route[move.part] /\ move.from \in Shards
                /\ partitions[move.from][move.part] # "ACTIVE"
            BY <1>0, <1>3, <2>5, <3>1, Zenon DEF OwnerInv
          <6>2. ASSUME s # move.to PROVE FALSE
            <7>1. partitions[s][move.part] = "ACTIVE" BY <2>2, <4>2, <5>1, <6>2, Zenon
            <7> QED BY <1>3, <2>5, <6>1, <6>2, <7>1, Zenon DEF OwnerInv
          <6> QED BY <2>3, <5>1, <6>2
        <5>2. CASE p # move.part BY ONLY <2>2, <2>3, <2>5, <4>2, <5>2 DEF OwnerInv
        <5> QED BY <5>1, <5>2
      <4> QED BY <3>1, <4>1, <4>2 DEF OwnerInv
    <3>3. ASSUME NEW s \in Shards, NEW p \in Partitions
          PROVE  DOMAIN ledger[s] \cap Members(p) \subseteq DOMAIN ledger[route'[p]]
      <4>1. DOMAIN ledger[s] \cap Members(p) \subseteq DOMAIN ledger[route[p]] BY <2>5 DEF CopyInv
      <4>2. DOMAIN ledger[move.from] \cap Members(move.part) \subseteq DOMAIN ledger[move.to]
        BY <1>0, <2>5, Zenon DEF CopyInv
      <4>3. move.from = route[move.part] BY <2>5, <3>1, Zenon DEF OwnerInv
      <4> QED BY <2>3, <4>1, <4>2, <4>3, Zenon
    <3>4. CopyInv' BY <1>0, <3>1, <3>3 DEF CopyInv, Members
    <3> QED BY <3>2, <3>4
  <2> QED BY <1>1, <1>2, <2>4, <2>5 DEF MoveInv
<1> QED BY <1>4, <1>5

\* Every action keeps the invariant.
LEMMA NextMoveInv == MoveInv /\ [MoveNext]_moveVars => MoveInv'
<1> SUFFICES ASSUME MoveInv, [MoveNext]_moveVars PROVE MoveInv' OBVIOUS
<1>1. CASE Settled \/ UNCHANGED moveVars
  <2>1. UNCHANGED <<ledger, partitions, route, move, past, events>> BY <1>1 DEF Settled, moveVars, books
  <2>2. MoveTypeInv' /\ PastInv' BY <2>1 DEF MoveInv, MoveTypeInv, PastInv, SnapshotWasHeld, Part
  <2>3. FaultInv' /\ (Smooth' => Smooth) BY <2>1, NoFault DEF MoveInv
  <2>4. ASSUME OwnerInv, CopyInv PROVE OwnerInv' /\ CopyInv'
    BY <2>1, <2>4, Zenon DEF OwnerInv, CopyInv, Moving
  <2> QED BY <2>2, <2>3, <2>4 DEF MoveInv
<1> QED
  BY <1>1, TransferIInv, CrashMoveInv, BeginIInv, HaltIInv, SnapshotIInv, GiveUpIInv, ReceiveMoveInv,
     AddIInv, RetryIInv, ResumeIInv DEF MoveNext

\* The invariant holds in every reachable state.
LEMMA MoveInvHolds == MoveSpec => []MoveInv
BY InitMoveInv, NextMoveInv, PTL DEF MoveSpec

-----------------------------------------------------------------------------
\* Through transfers, crashes and retries, what is sent on is a state that the
\* partition was in after the halt.
THEOREM SnapshotWasHeldHolds == MoveSpec => []SnapshotWasHeld
<1>1. MoveInv => SnapshotWasHeld BY DEF MoveInv, PastInv
<1> QED BY <1>1, MoveInvHolds, PTL

\* Without a crash, a shard that has answered a receive holds the snapshot and
\* nothing else of the partition.
THEOREM TargetHoldsSnapshotHolds == MoveSpec => []TargetHoldsSnapshot
<1>1. MoveInv => TargetHoldsSnapshot
  <2> SUFFICES ASSUME MoveInv, move.pc = "received", Smooth
               PROVE  Part(ledger[move.to], move.part) = move.snap
    BY Zenon DEF TargetHoldsSnapshot, Smooth
  <2> OwnerInv /\ CopyInv /\ MoveTypeInv BY DEF MoveInv
  <2>1. /\ IsMove(move) /\ Moving BY DEF MoveTypeInv, NoMove, Moving
  <2>2. /\ move.to \in Shards /\ move.part \in Partitions /\ move.from = route[move.part]
    BY <2>1 DEF IsMove, OwnerInv
  <2>3. /\ move.snap = [a \in DOMAIN move.snap |-> move.snap[a]]
        /\ DOMAIN move.snap = DOMAIN ledger[move.from] \cap Members(move.part)
        /\ \A a \in DOMAIN move.snap : a \in DOMAIN ledger[move.to] /\ ledger[move.to][a] = move.snap[a]
    BY Zenon DEF CopyInv
  <2>4. DOMAIN ledger[move.to] \cap Members(move.part) \subseteq DOMAIN ledger[move.from]
    BY <2>2, Zenon DEF CopyInv
  <2>5. DOMAIN ledger[move.to] \cap Members(move.part) = DOMAIN move.snap BY <2>3, <2>4
  <2> QED BY <2>3, <2>5, Zenon DEF Part
<1> QED BY <1>1, MoveInvHolds, PTL

\* Without a crash, no partition is ever ACTIVE on two shards.
THEOREM OneActiveOwnerHolds == MoveSpec => []OneActiveOwner
<1>1. MoveInv => OneActiveOwner
  <2> SUFFICES ASSUME MoveInv, Smooth, NEW p \in Partitions
               PROVE  Cardinality({s \in Shards : partitions[s][p] = "ACTIVE"}) <= 1
    BY DEF OneActiveOwner, Smooth
  <2> DEFINE A == {s \in Shards : partitions[s][p] = "ACTIVE"}
  <2>1. \A s, t \in A : s = t
    <3>1. OwnerInv BY DEF MoveInv
    <3>2. CASE Moving /\ move.sent /\ p = move.part BY <3>1, <3>2, Zenon DEF OwnerInv
    <3>3. CASE ~(Moving /\ move.sent /\ p = move.part) BY <3>1, <3>3 DEF OwnerInv
    <3> QED BY <3>2, <3>3
  <2>2. A = {} \/ \E s : A = {s} BY <2>1, Zenon
  <2> HIDE DEF A
  <2>3. Cardinality(A) = 0 \/ Cardinality(A) = 1 BY <2>2, FS_EmptySet, FS_Singleton, Zenon
  <2>4. Cardinality(A) <= 1 BY <2>3
  <2> QED BY <2>4 DEF A
<1> QED BY <1>1, MoveInvHolds, PTL
=============================================================================
