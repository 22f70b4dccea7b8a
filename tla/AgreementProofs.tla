-------------------------- MODULE AgreementProofs --------------------------
(***************************************************************************)
(* The logs agree: the proof that TwoPC keeps Agreement and                *)
(* PreparedBeforeCommit when no transfer is submitted twice.  Neither is   *)
(* inductive.  A verdict in a log has to be traced back to the call that   *)
(* wrote it, the call to the coordinator's decision, and the decision to   *)
(* the votes; ProtocolInv spells out that chain.                           *)
(***************************************************************************)
EXTENDS TwoPCProofs

-----------------------------------------------------------------------------
\* A handler step logs at most one entry, of its own transaction, and a
\* verdict only at the step that writes one.
LEMMA HandlerLogs ==
  ASSUME TypeInv, NEW c \in calls, LogEffect(c), NEW s \in Shards, NEW t, NEW op
  PROVE  /\ Logged(wal[s], op, t) => Logged(wal'[s], op, t)
         /\ Logged(wal'[s], op, t) =>
              \/ Logged(wal[s], op, t)
              \/ /\ t = Txn(c)
                 /\ op = "COMMITTED" => c.pc = "logCommitted"
                 /\ op = "ABORTED" => c.pc \in {"logAborted", "markAborted"}
<1>1. CASE wal' = wal BY <1>1
<1>2. CASE wal' # wal
  <2>1. PICK e \in WALEntries :
          /\ e.txn = Txn(c)
          /\ wal' = [wal EXCEPT ![c.shard] = Append(@, e)]
          /\ e.op = "COMMITTED" => c.pc = "logCommitted"
          /\ e.op = "ABORTED" => c.pc \in {"logAborted", "markAborted"}
    BY <1>2 DEF LogEffect
  <2>2. wal \in [Shards -> Seq(WALEntries)] BY DEF TypeInv, TypeOK, ShardTypeOK
  <2>3. CASE s = c.shard
    <3>1. wal'[s] = Append(wal[s], e) BY <2>1, <2>2, <2>3
    <3>2. Logged(wal'[s], op, t) <=> Logged(wal[s], op, t) \/ (e.op = op /\ e.txn = t)
      BY <3>1, <2>2, LoggedAppend
    <3> QED BY <3>2, <2>1
  <2>4. CASE s # c.shard
    <3>1. wal'[s] = wal[s] BY <2>1, <2>2, <2>4
    <3> QED BY <3>1
  <2> QED BY <2>3, <2>4
<1> QED BY <1>1, <1>2

\* The chain holds at the start: the logs hold only initial accounts.
LEMMA ProtocolInvInit == Init => ProtocolInv
<1> SUFFICES ASSUME Init PROVE ProtocolInv OBVIOUS
<1>1. \A x \in Submissions, s \in Shards : \A op : ~Logged(wal[s], op, TxnOf[x])
  BY SubmissionTxn, InitialLogAssumption, ConstantsAssumption DEF Init, ShardInit, Logged
<1>2. \A x \in Submissions, s \in Shards : seen[s][TxnOf[x]] \notin {"COMMITTED", "PREPARED"}
  <2> TAKE x \in Submissions, s \in Shards
  <2>1. seen[s][TxnOf[x]] = RecoveredState(wal[s], TxnOf[x])
    BY SubmissionTxn DEF Init, ShardInit
  <2> QED BY <2>1, <1>1, RecoveredStates
<1> QED BY <1>1, <1>2, Zenon DEF Init, ShardInit, ProtocolInv, PhaseInv, CallInv, ExecuteInv,
                                 VerdictInv, VoteInv, Committed, Aborted, Prepared

-----------------------------------------------------------------------------
(***************************************************************************)
(* Steps of the shards.                                                    *)
(***************************************************************************)

\* A handler step keeps the chain.
LEMMA HandlerProtocolInv ==
  ASSUME SingleSubmission, TypeInv, ProtocolInv,
         NEW c \in calls, Handle(c) \/ Network(c), UNCHANGED coordVars
  PROVE  ProtocolInv'
<1>1. PICK l \in RunningAt \cup Answers, v \in TxnStates : HandlerEffect(c, l, v)
  BY HandlerStep
<1>2. /\ c \in Calls /\ c.sub \in Submissions /\ c.shard \in Shards
      /\ Txn(c) = TxnOf[c.sub] /\ Txn(c) \in TxnIDs
  BY CallFacts DEF TypeInv, Txn
<1>w. WellFormed(c) /\ c.shard = ShardOf(c.sub, c.op) /\ (c.kind # "EXECUTE" => c.op \in Sides)
  BY <1>2 DEF TypeInv, WellFormed, Calls, Sides
<1> DEFINE nc == [c EXCEPT !.pc = l]
<1>3. /\ nc.pc = l /\ nc.sub = c.sub /\ nc.kind = c.kind /\ nc.op = c.op
      /\ nc.shard = c.shard /\ nc.live = c.live
  BY <1>2 DEF Calls
<1>4. /\ calls' \subseteq (calls \ {c}) \cup {nc}
      /\ calls \ {c} \subseteq calls'
      /\ c.live => nc \in calls'
  BY <1>1 DEF HandlerEffect, MovesTo
<1> HIDE DEF nc
<1>5. \A s \in Shards, x \in Submissions :
        /\ Committed(s, x) => Committed(s, x)'
        /\ Aborted(s, x) => Aborted(s, x)'
        /\ Prepared(s, x) => Prepared(s, x)'
        /\ Committed(s, x)' => Committed(s, x) \/ (x = c.sub /\ c.pc = "logCommitted")
        /\ Aborted(s, x)' => Aborted(s, x) \/ (x = c.sub /\ c.pc \in {"logAborted", "markAborted"})
  <2> TAKE s \in Shards, x \in Submissions
  <2>1. LogEffect(c) BY <1>1 DEF HandlerEffect
  <2>2. TxnOf[x] = Txn(c) => x = c.sub BY <1>2 DEF SingleSubmission
  <2> QED BY <2>1, <2>2, HandlerLogs DEF Committed, Aborted, Prepared
<1>6. \A s \in Shards, x \in Submissions :
        \/ seen'[s][TxnOf[x]] = seen[s][TxnOf[x]]
        \/ x = c.sub /\ s = c.shard /\ seen'[s][TxnOf[x]] = v
  <2> TAKE s \in Shards, x \in Submissions
  <2>1. TxnOf[x] \in TxnIDs /\ (TxnOf[x] = Txn(c) => x = c.sub)
    BY <1>2, SubmissionTxn DEF SingleSubmission
  <2>2. seen' = [seen EXCEPT ![c.shard][Txn(c)] = v] BY <1>1 DEF HandlerEffect
  <2> QED BY <2>1, <2>2, <1>2 DEF TypeInv, TypeOK, ShardTypeOK
<1>7. UNCHANGED <<phase, decision, leg>> BY DEF coordVars
<1>8. c.pc \in {"sent"} \cup RunningAt BY <1>1 DEF HandlerEffect
<1>9. \A x \in Submissions : Doomed(x) => Doomed(x)'
  <2>1. (c.kind = "PREPARE" /\ c.pc \in {"logAborted", "error"}) => l = "error"
    BY <1>1, <1>8 DEF HandlerEffect, RunningAt
  <2> QED BY <2>1, <1>3, <1>4, <1>7 DEF Doomed
<1>10. PhaseInv' BY <1>3, <1>4, <1>7 DEF ProtocolInv, PhaseInv
<1>11. CallInv' BY <1>3, <1>4, <1>7 DEF ProtocolInv, CallInv, Abandoned
<1>12. ExecuteInv'
  <2> SUFFICES ASSUME NEW x \in Submissions, ~Cross(x)
               PROVE  /\ (phase[x] = "new" \/ \E d \in calls' : d.sub = x /\ d.pc \in {"sent"} \cup RunningAt)
                          => \A s \in Shards : ~Committed(s, x)' /\ ~Aborted(s, x)'
                      /\ \A r, s \in Shards : ~(Committed(r, x)' /\ Aborted(s, x)')
    BY <1>7 DEF ExecuteInv, Cross, SourceShard, DestShard
  <2>1. CASE x = c.sub
    <3>1. \A s \in Shards : ~Committed(s, x) /\ ~Aborted(s, x)
      BY <2>1, <1>8 DEF ProtocolInv, ExecuteInv
    <3>2. phase[x] # "new" BY <2>1 DEF ProtocolInv, PhaseInv
    <3>3. \A d \in calls : d.sub = x => d = c
      BY <2>1, <1>2 DEF ProtocolInv, CallInv, TypeInv, WellFormed
    <3>4. c.pc \in {"logCommitted", "logAborted", "markAborted"} => l \notin {"sent"} \cup RunningAt
      BY <1>1 DEF HandlerEffect, RunningAt, Answers
    <3> QED BY <3>1, <3>2, <3>3, <3>4, <1>3, <1>4, <1>5
  <2>2. CASE x # c.sub
    <3>1. \A s \in Shards : (Committed(s, x)' => Committed(s, x)) /\ (Aborted(s, x)' => Aborted(s, x))
      BY <2>2, <1>5
    <3>2. \A d \in calls' : d.sub = x => d \in calls BY <2>2, <1>3, <1>4
    <3> QED BY <3>1, <3>2 DEF ProtocolInv, ExecuteInv
  <2> QED BY <2>1, <2>2
<1>13. VerdictInv'
  <2> SUFFICES ASSUME NEW x \in Submissions, Cross(x)
               PROVE  /\ \A s \in Shards :
                           /\ Committed(s, x)' => decision[x] = "COMMIT"
                           /\ seen'[s][TxnOf[x]] = "COMMITTED" => decision[x] = "COMMIT"
                           /\ Aborted(s, x)' => Doomed(x)'
                      /\ \A d \in calls' : (d.sub = x /\ d.kind = "PREPARE" /\ d.pc = "logAborted") => Doomed(x)'
    BY <1>7 DEF VerdictInv, Cross, SourceShard, DestShard
  <2>1. c.sub = x /\ c.pc = "logCommitted" => decision[x] = "COMMIT"
    BY <1>w DEF WellFormed, KindsAt, ProtocolInv, CallInv
  <2>2. c.sub = x /\ c.pc \in {"logAborted", "markAborted"} => Doomed(x)
    BY <1>w DEF WellFormed, KindsAt, ProtocolInv, CallInv, VerdictInv, Doomed
  <2>3. ASSUME NEW s \in Shards
        PROVE  /\ Committed(s, x)' => decision[x] = "COMMIT"
               /\ Aborted(s, x)' => Doomed(x)'
    BY <1>5, <1>9, <2>1, <2>2 DEF ProtocolInv, VerdictInv
  <2>4. ASSUME NEW s \in Shards, seen'[s][TxnOf[x]] = "COMMITTED" PROVE decision[x] = "COMMIT"
    <3>1. CASE seen[s][TxnOf[x]] = "COMMITTED" BY <3>1 DEF ProtocolInv, VerdictInv
    <3>2. CASE seen[s][TxnOf[x]] # "COMMITTED"
      <4>1. x = c.sub /\ s = c.shard /\ v = "COMMITTED" BY <3>2, <2>4, <1>6
      <4>2. State(c) # "COMMITTED" BY <4>1, <3>2, <1>2 DEF State
      <4>3. c.pc = "logCommitted" BY <4>1, <4>2, <1>1 DEF HandlerEffect
      <4> QED BY <4>1, <4>3, <2>1
    <3> QED BY <3>1, <3>2
  <2>5. ASSUME NEW d \in calls', d.sub = x, d.kind = "PREPARE", d.pc = "logAborted" PROVE Doomed(x)'
    <3>1. CASE d \in calls BY <3>1, <2>5, <1>9 DEF ProtocolInv, VerdictInv
    <3>2. CASE d = nc
      <4>1. c.sub = x /\ c.kind = "PREPARE" BY <3>2, <2>5, <1>3
      <4>2. CASE c.live
        <5>1. phase[x] = "preparing" BY <4>1, <4>2 DEF ProtocolInv, CallInv
        <5>2. nc \in calls' /\ nc.live BY <4>2, <1>3, <1>4
        <5> QED BY <5>1, <5>2, <3>2, <2>5, <1>7 DEF Doomed
      <4>3. CASE ~c.live
        <5>1. Abandoned(x, c.op) BY <4>1, <4>3 DEF ProtocolInv, CallInv
        <5>2. c.op \in Sides BY <4>1, <1>w
        <5> QED BY <5>1, <5>2, <1>7 DEF Abandoned, Doomed
      <4> QED BY <4>2, <4>3
    <3> QED BY <3>1, <3>2, <1>4
  <2> QED BY <2>3, <2>4, <2>5
<1>14. VoteInv'
  <2>1. ASSUME NEW x \in Submissions, NEW s \in Shards, seen'[s][TxnOf[x]] = "PREPARED"
        PROVE  Prepared(s, x)'
    <3>1. CASE seen[s][TxnOf[x]] = "PREPARED" BY <3>1, <1>5 DEF ProtocolInv, VoteInv
    <3>2. CASE seen[s][TxnOf[x]] # "PREPARED"
      <4>1. x = c.sub /\ s = c.shard /\ v = "PREPARED" BY <3>2, <2>1, <1>6
      <4>2. State(c) # "PREPARED" BY <4>1, <3>2, <1>2 DEF State
      <4> QED BY <4>1, <4>2, <1>1, <1>2 DEF HandlerEffect, Prepared
    <3> QED BY <3>1, <3>2
  <2>2. ASSUME NEW x \in Submissions, NEW op \in Sides,
               decision[x] = "COMMIT" \/ (phase[x] = "preparing" /\ leg[x][op] = "prepared")
        PROVE  Prepared(ShardOf(x, op), x)'
    <3>1. ShardOf(x, op) \in Shards BY SubmissionTxn, ConstantsAssumption DEF ShardOf, SourceShard, DestShard
    <3> QED BY <3>1, <2>2, <1>5 DEF ProtocolInv, VoteInv
  <2>3. ASSUME NEW d \in calls', d.kind = "PREPARE", d.pc = "ok" PROVE Prepared(d.shard, d.sub)'
    <3>1. CASE d \in calls
      <4>1. d.sub \in Submissions /\ d.shard \in Shards BY <3>1, CallFacts DEF TypeInv
      <4> QED BY <3>1, <4>1, <2>3, <1>5 DEF ProtocolInv, VoteInv
    <3>2. CASE d = nc
      <4>1. c.kind = "PREPARE" /\ l = "ok" /\ d.sub = c.sub /\ d.shard = c.shard
        BY <3>2, <2>3, <1>3
      <4>2. State(c) \in {"PREPARED", "COMMITTED"} \/ Prepared(c.shard, c.sub)'
        BY <4>1, <1>1, <1>2 DEF HandlerEffect, Prepared
      <4>3. State(c) = "PREPARED" => Prepared(c.shard, c.sub)
        BY <1>2, Zenon DEF State, ProtocolInv, VoteInv
      <4>4. State(c) = "COMMITTED" => Prepared(c.shard, c.sub)
        <5>1. Cross(c.sub) /\ c.op \in Sides BY <4>1, <1>w DEF WellFormed
        <5>2. State(c) = "COMMITTED" => decision[c.sub] = "COMMIT"
          BY <5>1, <1>2 DEF State, ProtocolInv, VerdictInv
        <5> QED BY <5>1, <5>2, <1>2, <1>w, Zenon DEF ProtocolInv, VoteInv
      <4> QED BY <4>1, <4>2, <4>3, <4>4, <1>2, <1>5
    <3> QED BY <3>1, <3>2, <1>4
  <2> QED BY <2>1, <2>2, <2>3, <1>7 DEF VoteInv, ShardOf, SourceShard, DestShard
<1> QED BY <1>10, <1>11, <1>12, <1>13, <1>14 DEF ProtocolInv

\* A step that leaves the logs, seenTxns and the coordinators alone as far
\* as transfers go keeps the part of the chain that is about them.
LEMMA QuietProtocolInv ==
  ASSUME ProtocolInv, UNCHANGED <<phase, decision, leg, calls>>,
         \A s \in Shards, x \in Submissions :
           /\ Committed(s, x)' <=> Committed(s, x)
           /\ Aborted(s, x)' <=> Aborted(s, x)
           /\ Prepared(s, x)' <=> Prepared(s, x)
           /\ seen'[s][TxnOf[x]] \in {"COMMITTED", "PREPARED"} =>
                \/ seen'[s][TxnOf[x]] = seen[s][TxnOf[x]]
                \/ seen'[s][TxnOf[x]] = "COMMITTED" /\ Committed(s, x)
                \/ seen'[s][TxnOf[x]] = "PREPARED" /\ Prepared(s, x),
         \A c \in calls : c.sub \in Submissions /\ c.shard \in Shards
  PROVE  ProtocolInv'
<1>1. \A x : Doomed(x)' <=> Doomed(x) BY DEF Doomed
<1>2. \A x : Cross(x)' <=> Cross(x) BY DEF Cross, SourceShard, DestShard
<1>3. PhaseInv' BY Zenon DEF ProtocolInv, PhaseInv
<1>4. CallInv' BY Zenon DEF ProtocolInv, CallInv, Abandoned
<1>5. ExecuteInv' BY <1>2, Zenon DEF ProtocolInv, ExecuteInv
<1>6. VerdictInv' BY <1>1, <1>2, Zenon DEF ProtocolInv, VerdictInv
<1>7. VoteInv'
  <2>1. \A x \in Submissions : \A op \in Sides : ShardOf(x, op) \in Shards
    BY SubmissionTxn, ConstantsAssumption, Zenon DEF ShardOf, SourceShard, DestShard
  <2>2. \A x, op : ShardOf(x, op)' = ShardOf(x, op) BY Zenon DEF ShardOf, SourceShard, DestShard
  <2> QED BY <2>1, <2>2, Zenon DEF ProtocolInv, VoteInv
<1> QED BY <1>3, <1>4, <1>5, <1>6, <1>7 DEF ProtocolInv

\* An account creation keeps the chain.
LEMMA CreateProtocolInv ==
  ASSUME TypeInv, ProtocolInv, Create, UNCHANGED coordVars
  PROVE  ProtocolInv'
<1>1. CreateEffect BY CreateStep
<1>2. ASSUME NEW s \in Shards, NEW x \in Submissions
      PROVE  /\ Committed(s, x)' <=> Committed(s, x)
             /\ Aborted(s, x)' <=> Aborted(s, x)
             /\ Prepared(s, x)' <=> Prepared(s, x)
             /\ seen'[s][TxnOf[x]] = seen[s][TxnOf[x]]
  <2>1. TxnOf[x] \in Transfers BY SubmissionTxn
  <2>2. \A op : Logged(wal'[s], op, TxnOf[x]) <=> Logged(wal[s], op, TxnOf[x])
    BY <2>1, <1>1, CreateLogs
  <2>3. seen'[s][TxnOf[x]] = seen[s][TxnOf[x]] BY <2>1, <1>1 DEF CreateEffect
  <2> QED BY <2>2, <2>3 DEF Committed, Aborted, Prepared
<1>3. UNCHANGED <<phase, decision, leg, calls>> BY <1>1 DEF coordVars, CreateEffect
<1>4. \A c \in calls : c.sub \in Submissions /\ c.shard \in Shards BY CallFacts DEF TypeInv
<1> QED BY <1>2, <1>3, <1>4, QuietProtocolInv, Zenon

\* A restart keeps the chain: what recovery puts back into seenTxns is what
\* the log says.
LEMMA RestartProtocolInv ==
  ASSUME TypeInv, ProtocolInv, NEW r \in Shards, Restart(r), UNCHANGED coordVars
  PROVE  ProtocolInv'
<1>1. UNCHANGED <<phase, decision, leg, calls, wal>> BY DEF coordVars, Restart
<1>2. ASSUME NEW s \in Shards, NEW x \in Submissions
      PROVE  /\ Committed(s, x)' <=> Committed(s, x)
             /\ Aborted(s, x)' <=> Aborted(s, x)
             /\ Prepared(s, x)' <=> Prepared(s, x)
  BY <1>1 DEF Committed, Aborted, Prepared
<1>3. ASSUME NEW s \in Shards, NEW x \in Submissions,
             seen'[s][TxnOf[x]] \in {"COMMITTED", "PREPARED"}
      PROVE  \/ seen'[s][TxnOf[x]] = seen[s][TxnOf[x]]
             \/ seen'[s][TxnOf[x]] = "COMMITTED" /\ Committed(s, x)
             \/ seen'[s][TxnOf[x]] = "PREPARED" /\ Prepared(s, x)
  <2>1. seen'[s][TxnOf[x]] = seen[s][TxnOf[x]] \/ seen'[s][TxnOf[x]] = RecoveredState(wal[s], TxnOf[x])
    BY SubmissionTxn DEF Restart, TypeInv, TypeOK, ShardTypeOK
  <2> QED BY <2>1, <1>3, RecoveredStates DEF Committed, Prepared
<1>4. \A c \in calls : c.sub \in Submissions /\ c.shard \in Shards BY CallFacts DEF TypeInv
<1> QED BY <1>1, <1>2, <1>3, <1>4, QuietProtocolInv

\* A crash keeps the chain: the handlers it kills answer with an error.
LEMMA CrashProtocolInv ==
  ASSUME TypeInv, ProtocolInv, NEW r \in Shards, Crash(r), UNCHANGED coordVars
  PROVE  ProtocolInv'
<1>c. CallInv /\ VerdictInv BY DEF ProtocolInv
<1>1. UNCHANGED <<phase, decision, leg, wal>> BY DEF coordVars, Crash
<1>2. ASSUME NEW e \in calls'
      PROVE  \/ e \in calls
             \/ e.pc = "error" /\ \E c \in calls :
                  /\ Running(c) /\ c.live /\ e.live /\ e.sub = c.sub /\ e.kind = c.kind
                  /\ e.op = c.op /\ e.shard = c.shard /\ c \notin calls'
  <2>1. CASE e \in calls BY <2>1
  <2>2. CASE e \notin calls
    <3>1. PICK c \in calls : c.shard = r /\ Running(c) /\ c.live /\ e = [c EXCEPT !.pc = "error"]
      BY <2>2 DEF Crash
    <3>2. c \in Calls BY DEF TypeInv, TypeOK, ShardTypeOK
    <3>3. /\ e.pc = "error" /\ e.live /\ e.sub = c.sub /\ e.kind = c.kind
          /\ e.op = c.op /\ e.shard = c.shard
      BY <3>1, <3>2 DEF Calls
    <3>4. c \notin calls'
      <4>1. \A d \in Calls : [d EXCEPT !.pc = "error"].pc = "error" BY DEF Calls
      <4>2. c.pc # "error" BY <3>1 DEF Running, RunningAt
      <4>3. c \in calls' => \E d \in calls : c = [d EXCEPT !.pc = "error"] BY <3>1 DEF Crash
      <4> QED BY <4>1, <4>2, <4>3, Zenon DEF TypeInv, TypeOK, ShardTypeOK
    <3> QED BY <3>1, <3>3, <3>4
  <2> QED BY <2>1, <2>2
<1>3. ASSUME NEW c \in calls
      PROVE  \/ c \in calls'
             \/ c.live => \E e \in calls' : /\ e.pc = "error" /\ e.live /\ e.sub = c.sub
                                            /\ e.kind = c.kind /\ e.op = c.op
  <2>1. CASE c.shard = r /\ Running(c) /\ c.live
    <3> DEFINE e == [c EXCEPT !.pc = "error"]
    <3>1. c \in Calls BY DEF TypeInv, TypeOK, ShardTypeOK
    <3>2. e.pc = "error" /\ e.live /\ e.sub = c.sub /\ e.kind = c.kind /\ e.op = c.op
      BY <3>1, <2>1 DEF Calls
    <3>3. e \in calls' BY <2>1, Zenon DEF Crash
    <3> QED BY <3>2, <3>3, Zenon
  <2>2. CASE ~(c.shard = r /\ Running(c) /\ c.live) BY <2>2 DEF Crash
  <2> QED BY <2>1, <2>2
<1>4. \A x \in Submissions : Doomed(x) => Doomed(x)' BY <1>1, <1>3 DEF Doomed
<1>5. \A s \in Shards, x \in Submissions :
        seen'[s][TxnOf[x]] = seen[s][TxnOf[x]] \/ seen'[s][TxnOf[x]] = "NONE"
  BY SubmissionTxn DEF Crash, TypeInv, TypeOK, ShardTypeOK
<1>6. \A s, x : /\ Committed(s, x)' = Committed(s, x)
               /\ Aborted(s, x)' = Aborted(s, x)
               /\ Prepared(s, x)' = Prepared(s, x)
  BY <1>1 DEF Committed, Aborted, Prepared
<1>7. \A x : Cross(x)' <=> Cross(x) BY DEF Cross, SourceShard, DestShard
<1>8. PhaseInv' BY <1>1, <1>2 DEF ProtocolInv, PhaseInv
<1>9. CallInv'
  <2>1. ASSUME NEW c \in calls', NEW d \in calls', c.sub = d.sub, c.op = d.op, c.kind = d.kind,
               c.kind \in {"EXECUTE", "PREPARE"}
        PROVE  c = d
    <3>1. CASE c \in calls /\ d \in calls BY <3>1, <2>1 DEF ProtocolInv, CallInv
    <3>2. CASE c \in calls /\ d \notin calls BY ONLY <1>c, <3>2, <2>1, <1>2 DEF CallInv
    <3>3. CASE c \notin calls /\ d \in calls BY ONLY <1>c, <3>3, <2>1, <1>2 DEF CallInv
    <3>4. CASE c \notin calls /\ d \notin calls
      <4>1. PICK b \in calls : b.shard = r /\ Running(b) /\ b.live /\ c = [b EXCEPT !.pc = "error"]
        BY <3>4 DEF Crash
      <4>2. PICK b2 \in calls : b2.shard = r /\ Running(b2) /\ b2.live /\ d = [b2 EXCEPT !.pc = "error"]
        BY <3>4 DEF Crash
      <4>3. b \in Calls /\ b2 \in Calls BY DEF TypeInv, TypeOK, ShardTypeOK
      <4>4. b.sub = b2.sub /\ b.op = b2.op /\ b.kind = b2.kind /\ b.kind \in {"EXECUTE", "PREPARE"}
        BY <4>1, <4>2, <4>3, <2>1 DEF Calls
      <4>5. b = b2 BY <4>4 DEF ProtocolInv, CallInv
      <4> QED BY <4>1, <4>2, <4>5
    <3> QED BY <3>1, <3>2, <3>3, <3>4
  <2>2. ASSUME NEW c \in calls'
        PROVE  /\ c.kind = "COMMIT" => decision[c.sub] = "COMMIT"
               /\ c.kind = "ABORT" => decision[c.sub] = "ABORT"
               /\ (c.kind = "PREPARE" /\ c.live) =>
                    phase[c.sub] = "preparing" /\ leg[c.sub][c.op] = "waiting"
               /\ (c.kind = "PREPARE" /\ ~c.live) => Abandoned(c.sub, c.op)
    BY ONLY <1>c, <2>2, <1>2 DEF CallInv
  <2> QED BY <2>1, <2>2, <1>1 DEF CallInv, Abandoned
<1>10. ExecuteInv'
  <2>1. \A c \in calls' : c.pc \in {"sent"} \cup RunningAt => c \in calls BY <1>2 DEF RunningAt
  <2> QED BY <2>1, <1>1, <1>6, <1>7 DEF ProtocolInv, ExecuteInv
<1>11. VerdictInv'
  <2>1. \A c \in calls' : c.pc = "logAborted" => c \in calls BY <1>2
  <2> QED BY ONLY <1>c, <2>1, <1>1, <1>4, <1>5, <1>6, <1>7 DEF VerdictInv
<1>12. VoteInv'
  <2>1. \A c \in calls' : c.pc = "ok" => c \in calls BY <1>2
  <2>2. \A x, op : ShardOf(x, op)' = ShardOf(x, op) BY DEF ShardOf, SourceShard, DestShard
  <2> QED BY <2>1, <2>2, <1>1, <1>5, <1>6, Zenon DEF ProtocolInv, VoteInv
<1> QED BY <1>8, <1>9, <1>10, <1>11, <1>12 DEF ProtocolInv

-----------------------------------------------------------------------------
(***************************************************************************)
(* Steps of the coordinator.                                               *)
(***************************************************************************)
\* A coordinator step that does so keeps the chain.
LEMMA CoordProtocolInv ==
  ASSUME TypeInv, TypeInv', ProtocolInv, localFrame, CoordKeeps
  PROVE  ProtocolInv'
<1>1. \A s, x : /\ Committed(s, x)' = Committed(s, x)
               /\ Aborted(s, x)' = Aborted(s, x)
               /\ Prepared(s, x)' = Prepared(s, x)
  BY DEF localFrame, Committed, Aborted, Prepared
<1>2. seen' = seen BY DEF localFrame
<1>3. \A x : Cross(x)' <=> Cross(x) BY DEF Cross, SourceShard, DestShard
<1>4. ExecuteInv'
  <2> SUFFICES ASSUME NEW x \in Submissions, ~Cross(x)
               PROVE  /\ (phase'[x] = "new" \/ \E d \in calls' : d.sub = x /\ AtWork(d))
                          => \A s \in Shards : ~Committed(s, x) /\ ~Aborted(s, x)
                      /\ \A r, s \in Shards : ~(Committed(r, x) /\ Aborted(s, x))
    BY <1>1, <1>3, Zenon DEF ExecuteInv, AtWork
  <2>1. (phase'[x] = "new" \/ \E d \in calls' : d.sub = x /\ AtWork(d)) =>
          phase[x] = "new" \/ \E c \in calls : c.sub = x /\ AtWork(c)
    BY DEF CoordKeeps
  <2> QED BY <2>1 DEF ProtocolInv, ExecuteInv, AtWork
<1>5. VerdictInv'
  <2> SUFFICES ASSUME NEW x \in Submissions, Cross(x)
               PROVE  /\ \A s \in Shards :
                           /\ Committed(s, x) => decision'[x] = "COMMIT"
                           /\ seen[s][TxnOf[x]] = "COMMITTED" => decision'[x] = "COMMIT"
                           /\ Aborted(s, x) => Doomed(x)'
                      /\ \A d \in calls' : (d.sub = x /\ d.kind = "PREPARE" /\ d.pc = "logAborted") => Doomed(x)'
    BY <1>1, <1>2, <1>3, Zenon DEF VerdictInv
  <2>1. decision[x] = "COMMIT" => decision'[x] = "COMMIT" BY Zenon DEF CoordKeeps
  <2>2. Doomed(x) => Doomed(x)' BY Zenon DEF CoordKeeps
  <2>3. ASSUME NEW d \in calls', d.sub = x, d.kind = "PREPARE", d.pc = "logAborted" PROVE Doomed(x)
    <3>1. PICK c \in calls : c.sub = d.sub /\ c.kind = "PREPARE" /\ c.pc = "logAborted"
      BY <2>3, Zenon DEF CoordKeeps
    <3> QED BY <3>1, <2>3, Zenon DEF ProtocolInv, VerdictInv
  <2> QED BY <2>1, <2>2, <2>3, Zenon DEF ProtocolInv, VerdictInv
<1>6. VoteInv'
  <2>1. \A x, op : ShardOf(x, op)' = ShardOf(x, op) BY DEF ShardOf, SourceShard, DestShard
  <2>2. ASSUME NEW x \in Submissions, NEW op \in Sides,
               decision'[x] = "COMMIT" \/ (phase'[x] = "preparing" /\ leg'[x][op] = "prepared")
        PROVE  Prepared(ShardOf(x, op), x)
    <3>1. CASE decision[x] = "COMMIT" \/ (phase[x] = "preparing" /\ leg[x][op] = "prepared")
      BY <3>1 DEF ProtocolInv, VoteInv
    <3>2. CASE \E c \in calls : c.sub = x /\ c.op = op /\ c.kind = "PREPARE" /\ c.pc = "ok"
      <4>1. PICK c \in calls : c.sub = x /\ c.op = op /\ c.kind = "PREPARE" /\ c.pc = "ok" BY <3>2
      <4>2. c.shard = ShardOf(x, op) BY <4>1 DEF TypeInv, WellFormed
      <4> QED BY <4>1, <4>2 DEF ProtocolInv, VoteInv
    <3>3. \/ decision[x] = "COMMIT"
          \/ phase[x] = "preparing" /\ leg[x][op] = "prepared"
          \/ \E c \in calls : c.sub = x /\ c.op = op /\ c.kind = "PREPARE" /\ c.pc = "ok" /\ c.live
      BY ONLY <2>2, CoordKeeps DEF CoordKeeps
    <3> QED BY <3>1, <3>2, <3>3, Zenon
  <2>3. \A d \in calls' : (d.kind = "PREPARE" /\ d.pc = "ok") => Prepared(d.shard, d.sub)
    BY Zenon DEF CoordKeeps, ProtocolInv, VoteInv
  <2> QED BY <2>1, <2>2, <2>3, <1>1, <1>2, Zenon DEF ProtocolInv, VoteInv
<1> QED BY <1>4, <1>5, <1>6 DEF ProtocolInv, CoordKeeps

\* Routing and sending the PREPAREs.
LEMMA RouteKeeps ==
  ASSUME TypeInv, ProtocolInv, NEW y \in Submissions, RouteSingle(y) \/ SendPrepares(y)
  PROVE  CoordKeeps
<1>c. CallInv /\ VerdictInv BY DEF ProtocolInv
<1>t. /\ phase \in [Submissions -> Phases] /\ decision \in [Submissions -> {"none", "COMMIT", "ABORT"}]
      /\ leg \in [Submissions -> [Sides -> Legs]]
      /\ \A c \in calls : c.sub \in Submissions
  BY CallFacts, Zenon DEF TypeInv, TypeOK
<1>1. /\ phase[y] = "new" /\ decision[y] = "none" /\ UNCHANGED decision
      /\ \A c \in calls : c.sub # y
  BY DEF RouteSingle, SendPrepares, ProtocolInv, PhaseInv
<1>2. CASE RouteSingle(y)
  <2> DEFINE q == Request(y, "EXECUTE", "TRANSFER", 1)
  <2>1. q.sub = y /\ q.kind = "EXECUTE" /\ q.pc = "sent" BY DEF Request
  <2>2. /\ calls' = calls \cup {q} /\ phase' = [phase EXCEPT ![y] = "executing"] /\ leg' = leg
        /\ ~Cross(y)
    BY <1>2 DEF RouteSingle
  <2> HIDE DEF q
  <2>3. PhaseInv' BY <2>1, <2>2, <1>1, <1>t DEF ProtocolInv, PhaseInv
  <2>4. CallInv' BY ONLY <1>c, <2>1, <2>2, <1>1, <1>t DEF CallInv, Abandoned
  <2>5. \A x \in Submissions : Cross(x) /\ Doomed(x) => Doomed(x)'
    BY <2>2, <1>1, <1>t DEF Doomed
  <2> QED BY <2>1, <2>2, <2>3, <2>4, <2>5, <1>1, <1>t DEF CoordKeeps
<1>3. CASE SendPrepares(y)
  <2> DEFINE R == {Request(y, "PREPARE", op, 1) : op \in Sides}
  <2>1. \A q \in R : q.sub = y /\ q.kind = "PREPARE" /\ q.pc = "sent" /\ q.op \in Sides /\ q.live
    BY DEF Request
  <2>2. \A q, r \in R : q.op = r.op => q = r
    <3>1. \A op : Request(y, "PREPARE", op, 1).op = op BY DEF Request
    <3>2. \A q \in R : q = Request(y, "PREPARE", q.op, 1) BY <3>1
    <3> QED BY <3>2
  <2>3. /\ calls' = calls \cup R /\ phase' = [phase EXCEPT ![y] = "preparing"]
        /\ leg' = [leg EXCEPT ![y] = [op \in Sides |-> "waiting"]]
        /\ Cross(y)
    BY <1>3 DEF SendPrepares
  <2> HIDE DEF R
  <2>4. PhaseInv' BY <2>1, <2>3, <1>1, <1>t DEF ProtocolInv, PhaseInv
  <2>5. CallInv' BY <2>1, <2>2, <2>3, <1>1, <1>t DEF ProtocolInv, CallInv, Abandoned
  <2>6. \A x \in Submissions : Cross(x) /\ Doomed(x) => Doomed(x)'
    BY <2>3, <1>1, <1>t DEF Doomed
  <2> QED BY <2>1, <2>3, <2>4, <2>5, <2>6, <1>1, <1>t DEF CoordKeeps
<1> QED BY <1>2, <1>3

\* The decision.  A doomed submission cannot reach CommitAll: a PREPARE
\* somebody waits for keeps its side "waiting", a failed one "failed".
LEMMA DecideKeeps ==
  ASSUME TypeInv, ProtocolInv, NEW y \in Submissions, CommitAll(y) \/ DecideAbort(y)
  PROVE  CoordKeeps
<1>c. CallInv /\ VerdictInv BY DEF ProtocolInv
<1>t. /\ phase \in [Submissions -> Phases] /\ decision \in [Submissions -> {"none", "COMMIT", "ABORT"}]
      /\ leg \in [Submissions -> [Sides -> Legs]]
      /\ \A c \in calls : c.sub \in Submissions
      /\ \A c \in calls : c.kind = "PREPARE" => c.op \in Sides
  BY CallFacts, Zenon DEF TypeInv, TypeOK, WellFormed, Calls, Sides
<1>1. phase[y] = "preparing" /\ decision[y] = "none" /\ Cross(y)
  BY DEF CommitAll, DecideAbort, Voted, ProtocolInv, PhaseInv, TypeInv, RoutedInv
<1>2. \A c \in calls : c.sub = y => c.kind \notin {"COMMIT", "ABORT"}
  BY <1>1, Zenon DEF ProtocolInv, CallInv
<1>3. \A c \in calls : c.sub = y /\ c.kind = "PREPARE" => ~c.live
  <2>1. \A op \in Sides : leg[y][op] # "waiting" BY Zenon DEF CommitAll, DecideAbort, Voted
  <2>2. \A c \in calls : c.kind = "PREPARE" /\ c.live => leg[c.sub][c.op] = "waiting" BY <1>c, Zenon DEF CallInv
  <2> QED BY ONLY <2>1, <2>2, <1>t
<1>4. CASE CommitAll(y)
  <2> DEFINE R == {Request(y, "COMMIT", op, 1) : op \in Sides}
  <2>1. \A q \in R : q.sub = y /\ q.kind = "COMMIT" /\ q.pc = "sent" BY ONLY TRUE DEF Request
  <2>2. /\ calls' = calls \cup R /\ phase' = [phase EXCEPT ![y] = "committing"]
        /\ decision' = [decision EXCEPT ![y] = "COMMIT"]
        /\ leg' = [leg EXCEPT ![y] = [op \in Sides |-> "waiting"]]
        /\ \A op \in Sides : leg[y][op] = "prepared"
    BY <1>4 DEF CommitAll, BothPrepared
  <2> HIDE DEF R
  <2>3. \A c \in calls : c.sub = y => c.kind # "PREPARE"
    BY <1>1, <1>3, <1>t, <2>2, Zenon DEF ProtocolInv, CallInv, Abandoned
  <2>4. ~Doomed(y) BY <1>1, <2>2, <2>3 DEF Doomed
  <2>5. PhaseInv' BY <2>1, <2>2, <1>1, <1>t DEF ProtocolInv, PhaseInv
  <2>6. CallInv' BY ONLY <1>c, <2>1, <2>2, <2>3, <1>2, <1>t DEF CallInv, Abandoned
  <2>7. \A x \in Submissions : Cross(x) /\ Doomed(x) => Doomed(x)'
    BY <2>2, <2>4, <1>1, <1>t DEF Doomed
  <2> QED BY <2>1, <2>2, <2>5, <2>6, <2>7, <1>1, <1>t DEF CoordKeeps
<1>5. CASE DecideAbort(y)
  <2>1. /\ calls' = calls /\ leg' = leg /\ phase' = [phase EXCEPT ![y] = "aborting"]
        /\ decision' = [decision EXCEPT ![y] = "ABORT"]
    BY <1>5 DEF DecideAbort
  <2>2. PhaseInv' BY <2>1, <1>1, <1>t DEF ProtocolInv, PhaseInv
  <2>3. CallInv' BY <2>1, <1>2, <1>3, <1>t, Zenon DEF ProtocolInv, CallInv, Abandoned
  <2>4. \A x \in Submissions : Cross(x) /\ Doomed(x) => Doomed(x)'
    BY <2>1, <1>1, <1>t DEF Doomed
  <2> QED BY <2>1, <2>2, <2>3, <2>4, <1>1, <1>t DEF CoordKeeps
<1> QED BY <1>4, <1>5

\* Sending an ABORT and finishing.
LEMMA FinishKeeps ==
  ASSUME TypeInv, ProtocolInv, NEW y \in Submissions,
         (\E op \in Sides : SendAbort(y, op)) \/ FinishCommit(y) \/ FinishAbort(y)
  PROVE  CoordKeeps
<1>t. /\ phase \in [Submissions -> Phases] /\ decision \in [Submissions -> {"none", "COMMIT", "ABORT"}]
      /\ leg \in [Submissions -> [Sides -> Legs]]
      /\ \A c \in calls : c.sub \in Submissions
  BY CallFacts, Zenon DEF TypeInv, TypeOK
<1>1. ASSUME NEW side \in Sides, SendAbort(y, side) PROVE CoordKeeps
  <2> DEFINE q == Request(y, "ABORT", side, 1)
  <2>1. q.sub = y /\ q.kind = "ABORT" /\ q.pc = "sent" BY DEF Request
  <2>2. /\ calls' = calls \cup {q} /\ UNCHANGED <<phase, decision>>
        /\ leg' = [leg EXCEPT ![y][side] = "waiting"]
        /\ phase[y] = "aborting" /\ decision[y] = "ABORT"
    BY <1>1 DEF SendAbort, ProtocolInv, PhaseInv
  <2>3. \A x \in Submissions : x # y => leg'[x] = leg[x] BY <2>2, <1>t
  <2>4. Cross(y) BY <2>2 DEF TypeInv, RoutedInv
  <2> HIDE DEF q
  <2>5. PhaseInv' BY <2>1, <2>2, <1>t DEF ProtocolInv, PhaseInv
  <2>6. CallInv'
    <3>1. CallInv BY DEF ProtocolInv
    <3>2. ASSUME NEW c \in calls', c # q
          PROVE  /\ c \in calls
                 /\ c.kind = "COMMIT" => decision'[c.sub] = "COMMIT"
                 /\ c.kind = "ABORT" => decision'[c.sub] = "ABORT"
                 /\ (c.kind = "PREPARE" /\ c.live) => phase'[c.sub] = "preparing" /\ leg'[c.sub][c.op] = "waiting"
                 /\ (c.kind = "PREPARE" /\ ~c.live) => Abandoned(c.sub, c.op)'
      <4>1. c \in calls /\ c.sub \in Submissions BY <3>2, <2>2, <1>t, Zenon
      <4>2. CASE c.sub = y BY <4>1, <4>2, <3>1, <2>2, Zenon DEF CallInv, Abandoned
      <4>3. CASE c.sub # y BY <4>1, <4>3, <3>1, <2>2, <2>3, Zenon DEF CallInv, Abandoned
      <4> QED BY <4>2, <4>3, <4>1, Zenon
    <3>3. ASSUME NEW c \in calls', NEW d \in calls', c.sub = d.sub, c.op = d.op, c.kind = d.kind,
                 c.kind \in {"EXECUTE", "PREPARE"}
          PROVE  c = d
      <4>1. c # q /\ d # q BY <3>3, <2>1
      <4> QED BY <4>1, <3>1, <3>2, <3>3, Zenon DEF CallInv
    <3>4. q.kind = "ABORT" /\ decision'[q.sub] = "ABORT" BY <2>1, <2>2
    <3>5. \A c \in calls' :
            /\ c.kind = "COMMIT" => decision'[c.sub] = "COMMIT"
            /\ c.kind = "ABORT" => decision'[c.sub] = "ABORT"
            /\ (c.kind = "PREPARE" /\ c.live) => phase'[c.sub] = "preparing" /\ leg'[c.sub][c.op] = "waiting"
            /\ (c.kind = "PREPARE" /\ ~c.live) => Abandoned(c.sub, c.op)'
      BY <3>2, <3>4, Zenon
    <3> QED BY <3>3, <3>5, Zenon DEF CallInv
  <2>7. \A x \in Submissions : Cross(x) /\ Doomed(x) => Doomed(x)'
    BY <2>2, <2>3, <1>t DEF Doomed
  <2> QED BY <2>1, <2>2, <2>3, <2>4, <2>5, <2>6, <2>7, <1>t, Zenon DEF CoordKeeps
<1>2. CASE FinishCommit(y) \/ FinishAbort(y)
  <2>1. /\ calls' = calls /\ UNCHANGED <<leg, decision>> /\ phase' = [phase EXCEPT ![y] = "done"]
        /\ phase[y] \in {"committing", "aborting"} /\ decision[y] # "none"
    BY <1>2, Zenon DEF FinishCommit, FinishAbort, Finish, ProtocolInv, PhaseInv
  <2>2. PhaseInv' BY <2>1, <1>t DEF ProtocolInv, PhaseInv
  <2>3. CallInv' BY <2>1, <1>t DEF ProtocolInv, CallInv, Abandoned
  <2>4. \A x \in Submissions : Cross(x) /\ Doomed(x) => Doomed(x)'
    BY <2>1, <1>t DEF Doomed
  <2> QED BY <2>1, <2>2, <2>3, <2>4, <1>t DEF CoordKeeps
<1> QED BY <1>1, <1>2

\* The death of a coordinator: undecided, it can never decide COMMIT.
LEMMA CoordinatorCrashKeeps ==
  ASSUME TypeInv, ProtocolInv, NEW y \in Submissions, CoordinatorCrash(y)
  PROVE  CoordKeeps
<1>t. /\ phase \in [Submissions -> Phases] /\ decision \in [Submissions -> {"none", "COMMIT", "ABORT"}]
      /\ leg \in [Submissions -> [Sides -> Legs]]
      /\ \A c \in calls : c.sub \in Submissions
  BY CallFacts, Zenon DEF TypeInv, TypeOK
<1>1. /\ UNCHANGED <<leg, decision>> /\ phase' = [phase EXCEPT ![y] = "crashed"]
      /\ phase[y] \notin {"new", "done", "crashed"}
  BY DEF CoordinatorCrash
<1>2. ASSUME NEW d \in calls'
      PROVE  \/ d \in calls /\ ~(d.sub = y /\ d.live)
             \/ \E c \in calls : /\ c.sub = y /\ c.live /\ d = [c EXCEPT !.live = FALSE]
                                 /\ d.sub = y /\ ~d.live /\ d.kind = c.kind /\ d.op = c.op /\ d.pc = c.pc
                                 /\ d.pc \notin Answers
  <2>1. CASE d \in calls /\ ~(d.sub = y /\ d.live) BY <2>1
  <2>2. CASE ~(d \in calls /\ ~(d.sub = y /\ d.live))
    <3>1. PICK c \in calls : c.sub = y /\ c.live /\ c.pc \notin Answers /\ d = [c EXCEPT !.live = FALSE]
      BY <2>2 DEF CoordinatorCrash
    <3>2. c \in Calls BY DEF TypeInv, TypeOK, ShardTypeOK
    <3>3. d.sub = c.sub /\ ~d.live /\ d.kind = c.kind /\ d.op = c.op /\ d.pc = c.pc
      BY <3>1, <3>2 DEF Calls
    <3> QED BY <3>1, <3>3, Zenon
  <2> QED BY <2>1, <2>2
<1>3. \A c \in calls : c.sub # y => c \in calls' BY DEF CoordinatorCrash
<1>4. PhaseInv' BY <1>1, <1>2, <1>t DEF ProtocolInv, PhaseInv
<1>5. CallInv'
  <2>1. ASSUME NEW c \in calls', NEW d \in calls', c.sub = d.sub, c.op = d.op, c.kind = d.kind,
               c.kind \in {"EXECUTE", "PREPARE"}
        PROVE  c = d
    <3>1. PICK a \in calls : /\ c.sub = a.sub /\ c.op = a.op /\ c.kind = a.kind
                             /\ IF a.sub = y /\ a.live THEN c = [a EXCEPT !.live = FALSE] ELSE c = a
      BY <1>2
    <3>2. PICK b \in calls : /\ d.sub = b.sub /\ d.op = b.op /\ d.kind = b.kind
                             /\ IF b.sub = y /\ b.live THEN d = [b EXCEPT !.live = FALSE] ELSE d = b
      BY <1>2
    <3>3. a = b BY <3>1, <3>2, <2>1, Zenon DEF ProtocolInv, CallInv
    <3>4. CASE a.sub = y /\ a.live
      <4>1. c = [a EXCEPT !.live = FALSE] BY <3>1, <3>4
      <4>2. d = [a EXCEPT !.live = FALSE] BY <3>2, <3>3, <3>4
      <4> QED BY <4>1, <4>2
    <3>5. CASE ~(a.sub = y /\ a.live) BY <3>1, <3>2, <3>3, <3>5
    <3> QED BY <3>4, <3>5
  <2>2. ASSUME NEW c \in calls'
        PROVE  /\ c.kind = "COMMIT" => decision[c.sub] = "COMMIT"
               /\ c.kind = "ABORT" => decision[c.sub] = "ABORT"
    BY <1>2 DEF ProtocolInv, CallInv
  <2>3. ASSUME NEW c \in calls', c.kind = "PREPARE", c.live
        PROVE  phase'[c.sub] = "preparing" /\ leg[c.sub][c.op] = "waiting"
    BY <2>3, <1>1, <1>2, <1>t DEF ProtocolInv, CallInv
  <2>4. ASSUME NEW c \in calls', c.kind = "PREPARE", ~c.live
        PROVE  \/ decision[c.sub] = "ABORT"
               \/ decision[c.sub] = "none" /\ phase'[c.sub] = "crashed"
               \/ phase'[c.sub] = "preparing" /\ leg[c.sub][c.op] = "failed"
    <3>1. CASE c \in calls
      <4>1. Abandoned(c.sub, c.op) BY <3>1, <2>4, Zenon DEF ProtocolInv, CallInv
      <4>2. phase[c.sub] = "preparing" => decision[c.sub] = "none"
        BY <3>1, <1>t DEF ProtocolInv, PhaseInv
      <4> QED BY <4>1, <4>2, <3>1, <1>1, <1>t DEF Abandoned
    <3>2. CASE c \notin calls
      <4>1. PICK b \in calls : b.sub = y /\ b.live /\ b.kind = "PREPARE" /\ c.sub = y
        BY <3>2, <2>4, <1>2
      <4>2. decision[y] = "none" BY <4>1 DEF ProtocolInv, CallInv, PhaseInv
      <4> QED BY <4>1, <4>2, <1>1, <1>t
    <3> QED BY <3>1, <3>2, Zenon
  <2> QED BY <2>1, <2>2, <2>3, <2>4, <1>1 DEF CallInv, Abandoned
<1>6. ASSUME NEW x \in Submissions, Cross(x), Doomed(x) PROVE Doomed(x)'
  <2>1. CASE x = y
    <3>1. decision[y] = "ABORT" \/ decision[y] = "none"
      BY <1>6, <2>1 DEF Doomed, ProtocolInv, PhaseInv
    <3> QED BY <3>1, <2>1, <1>1, <1>t DEF Doomed
  <2>2. CASE x # y BY <1>6, <2>2, <1>1, <1>3, <1>t DEF Doomed
  <2> QED BY <2>1, <2>2
<1>7. ASSUME NEW d \in calls'
      PROVE  /\ ~Cross(d.sub) /\ AtWork(d) => \E c \in calls : c.sub = d.sub /\ AtWork(c)
             /\ d.kind = "PREPARE" /\ d.pc = "logAborted" =>
                  \E c \in calls : c.sub = d.sub /\ c.kind = "PREPARE" /\ c.pc = "logAborted"
             /\ d.kind = "PREPARE" /\ d.pc = "ok" => d \in calls
  BY <1>2 DEF AtWork, Answers
<1> QED BY <1>1, <1>4, <1>5, <1>6, <1>7, <1>t DEF CoordKeeps

\* The end of a call, answered or given up: the calls that remain are the
\* others, at most c itself given up, and at most one more COMMIT.
LEMMA EndKeeps ==
  ASSUME TypeInv, ProtocolInv, NEW c \in calls, c.live, NEW answer, NEW rest,
         End(c, answer, rest),
         calls \ {c} \subseteq rest,
         \A d \in rest : \/ d \in calls \ {c}
                         \/ d = [c EXCEPT !.live = FALSE] /\ c.pc \notin Answers /\ answer = "error",
         answer # "error" => answer = c.pc
  PROVE  CoordKeeps
<1>t. /\ phase \in [Submissions -> Phases] /\ decision \in [Submissions -> {"none", "COMMIT", "ABORT"}]
      /\ leg \in [Submissions -> [Sides -> Legs]]
      /\ \A d \in calls : d.sub \in Submissions
      /\ \A d \in calls : WellFormed(d)
      /\ c \in Calls /\ c.sub \in Submissions
      /\ c.kind # "EXECUTE" => c.op \in Sides
  BY CallFacts DEF TypeInv, TypeOK, WellFormed, Calls, Sides
<1> DEFINE gone == [c EXCEPT !.live = FALSE]
<1>1. gone.sub = c.sub /\ gone.kind = c.kind /\ gone.op = c.op /\ gone.pc = c.pc /\ ~gone.live
  BY <1>t DEF Calls
<1> HIDE DEF gone
<1>r. \A d \in rest : d \in calls \ {c} \/ (d = gone /\ c.pc \notin Answers /\ answer = "error")
  BY DEF gone
<1>2. \A d \in rest : d.sub \in Submissions BY <1>1, <1>r, <1>t
\* the calls that remain, as far as their kinds go
<1>3. ASSUME NEW d \in rest, NEW e \in rest, d.sub = e.sub, d.op = e.op, d.kind = e.kind,
             d.kind \in {"EXECUTE", "PREPARE"}
      PROVE  d = e
  BY <1>1, <1>3, <1>r DEF ProtocolInv, CallInv
<1>4. ASSUME NEW d \in rest
      PROVE  /\ d.kind = "COMMIT" => decision[d.sub] = "COMMIT"
             /\ d.kind = "ABORT" => decision[d.sub] = "ABORT"
  BY <1>1, <1>4, <1>r DEF ProtocolInv, CallInv
<1>5. ASSUME NEW d \in rest
      PROVE  /\ AtWork(d) => \E b \in calls : b.sub = d.sub /\ AtWork(b)
             /\ d.kind = "PREPARE" /\ d.pc = "logAborted" =>
                  \E b \in calls : b.sub = d.sub /\ b.kind = "PREPARE" /\ b.pc = "logAborted"
             /\ d.kind = "PREPARE" /\ d.pc = "ok" => d \in calls
  BY <1>1, <1>r DEF AtWork, Answers
<1>6. \A x \in Submissions : phase[x] = "new" => \A d \in rest : d.sub # x
  BY <1>1, <1>r DEF ProtocolInv, PhaseInv
<1>7. CASE EndExecute(c, answer, rest)
  <2>1. /\ c.kind = "EXECUTE" /\ ~Cross(c.sub) /\ calls' = rest
        /\ phase' = [phase EXCEPT ![c.sub] = "done"] /\ UNCHANGED <<decision, leg>>
    BY <1>7, <1>t DEF EndExecute, WellFormed
  <2>2. PhaseInv' BY <2>1, <1>6, <1>t DEF ProtocolInv, PhaseInv
  <2>3. \A d \in rest : d.kind = "PREPARE" => d \in calls /\ d.sub # c.sub
    BY <2>1, <1>1, <1>r, <1>t DEF WellFormed
  <2>4. CallInv' BY <2>1, <2>3, <1>2, <1>3, <1>4, <1>t DEF ProtocolInv, CallInv, Abandoned
  <2>5. ASSUME NEW x \in Submissions, Cross(x), Doomed(x) PROVE Doomed(x)'
    BY <2>1, <2>5, <1>t DEF Doomed
  <2> QED BY <2>1, <2>2, <2>4, <2>5, <1>5, <1>t DEF CoordKeeps
<1>8. CASE EndPrepare(c, answer, rest)
  <2> DEFINE v == IF answer = "ok" THEN "prepared" ELSE "failed"
  <2>1. /\ c.kind = "PREPARE" /\ calls' = rest /\ UNCHANGED <<phase, decision>>
        /\ leg' = [leg EXCEPT ![c.sub][c.op] = v]
    BY <1>8 DEF EndPrepare
  <2>2. phase[c.sub] = "preparing" /\ leg[c.sub][c.op] = "waiting" /\ decision[c.sub] = "none"
    BY <2>1, <1>t DEF ProtocolInv, CallInv, PhaseInv
  <2>3. /\ leg'[c.sub][c.op] = v
        /\ \A x \in Submissions : \A op \in Sides : ~(x = c.sub /\ op = c.op) => leg'[x][op] = leg[x][op]
    BY <2>1, <1>t
  <2>4. v # "waiting" /\ (v = "prepared" => c.pc = "ok") OBVIOUS
  <2> HIDE DEF v
  <2>5. PhaseInv' BY <2>1, <1>6, <1>t DEF ProtocolInv, PhaseInv
  <2>6. ASSUME NEW d \in rest, d.kind = "PREPARE"
        PROVE  /\ d.op \in Sides /\ d.sub \in Submissions
               /\ d.live => phase[d.sub] = "preparing" /\ leg'[d.sub][d.op] = "waiting"
               /\ ~d.live => \/ decision[d.sub] = "ABORT"
                             \/ decision[d.sub] = "none" /\ phase[d.sub] = "crashed"
                             \/ phase[d.sub] = "preparing" /\ leg'[d.sub][d.op] = "failed"
    <3>1. CASE d \in calls \ {c}
      <4>1. d.op \in Sides /\ d.sub \in Submissions
        BY <3>1, <2>6, CallFacts DEF TypeInv, WellFormed, Calls, Sides
      <4>2. ~(d.sub = c.sub /\ d.op = c.op)
        BY <3>1, <2>1, <2>6 DEF ProtocolInv, CallInv
      <4> QED BY <3>1, <4>1, <4>2, <2>3, <2>6 DEF ProtocolInv, CallInv, Abandoned
    <3>2. CASE d = gone /\ answer = "error"
      <4>1. v = "failed" BY <3>2 DEF v
      <4> QED BY <3>2, <4>1, <1>1, <1>t, <2>1, <2>2, <2>3
    <3> QED BY <3>1, <3>2, <1>r
  <2>7. CallInv' BY <2>1, <2>6, <1>3, <1>4 DEF CallInv, Abandoned
  <2>8. ASSUME NEW x \in Submissions, Cross(x), Doomed(x) PROVE Doomed(x)'
    <3>1. CASE decision[x] = "ABORT" \/ (decision[x] = "none" /\ phase[x] = "crashed")
      BY <3>1, <2>1 DEF Doomed
    <3>2. ASSUME phase[x] = "preparing", NEW op \in Sides, leg[x][op] = "failed" PROVE Doomed(x)'
      <4>1. leg'[x][op] = "failed" BY <3>2, <2>2, <2>3
      <4> QED BY <4>1, <3>2, <2>1 DEF Doomed
    <3>3. ASSUME phase[x] = "preparing", NEW d \in calls, d.sub = x, d.kind = "PREPARE", d.live,
                 d.pc \in {"logAborted", "error"}
          PROVE  Doomed(x)'
      <4>1. CASE d # c BY <4>1, <3>3, <2>1 DEF Doomed
      <4>2. CASE d = c
        <5>1. v = "failed" BY <4>2, <3>3 DEF v
        <5>2. c.op \in Sides /\ x = c.sub BY <4>2, <3>3, <2>1, <1>t
        <5> QED BY <5>1, <5>2, <2>1, <2>2, <2>3 DEF Doomed
      <4> QED BY <4>1, <4>2
    <3> QED BY <3>1, <3>2, <3>3, <2>8 DEF Doomed
  <2>9. ASSUME NEW x \in Submissions, NEW op \in Sides, phase[x] = "preparing", leg'[x][op] = "prepared"
        PROVE  \/ leg[x][op] = "prepared"
               \/ \E b \in calls : b.sub = x /\ b.op = op /\ b.kind = "PREPARE" /\ b.pc = "ok" /\ b.live
    BY <2>1, <2>3, <2>4, <2>9
  <2> QED BY <2>1, <2>5, <2>7, <2>8, <2>9, <1>5 DEF CoordKeeps
<1>9. CASE EndCommit(c, answer, rest) \/ EndAbort(c, answer, rest)
  <2>1. /\ UNCHANGED <<phase, decision>> /\ c.kind \in {"COMMIT", "ABORT"}
        /\ \A x \in Submissions : x # c.sub => leg'[x] = leg[x]
    BY <1>9, <1>t DEF EndCommit, EndAbort
  <2>2. phase[c.sub] # "preparing" /\ decision[c.sub] # "none" /\ Cross(c.sub)
        /\ phase[c.sub] # "new"
    BY <2>1, <1>t DEF ProtocolInv, CallInv, PhaseInv, WellFormed
  <2>3. /\ rest \subseteq calls'
        /\ \A d \in calls' : \/ d \in rest
                             \/ d.sub = c.sub /\ d.kind = "COMMIT" /\ d.pc = "sent" /\ c.kind = "COMMIT"
    <3> DEFINE q == Request(c.sub, "COMMIT", c.op, tries[c.sub][c.op] + 1)
    <3>1. q.sub = c.sub /\ q.kind = "COMMIT" /\ q.pc = "sent" BY ONLY TRUE DEF Request
    <3>2. calls' = rest \/ (calls' = rest \cup {q} /\ c.kind = "COMMIT")
      BY <1>9 DEF EndCommit, EndAbort
    <3> HIDE DEF q
    <3>3. CASE calls' = rest BY <3>3
    <3>4. CASE calls' = rest \cup {q} /\ c.kind = "COMMIT" BY <3>1, <3>4
    <3> QED BY <3>2, <3>3, <3>4
  <2>4. PhaseInv' BY <2>1, <2>2, <2>3, <1>6 DEF ProtocolInv, PhaseInv
  <2>5. CallInv'
    <3>1. \A d \in rest : d.kind = "PREPARE" => d \in calls BY <2>1, <1>1, <1>r
    <3>2. \A d \in rest : (d.kind = "PREPARE" /\ d.live) =>
            phase'[d.sub] = "preparing" /\ leg'[d.sub][d.op] = "waiting"
      BY <3>1, <2>1, <2>2, <1>2 DEF ProtocolInv, CallInv
    <3>3. \A d \in rest : (d.kind = "PREPARE" /\ ~d.live) => Abandoned(d.sub, d.op)'
      BY <3>1, <2>1, <2>2, <1>2 DEF ProtocolInv, CallInv, Abandoned
    <3>4. c.kind = "COMMIT" => decision[c.sub] = "COMMIT" BY DEF ProtocolInv, CallInv
    <3>5. \A d \in calls' : /\ d.kind = "COMMIT" => decision'[d.sub] = "COMMIT"
                            /\ d.kind = "ABORT" => decision'[d.sub] = "ABORT"
      BY <3>4, <2>1, <2>3, <1>4
    <3>6. \A d, e \in calls' :
            (d.sub = e.sub /\ d.op = e.op /\ d.kind = e.kind /\ d.kind \in {"EXECUTE", "PREPARE"}) => d = e
      BY <2>3, <1>3
    <3> QED BY <3>2, <3>3, <3>5, <3>6, <2>3 DEF CallInv
  <2>6. ASSUME NEW x \in Submissions, Cross(x), Doomed(x) PROVE Doomed(x)'
    BY <2>1, <2>2, <2>3, <2>6 DEF Doomed
  <2>7. ASSUME NEW d \in calls'
        PROVE  /\ ~Cross(d.sub) /\ AtWork(d) => \E b \in calls : b.sub = d.sub /\ AtWork(b)
               /\ d.kind = "PREPARE" /\ d.pc = "logAborted" =>
                    \E b \in calls : b.sub = d.sub /\ b.kind = "PREPARE" /\ b.pc = "logAborted"
               /\ d.kind = "PREPARE" /\ d.pc = "ok" => d \in calls
    BY <2>2, <2>3, <1>5
  <2> QED BY <2>1, <2>2, <2>4, <2>5, <2>6, <2>7 DEF CoordKeeps
<1> QED BY <1>7, <1>8, <1>9 DEF End

\* Answers and time-outs keep the chain.
LEMMA AnswerKeeps ==
  ASSUME TypeInv, ProtocolInv, NEW c \in calls, Receive(c) \/ Timeout(c)
  PROVE  CoordKeeps /\ localFrame
<1>1. CASE Receive(c)
  <2>1. /\ c.live /\ End(c, c.pc, calls \ {c}) /\ localFrame BY <1>1 DEF Receive
  <2> QED BY <2>1, EndKeeps
<1>2. CASE Timeout(c)
  <2> DEFINE rest == (calls \ {c}) \cup (IF c.pc \in Answers THEN {} ELSE {[c EXCEPT !.live = FALSE]})
  <2>1. c.live /\ End(c, "error", rest) /\ localFrame BY <1>2 DEF Timeout
  <2>2. /\ calls \ {c} \subseteq rest
        /\ \A d \in rest : \/ d \in calls \ {c}
                           \/ d = [c EXCEPT !.live = FALSE] /\ c.pc \notin Answers
    OBVIOUS
  <2> HIDE DEF rest
  <2> QED BY <2>1, <2>2, EndKeeps
<1> QED BY <1>1, <1>2

-----------------------------------------------------------------------------
\* Every coordinator step keeps the chain of ProtocolInv.
LEMMA CoordKeepsStep ==
  ASSUME TypeInv, ProtocolInv,
         \/ \E c \in calls : Receive(c) \/ Timeout(c)
         \/ \E x \in Submissions : Coordinate(x) \/ CoordinatorCrash(x)
  PROVE  CoordKeeps
BY RouteKeeps, DecideKeeps, FinishKeeps, CoordinatorCrashKeeps, AnswerKeeps, Zenon DEF Coordinate

\* Every step keeps the chain.
LEMMA ProtocolInvStep ==
  ASSUME SingleSubmission
  PROVE  TypeInv /\ ProtocolInv /\ [Next]_vars => ProtocolInv'
<1> SUFFICES ASSUME TypeInv, ProtocolInv, [Next]_vars PROVE ProtocolInv' OBVIOUS
<1>t. TypeInv' BY TypeInvStep
<1>1. ASSUME NEW c \in calls, Handle(c) \/ Network(c), UNCHANGED coordVars PROVE ProtocolInv'
  BY <1>1, HandlerProtocolInv
<1>2. CASE Create /\ UNCHANGED coordVars BY <1>2, CreateProtocolInv
<1>3. ASSUME NEW s \in Shards, Crash(s) \/ Restart(s), UNCHANGED coordVars PROVE ProtocolInv'
  BY <1>3, CrashProtocolInv, RestartProtocolInv
<1>4. ASSUME NEW c \in calls, Receive(c) \/ Timeout(c) PROVE ProtocolInv'
  BY <1>4, <1>t, AnswerKeeps, CoordProtocolInv
<1>5. ASSUME NEW x \in Submissions, Coordinate(x) PROVE ProtocolInv'
  <2>1. localFrame BY <1>5, CoordinateStep
  <2>2. CoordKeeps BY <1>5, RouteKeeps, DecideKeeps, FinishKeeps DEF Coordinate
  <2> QED BY <2>1, <2>2, <1>t, CoordProtocolInv
<1>6. ASSUME NEW x \in Submissions, CoordinatorCrash(x) PROVE ProtocolInv'
  <2>1. localFrame BY <1>6 DEF CoordinatorCrash
  <2> QED BY <2>1, <1>6, <1>t, CoordinatorCrashKeeps, CoordProtocolInv
<1>7. CASE UNCHANGED vars
  <2>1. UNCHANGED <<phase, decision, leg, calls, wal, seen>> BY <1>7 DEF vars, shardVars, coordVars
  <2>2. \A s, x : /\ Committed(s, x)' = Committed(s, x)
                  /\ Aborted(s, x)' = Aborted(s, x)
                  /\ Prepared(s, x)' = Prepared(s, x)
    BY <2>1 DEF Committed, Aborted, Prepared
  <2>3. \A c \in calls : c.sub \in Submissions /\ c.shard \in Shards BY CallFacts DEF TypeInv
  <2> QED BY <2>1, <2>2, <2>3, QuietProtocolInv, Zenon
<1> QED BY <1>1, <1>2, <1>3, <1>4, <1>5, <1>6, <1>7 DEF Next, ShardNext, Idle

\* A verdict in a log is about a transfer somebody submitted.
OriginInv ==
  \A s \in Shards, t \in Transfers, op \in {"COMMITTED", "ABORTED"} :
    Logged(wal[s], op, t) => \E x \in Submissions : TxnOf[x] = t

\* No step logs a verdict nobody asked for.
LEMMA OriginInvStep == TypeInv /\ OriginInv /\ [Next]_vars => OriginInv'
<1> SUFFICES ASSUME TypeInv, OriginInv, [Next]_vars PROVE OriginInv' OBVIOUS
<1>1. ASSUME NEW c \in calls, Handle(c) \/ Network(c) PROVE OriginInv'
  <2>1. LogEffect(c) BY <1>1, HandlerStep, Zenon DEF HandlerEffect
  <2>2. c.sub \in Submissions /\ Txn(c) = TxnOf[c.sub] BY CallFacts, Zenon DEF TypeInv, Txn
  <2> SUFFICES ASSUME NEW s \in Shards, NEW t \in Transfers, NEW op \in {"COMMITTED", "ABORTED"},
                      Logged(wal'[s], op, t)
               PROVE  \E x \in Submissions : TxnOf[x] = t
    BY DEF OriginInv
  <2>3. Logged(wal[s], op, t) \/ t = Txn(c) BY <2>1, HandlerLogs
  <2> QED BY <2>2, <2>3 DEF OriginInv
<1>2. CASE Create
  <2>1. CreateEffect BY <1>2, CreateStep
  <2> QED BY <2>1, CreateLogs, Zenon DEF OriginInv
<1>3. ASSUME wal' = wal PROVE OriginInv' BY <1>3 DEF OriginInv
<1>4. ASSUME NEW s \in Shards, Crash(s) \/ Restart(s) PROVE wal' = wal
  BY <1>4 DEF Crash, Restart
<1>5. ASSUME NEW c \in calls, Receive(c) \/ Timeout(c) PROVE wal' = wal
  BY <1>5 DEF Receive, Timeout, localFrame
<1>6. ASSUME NEW x \in Submissions, Coordinate(x) \/ CoordinatorCrash(x) PROVE wal' = wal
  BY <1>6, CoordinateStep DEF CoordinatorCrash, localFrame
<1>7. CASE UNCHANGED vars BY <1>3, <1>7 DEF vars, shardVars
<1> QED BY <1>1, <1>2, <1>3, <1>4, <1>5, <1>6, <1>7 DEF Next, ShardNext, Idle

\* What the chain says of the logs.
LEMMA ProtocolInvMeaning ==
  ASSUME SingleSubmission, ProtocolInv, OriginInv
  PROVE  Agreement /\ PreparedBeforeCommit
<1>1. ASSUME NEW t \in Transfers, NEW r \in Shards, NEW s \in Shards,
             Logged(wal[r], "COMMITTED", t), Logged(wal[s], "ABORTED", t)
      PROVE  FALSE
  <2>1. PICK x \in Submissions : TxnOf[x] = t BY <1>1 DEF OriginInv
  <2>2. Committed(r, x) /\ Aborted(s, x) BY <1>1, <2>1 DEF Committed, Aborted
  <2>3. CASE ~Cross(x) BY <2>2, <2>3 DEF ProtocolInv, ExecuteInv
  <2>4. CASE Cross(x)
    <3>1. decision[x] = "COMMIT" /\ Doomed(x) BY <2>2, <2>4, Zenon DEF ProtocolInv, VerdictInv
    <3> QED BY <3>1 DEF Doomed, ProtocolInv, PhaseInv
  <2> QED BY <2>3, <2>4
<1>2. ASSUME NEW t \in Transfers, NEW s \in Shards, CrossTransfer(t), Logged(wal[s], "COMMITTED", t)
      PROVE  \A a \in {Source[t], Destination[t]} : Logged(wal[Home[a]], "PREPARED", t)
  <2>1. PICK x \in Submissions : TxnOf[x] = t BY <1>2 DEF OriginInv
  <2>2. Cross(x) /\ Committed(s, x)
    BY <1>2, <2>1 DEF Committed, Cross, CrossTransfer, SourceShard, DestShard
  <2>3. decision[x] = "COMMIT" BY <2>2, Zenon DEF ProtocolInv, VerdictInv
  <2>4. Prepared(ShardOf(x, "DEBIT"), x) /\ Prepared(ShardOf(x, "CREDIT"), x)
    BY <2>3, Zenon DEF ProtocolInv, VoteInv, Sides
  <2> QED BY <2>1, <2>4, Zenon DEF Prepared, ShardOf, SourceShard, DestShard
<1> QED BY <1>1, <1>2 DEF Agreement, PreparedBeforeCommit

\* The whole inductive invariant holds in every reachable state.
LEMMA ProtocolInvHolds ==
  ASSUME SingleSubmission
  PROVE  Spec => [](TypeInv /\ ProtocolInv /\ OriginInv)
<1>1. Init => TypeInv /\ ProtocolInv /\ OriginInv
  <2>1. ASSUME Init PROVE OriginInv
    <3> SUFFICES ASSUME NEW s \in Shards, NEW t \in Transfers, NEW op, Logged(wal[s], op, t)
                 PROVE  FALSE
      BY DEF OriginInv
    <3>1. wal[s] = InitialLog[s] BY <2>1 DEF Init, ShardInit
    <3>2. PICK i \in DOMAIN InitialLog[s] : InitialLog[s][i].txn = t BY <3>1 DEF Logged
    <3> QED BY <3>2, InitialLogAssumption, ConstantsAssumption, Zenon
  <2> QED BY <2>1, TypeInvInit, ProtocolInvInit
<1>2. TypeInv /\ ProtocolInv /\ OriginInv /\ [Next]_vars => (TypeInv /\ ProtocolInv /\ OriginInv)'
  BY TypeInvStep, ProtocolInvStep, OriginInvStep
<1> QED BY <1>1, <1>2, PTL DEF Spec

\* When no transfer is submitted twice, no crash, time-out, lost request or
\* failed write makes one log commit what another aborts (twopc.Execute).
THEOREM AgreementHolds ==
  ASSUME SingleSubmission
  PROVE  Spec => []Agreement
<1>1. TypeInv /\ ProtocolInv /\ OriginInv => Agreement BY ProtocolInvMeaning
<1> QED BY <1>1, ProtocolInvHolds, PTL

\* When no transfer is submitted twice, a cross-shard transfer some log
\* commits has both PREPARED votes in the logs (sendPrepares, commitAll).
THEOREM PreparedBeforeCommitHolds ==
  ASSUME SingleSubmission
  PROVE  Spec => []PreparedBeforeCommit
<1>1. TypeInv /\ ProtocolInv /\ OriginInv => PreparedBeforeCommit BY ProtocolInvMeaning
<1> QED BY <1>1, ProtocolInvHolds, PTL
=============================================================================
