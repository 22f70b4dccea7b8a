----------------------------- MODULE Heartbeat -----------------------------
(***************************************************************************)
(* The heartbeat loop of a replica (shard/failover/heartbeat.go): every    *)
(* tick it asks its peers for their health, one after the other, and calls *)
(* onFailure for a peer that missed too many in a row.                     *)
(***************************************************************************)
EXTENDS Integers, Sequences

CONSTANTS
  PeerAddrs,        \* the peers, in the order in which they are asked
  MissLimit,        \* missLimit
  HeartbeatFaults   \* HeartbeatFaults[k]: how many events of kind k may happen

HeartbeatFaultKinds == {"down", "lost", "cancel"}

Peers == {PeerAddrs[i] : i \in DOMAIN PeerAddrs}

ASSUME HeartbeatAssumption ==
  /\ PeerAddrs \in Seq(Peers) /\ Len(PeerAddrs) > 0
  /\ MissLimit \in Nat \ {0}
  /\ HeartbeatFaults \in [HeartbeatFaultKinds -> Nat]

VARIABLES
  up,          \* up[p]: peer p answers health checks
  pc,          \* the loop: "wait", "ping", "record", "callback" or "stopped"
  pos,         \* index of the peer that pingAll is at
  err,         \* the health check of that peer failed
  missCount,   \* missCount[p], counted up to one above the limit
  onFailure,   \* a callback is registered
  streak,      \* history: failed checks of p since the last answered one
  told,        \* history: peers reported since they last went down
  heartbeatFaults       \* heartbeatFaults[k]: events of kind k that may still happen

loopVars == <<pc, pos, err>>
heartbeatVars == <<up, loopVars, missCount, onFailure, streak, told, heartbeatFaults>>

HeartbeatFault(k) == heartbeatFaults[k] > 0 /\ heartbeatFaults' = [heartbeatFaults EXCEPT ![k] = @ - 1]

MaxMissCount == MissLimit + 1

Increment(n) == IF n < MaxMissCount THEN n + 1 ELSE n

Peer == PeerAddrs[pos]

-----------------------------------------------------------------------------
(***************************************************************************)
(* The peers, and the program that registers the callback.                 *)
(***************************************************************************)
PeerDown(p) ==
  /\ up[p] /\ HeartbeatFault("down")
  /\ up' = [up EXCEPT ![p] = FALSE]
  /\ told' = told \ {p}
  /\ UNCHANGED <<loopVars, missCount, onFailure, streak>>

PeerUp(p) ==
  /\ ~up[p]
  /\ up' = [up EXCEPT ![p] = TRUE]
  /\ UNCHANGED <<loopVars, missCount, onFailure, streak, told, heartbeatFaults>>

OnFailure ==
  /\ ~onFailure /\ onFailure' = TRUE
  /\ UNCHANGED <<up, loopVars, missCount, streak, told, heartbeatFaults>>

-----------------------------------------------------------------------------
(***************************************************************************)
(* The loop.  The health check runs without the mutex, the count under it, *)
(* and the callback in the loop's own goroutine after it is released.      *)
(***************************************************************************)
Tick ==
  /\ pc = "wait" /\ pc' = "ping" /\ pos' = 1
  /\ UNCHANGED <<up, err, missCount, onFailure, streak, told, heartbeatFaults>>

Cancel ==
  /\ pc = "wait" /\ HeartbeatFault("cancel") /\ pc' = "stopped"
  /\ UNCHANGED <<up, pos, err, missCount, onFailure, streak, told>>

HealthCheck ==
  /\ pc = "ping" /\ pc' = "record"
  /\ \/ err' = ~up[Peer] /\ UNCHANGED heartbeatFaults
     \/ up[Peer] /\ HeartbeatFault("lost") /\ err' = TRUE
  /\ streak' = [streak EXCEPT ![Peer] = IF err' THEN Increment(@) ELSE 0]
  /\ UNCHANGED <<up, pos, missCount, onFailure, told>>

NextPeer ==
  IF pos < Len(PeerAddrs) THEN pc' = "ping" /\ pos' = pos + 1
                          ELSE pc' = "wait" /\ pos' = pos

M_CountedKept(n) == IF err THEN Increment(n) ELSE n

Counted(n) == IF err THEN Increment(n) ELSE 0

M_FailedAtOnce(n) == n = MissLimit

Failed(n) == n >= MissLimit

Record ==
  /\ pc = "record"
  /\ missCount' = [missCount EXCEPT ![Peer] = Counted(@)]
  /\ IF err /\ Failed(missCount'[Peer]) /\ onFailure
       THEN pc' = "callback" /\ UNCHANGED pos
       ELSE NextPeer
  /\ UNCHANGED <<up, err, onFailure, streak, told, heartbeatFaults>>

Callback ==
  /\ pc = "callback" /\ told' = told \cup {Peer}
  /\ NextPeer
  /\ UNCHANGED <<up, err, missCount, onFailure, streak, heartbeatFaults>>

HeartbeatInit ==
  /\ up = [p \in Peers |-> TRUE]
  /\ pc = "wait" /\ pos = 1 /\ err = FALSE
  /\ missCount = [p \in Peers |-> 0] /\ streak = [p \in Peers |-> 0]
  /\ onFailure = FALSE /\ told = {}
  /\ heartbeatFaults = HeartbeatFaults

Loop == Tick \/ HealthCheck \/ Record \/ Callback

\* The loop has been cancelled.
Idle == pc = "stopped" /\ UNCHANGED heartbeatVars

HeartbeatNext ==
  \/ \E p \in Peers : PeerDown(p) \/ PeerUp(p)
  \/ OnFailure \/ Cancel \/ Loop \/ Idle

HeartbeatSpec == HeartbeatInit /\ [][HeartbeatNext]_heartbeatVars

\* The ticker ticks, a health check returns (the client has a timeout) and the
\* callback is assumed to return.  No peer has to come back.
FairHeartbeatSpec == HeartbeatSpec /\ WF_heartbeatVars(Loop)

-----------------------------------------------------------------------------
(***************************************************************************)
(* Properties.                                                             *)
(***************************************************************************)

\* heartbeat.go: "When a peer misses `missLimit` consecutive heartbeats": a
\* peer is only reported after that many failed checks with no answered one
\* in between.
ReportedAfterLimit == pc = "callback" => streak[Peer] >= MissLimit

\* A peer that stays down is reported, also if the callback was registered
\* long after the limit was reached and however many other peers are down
\* with it, unless the monitor is cancelled.
DeadPeerReported ==
  \A p \in Peers : (~up[p] /\ onFailure) ~> (p \in told \/ up[p] \/ pc = "stopped")
=============================================================================
