SPECIFICATION FairHeartbeatSpec
CONSTANTS
  p1 = p1 p2 = p2
  PeerAddrs <- MCPeerAddrs
  MissLimit = 3
  HeartbeatFaults <- Trouble
INVARIANTS ReportedAfterLimit
PROPERTIES DeadPeerReported
