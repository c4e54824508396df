\* Two streams opened by the peer and one by this end, a backlog of one, the
\* keepalive task; a payload can be larger than the credit left.
SPECIFICATION Spec
CONSTANTS
  OwnSids   = {o1}
  PeerSids  = {p1, p2}
  MaxBuf    = 1
  MaxLen    = 2
  Backlog   = 1
  KeepAlive = TRUE
  MaxFrames = 2
SYMMETRY Symmetry
INVARIANTS  ReadersWake NoPayloadLost
CHECK_DEADLOCK FALSE
