\* Every wrapper; four bytes in frames of one or two, one byte
\* each way for a WebSocket and after a handshake; the connection holds less
\* than a frame, and an HTTP/2 window less
\* than what is written.
SPECIFICATION FairSpec
CONSTANTS
  Kinds = {"relay_tcp", "relay_udp", "relay_udp_reply", "ss", "otls",
           "otls_ticket", "otls_reply", "ws", "snappy", "ohttp", "ohttp_eager",
           "obfs_http", "obfs_tls", "h2"}
  MaxBytes = 4
  WsBytes = 1
  MaxChunk = 2
  Window = 3
  Capacity = 3
INVARIANTS ReadsSound
PROPERTIES  NobodyWaits AllDelivered
CHECK_DEADLOCK FALSE
