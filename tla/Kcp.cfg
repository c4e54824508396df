\* Groups of two and one parity shard; the encoder starts at the beginning or one
\* group before its numbers wrap.
SPECIFICATION FairSpec
CONSTANTS
  DataShards = 2
  ParityShards = 1
  Width = 32
  Bounds <- Histories
  SndWnd = 2
  DeadLink = 2
  AppCap = 1
  InCap = 1
  ClosedCap = 1
  Ciphers = {"none", "xor", "salsa20", "aes", "tea"}
  MaxBody = 6
  Configs <- MCConfigs
  Nodes <- MCNodes
  Keys = {"k1", "k2"}
  MaxArrivals = 3
INVARIANTS FecSound PacketsSound
PROPERTIES NewcomerStays 
CHECK_DEADLOCK FALSE
