SPECIFICATION FairSpec
CONSTANTS
  Resolvers = {"r"}
  Exchangers = {"x"}
  Servers = {"s1", "s2", "s3"}
  Named <- MCNamed
  NoTtl = NoTtl
  NoItem = NoItem
  NoServer = NoServer
  Answers <- MCAnswers
  Histories <- MCHistories
  Requests <- MCRequests
  Messages <- MCMessages
  Wire <- MCWire
  Values <- MCValues
  Bad = Bad
  OptTtl = 0
  OptNeg = FALSE
  OptPrefer = ""
  MaxNow = 1
  MaxCalls = 1
INVARIANTS   CodecKept
PROPERTIES ResolverLive
