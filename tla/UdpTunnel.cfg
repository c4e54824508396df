SPECIFICATION RelaySpec
CONSTANTS
  Names <- MCNames
  Clients = {"c", "d"}
  Nobody = Nobody
  NoAddr = NoAddr
  Resolve <- MCResolve
  RelayAllows <- MCAllows
  HopAllows <- MCAllows
  Bypassed <- MCBypassed
  Kinds = {"forward", "ssu", "rudp", "associate"}
  Sends <- MCSends
  Replies <- MCReplies
  MaxSend = 2
  MaxReply = 2
  ChanCap = 1
  WireCap = 2
  MaxErrors = 1
INVARIANTS TunnelKept RelaysGuarded
PROPERTIES RelaysEnd
