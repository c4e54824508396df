SPECIFICATION FairSpec
CONSTANTS
  Handlers = {1, 2}
  FAIL_TIMEOUT = 2
  PING_TIMEOUT = 2
  PING_HOLD = 3
  PING_TTL = 5
  MaxSessions = 4
  Setups <- MCSetups
INVARIANTS MarksSound OneAtATime
PROPERTIES DialEnds
CHECK_DEADLOCK FALSE
