SPECIFICATION FairSpec
CONSTANTS
  Setups <- MCSetups
  Alphabet <- MCAlphabet
  MaxText = 5
  Files <- MCFiles
INVARIANTS DrainSound  TextsRead
PROPERTIES ServersLive
CHECK_DEADLOCK FALSE
