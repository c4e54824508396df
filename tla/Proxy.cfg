SPECIFICATION FairSpec
CONSTANTS
  Routes <- MCRoutes
  Names <- MCNames
  Ports <- MCPorts
  Rests <- MCRests
  Texts <- MCTexts
  Globs <- MCGlobs
  Words <- MCWords
  Rules <- MCRules
  Patterns <- MCPatterns
  Tables <- MCTables
  Hosts <- MCHosts
  Tickets <- MCTickets
  Heads <- MCHeads
  Resists <- MCResists
  Days <- MCDays
INVARIANTS TunnelExact   
 
CHECK_DEADLOCK FALSE
