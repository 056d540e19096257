SPECIFICATION RetrySpec
CONSTANTS
  NoBlock = NoBlock
  NoConf = NoConf
  Pools <- MCPools
  Lower <- MCLower
  Requests <- TwoProjects
  Block <- MCBlock
  Recorded <- MCRecorded
  MaxFaults = 2
INVARIANTS
  TypeOK
  OwnTraffic
PROPERTIES
  FinishedRunMovesAll
  NoOneShutOut
