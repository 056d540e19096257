SPECIFICATION Spec
CONSTANTS
  NoBlock = NoBlock
  NoConf = NoConf
  Pools <- MCPools
  Lower <- MCLower
  Requests <- TwoEnvironments
  Block <- MCBlock
  Recorded <- MCRecorded
  MaxFaults = 1
INVARIANTS
  OwnTraffic
