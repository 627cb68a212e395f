CONSTANTS
  Peers <- MCPeers
  ReorderLen <- MCReorderLen
  MaxInits <- MCMaxInits
  PinholeEvery <- MCPinholeEvery
SPECIFICATION Spec
INVARIANTS
  TypeOK
  PollVisitsLiveUsers
PROPERTIES
  TeardownCompletes
