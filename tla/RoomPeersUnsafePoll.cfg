CONSTANTS
  Peers <- MCPeers
  ReorderLen <- MCReorderLen
  MaxInits <- MCMaxInits
  PinholeEvery <- MCPinholeEvery
SPECIFICATION Spec
INVARIANT
  PolledObjectsLive
