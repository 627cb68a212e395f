CONSTANTS
  PortStart <- MCPortStart
  PortEnd <- MCPortEnd
  NoPort = NoPort
SPECIFICATION Spec
INVARIANTS
  TypeOK
  PoolPartition
