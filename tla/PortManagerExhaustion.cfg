CONSTANTS
  PortStart <- MCPortStart
  PortEnd <- MCPortEnd
  NoPort = NoPort
SPECIFICATION Spec
PROPERTY
  GetFailsOnlyWhenExhausted
