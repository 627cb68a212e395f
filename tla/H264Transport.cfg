CONSTANTS
  PayloadSize <- MCPayloadSize
  RecvPayloadSize <- MCRecvPayloadSize
  AccessUnits <- MCAccessUnits
  MaxFrames <- MCMaxFrames
  Lossy = TRUE
SPECIFICATION Spec
INVARIANTS
  FrameIntactAfterCleanRun
