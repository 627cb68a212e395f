CONSTANTS
  Conns = {c1, c2}
  NULL = NULL
  MaxFiles = 3
  MaxLines = 1
  ScanLen = 11
  MaxMarks = 4
  MaxBody = 2
  MaxNals = 2
  AdtsLengths <- MCAdtsLengths
  MaxAacFrames = 2
  Letters = {"a", "n"}
SPECIFICATION Spec
INVARIANTS
  StartCodeScanExact
  NalSplitRecoversUnits
  SpsDecodedExactly
  AacFramesCounted
  StringScansLeftToRight
  JsonPlainStringRoundTrip
  JsonDocumentRoundTrip
  JsonBlanksIgnored
  
  LiveConnectionTracked
PROPERTIES
  Reconnects
CHECK_DEADLOCK FALSE
