CONSTANTS
  ReorderLen <- MCReorderLen
  PacketCount <- MCWrapPacketCount
  SeqWidth <- MCWrapSeqWidth
  SeqHighZeroed = TRUE
  MaxDisplacement <- MCInOrder
  MaxDuplicates <- MCNoDuplicates
  Blank = Blank
SPECIFICATION Spec
INVARIANT
  BoundedReorderDelay
