CONSTANTS
  ReorderLen <- MCPassReorderLen
  PacketCount <- MCPacketCount
  SeqWidth <- MCSeqWidth
  SeqHighZeroed = FALSE
  MaxDisplacement <- MCPassDisplacement
  MaxDuplicates <- MCMaxDuplicates
  Blank = Blank
SPECIFICATION Spec
INVARIANTS
  TypeOK
  ReorderListSorted
  BoundedReorderDelay
PROPERTY
  DeliversInOrder
