CONSTANTS
  ReorderLen <- MCReorderLen
  PacketCount <- MCPacketCount
  SeqWidth <- MCSeqWidth
  SeqHighZeroed = FALSE
  MaxDisplacement <- MCReorderLen
  MaxDuplicates <- MCNoDuplicates
  Blank = Blank
SPECIFICATION Spec

INVARIANT
  NoPhantomOrDroppedPacket
