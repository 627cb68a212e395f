------------------------- MODULE MCSessionReceiver -------------------------
(* receive_rtp_packet takes the reorder depth as an argument.  The main   *)
(* run uses depth 3 with packets overtaken by up to 2 later ones over a    *)
(* duplicating network: seven packets are enough for a packet to be       *)
(* overtaken, duplicated after it was handed over, and for the bound of    *)
(* BoundedReorderDelay (ReorderLen + MaxDisplacement - 1 = 4 later         *)
(* packets) to be reached.  A 2-bit sequence half stands for the 16-bit   *)
(* one; 2 x 2 bits do not wrap within seven packets.                       *)
(* The phantom run uses the depth 5 RoomUser passes.  The wrap run needs  *)
(* a half wider than the reorder depth (3 bits, wraps after 8 packets)    *)
(* and two packets past the wrap.                                          *)
EXTENDS SessionReceiver

MCReorderLen == 5
MCPassReorderLen == 3
MCPassDisplacement == 2
MCPacketCount == 7
MCSeqWidth == 2
MCWrapSeqWidth == 3
MCWrapPacketCount == 10
MCInOrder == 0
MCMaxDuplicates == 1
MCNoDuplicates == 0
=============================================================================
