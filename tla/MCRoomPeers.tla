---------------------------- MODULE MCRoomPeers ----------------------------
(***************************************************************************)
(* Bounds for RoomPeers.  Two peers make the polling thread walk a map of *)
(* more than one entry while the other peer is edited or initialized.     *)
(* The reorder depth is a parameter of receive_rtp_packet; depth 1 lets a *)
(* packet come out after two polls, so the assembler step is reached      *)
(* with a short history.  Two receivers per slot let a receiver whose     *)
(* bind failed be replaced by a second one.  A pinhole every second pass  *)
(* gives passes with and without nat_pinhole.                             *)
(***************************************************************************)
EXTENDS RoomPeers

MCPeers == {1, 2}
MCReorderLen == 1
MCMaxInits == 2
MCPinholeEvery == 2

====
