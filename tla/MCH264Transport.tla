-------------------------- MODULE MCH264Transport --------------------------
(* The real budgets: RTP_PAYLOAD_SIZE = 1376, and 2048 - 24 payload bytes *)
(* fit the receive buffer.  The access units are the kinds an encoder     *)
(* produces: an IDR unit (SPS 20, PPS 8, a 3000-byte slice: a STAP-A and  *)
(* three FU-A fragments), a P unit of one 2000-byte slice (two FU-A),    *)
(* and a unit of two 700-byte slices (two single-NAL packets).            *)
(* The boundary set adds a unit whose run reaches exactly 1376 bytes.     *)
(* Three units let a damaged unit be followed by a clean one.             *)
EXTENDS H264Transport

MCPayloadSize == 1376
MCRecvPayloadSize == 2048 - 24
MCAccessUnits == {<<20, 8, 3000>>, <<2000>>, <<700, 700>>}
MCBoundaryAccessUnits == {<<20, 1376, 1000>>, <<1000>>}
MCMaxFrames == 3
====
