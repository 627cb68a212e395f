--------------------------- MODULE H264Transport ---------------------------
(***************************************************************************)
(* One H.264 video stream from a peer's RTPSessionVideo::send_h264_data to *)
(* the decoder callback of RoomUser::receive_video on this client.         *)
(*                                                                         *)
(* Sender: RTPH264PacketBuilder turns one access unit (a sequence of NAL   *)
(* unit lengths) into single-NAL, STAP-A and FU-A payloads                 *)
(* (receive_rtp_packets, build_packet, build_fua_packet); send_h264_data   *)
(* sets the marker on the last one and sends them in order.                *)
(* Receiver: the datagram is read into a 2048-byte buffer (recvfrom        *)
(* truncates a longer one), passed in send order by the reorder list (see  *)
(* SessionReceiver), rebuilt by RTPH264FrameAssembler::push_packet and     *)
(* accumulated by receive_video until a packet with the marker arrives.    *)
(*                                                                         *)
(* Bytes are abstracted to runs: Run(f, j, a, b) stands for bytes a..b of  *)
(* NAL unit j of the f-th access unit sent; byte 1 is the NAL header.      *)
(* Lengths keep their real values.  Start codes are one token; whether     *)
(* the assembler writes 3 or 4 bytes is not modelled.                      *)
(***************************************************************************)
EXTENDS Naturals, Sequences, SequencesExt

CONSTANTS
  PayloadSize,      \* RTP_PAYLOAD_SIZE = 1400 - 24
  RecvPayloadSize,  \* RTP_RECV_BUFFER_SIZE 2048 minus the 24 header bytes
  AccessUnits,      \* the access units the encoder may hand over
  MaxFrames,        \* access units sent in one behaviour
  Lossy             \* whether the network (or a failed sendto) drops packets

ASSUME PayloadSize \in Nat /\ RecvPayloadSize \in Nat /\ MaxFrames \in Nat
ASSUME AccessUnits \subseteq Seq(Nat \ {0}) /\ Lossy \in BOOLEAN

(* One payload or frame token; unused fields are 0. *)
Tok(t, f, j, a, b) == [t |-> t, au |-> f, nal |-> j, from |-> a, to |-> b]
Run(f, j, a, b) == Tok("run", f, j, a, b)
StapHeader == Tok("stap", 0, 0, 0, 0)                 \* the 0x18 byte
SizeField(n) == Tok("size", 0, 0, 0, n)                \* 16-bit length
FuHeader(pos, f, j) == Tok(pos, f, j, 0, 0)            \* indicator + header
StartCode == Tok("sc", 0, 0, 0, 0)
FuKinds == {"fu_start", "fu_mid", "fu_end"}

Width(x) ==
  CASE x.t = "run"  -> x.to - x.from + 1
    [] x.t = "stap" -> 1
    [] x.t = "sc"   -> 4
    [] x.t = "cut"  -> x.to
    [] OTHER        -> 2

BytesOf(s) == FoldLeft(LAMBDA acc, x : acc + Width(x), 0, s)

(***************************************************************************)
(* Sender.                                                                *)
(***************************************************************************)

(* build_fua_packet: the NAL header byte is dropped; each fragment carries *)
(* FU indicator and header and at most RTP_PAYLOAD_SIZE - 2 bytes.        *)
RECURSIVE BuildFuaPacket(_, _, _, _, _)
BuildFuaPacket(f, j, L, off, isStart) ==
  LET left == L - off + 1
      copy == IF PayloadSize - 2 < left THEN PayloadSize - 2 ELSE left
      pos  == IF isStart THEN "fu_start" ELSE IF copy = left THEN "fu_end" ELSE "fu_mid"
  IN <<<<FuHeader(pos, f, j), Run(f, j, off, off + copy - 1)>>>>
     \o (IF copy = left THEN <<>> ELSE BuildFuaPacket(f, j, L, off + copy, FALSE))

(* build_packet: one NAL verbatim, or a STAP-A of size-prefixed NALs.     *)
(* tmp holds <<index, length>> pairs.                                     *)
BuildPacket(f, tmp) ==
  IF Len(tmp) = 1 THEN <<Run(f, tmp[1][1], 1, tmp[1][2])>>
  ELSE <<StapHeader>> \o
       FlattenSeq([i \in 1 .. Len(tmp) |->
                     <<SizeField(tmp[i][2]), Run(f, tmp[i][1], 1, tmp[i][2])>>])

Flush(f, tmp) == IF tmp = <<>> THEN <<>> ELSE <<BuildPacket(f, tmp)>>

(* receive_rtp_packets: walk the NAL units of one access unit with the    *)
(* pending run tmp and its byte count totalLen.                           *)
RECURSIVE ReceiveRtpPackets(_, _, _, _, _)
ReceiveRtpPackets(f, au, j, tmp, totalLen) ==
  IF j > Len(au) THEN Flush(f, tmp)
  ELSE LET L == au[j] IN
    IF L > PayloadSize
    THEN Flush(f, tmp) \o BuildFuaPacket(f, j, L, 2, TRUE)
           \o ReceiveRtpPackets(f, au, j + 1, <<>>, IF tmp = <<>> THEN totalLen ELSE 0)
    ELSE IF totalLen < PayloadSize /\ PayloadSize < totalLen + L
         THEN Flush(f, tmp) \o ReceiveRtpPackets(f, au, j + 1, <<<<j, L>>>>, L)
         ELSE ReceiveRtpPackets(f, au, j + 1, Append(tmp, <<j, L>>), totalLen + L)

(* send_h264_data: the marker goes on the last packet of the unit. *)
SendPackets(f, au) ==
  LET p == ReceiveRtpPackets(f, au, 1, <<>>, 0)
  IN [i \in 1 .. Len(p) |-> [payload |-> p[i], marker |-> (i = Len(p)), au |-> f]]

(* recvfrom into the 2048-byte buffer keeps the first bytes only. *)
RECURSIVE Truncate(_, _)
Truncate(s, n) ==
  IF s = <<>> \/ n = 0 THEN <<>>
  ELSE IF Width(Head(s)) <= n THEN <<Head(s)>> \o Truncate(Tail(s), n - Width(Head(s)))
  ELSE IF Head(s).t = "run"
       THEN <<[Head(s) EXCEPT !.to = Head(s).from + n - 1]>>
       ELSE <<Tok("cut", 0, 0, 0, n)>>

(***************************************************************************)
(* Receiver: RTPH264FrameAssembler.  Each operator returns the frame-     *)
(* ready flag and the new content of m_buffer (m_buffer_used_len bytes).  *)
(***************************************************************************)

(* get_stapa_frame: from an empty buffer, read a size and that many bytes *)
(* while more than 2 bytes are left; a size beyond the data is invalid.   *)
RECURSIVE GetStapaFrame(_, _)
GetStapaFrame(s, acc) ==
  IF BytesOf(s) <= 2 THEN [ready |-> TRUE, buf |-> acc]
  ELSE IF Head(s).to <= BytesOf(Tail(s))
       THEN GetStapaFrame(Tail(Tail(s)), acc \o <<StartCode, Head(Tail(s))>>)
       ELSE [ready |-> FALSE, buf |-> <<>>]

(* get_fua_frame: a start fragment rebuilds the NAL header from indicator *)
(* and header and restarts the buffer; middle and end fragments append;   *)
(* only the end fragment reports a frame.                                 *)
GetFuaFrame(buf, s) ==
  IF BytesOf(s) < 3 THEN [ready |-> FALSE, buf |-> <<>>]
  ELSE CASE Head(s).t = "fu_start" ->
              [ready |-> FALSE,
               buf |-> <<StartCode, Run(Head(s).au, Head(s).nal, 1, 1)>> \o Tail(s)]
         [] Head(s).t = "fu_end" -> [ready |-> TRUE, buf |-> buf \o Tail(s)]
         [] OTHER -> [ready |-> FALSE, buf |-> buf \o Tail(s)]

(* push_packet: dispatch on the type of the first payload byte; a single  *)
(* NAL unit replaces the buffer.                                          *)
PushPacket(buf, s) ==
  CASE BytesOf(s) = 0      -> [ready |-> FALSE, buf |-> buf]
    [] Head(s).t = "run"   -> [ready |-> TRUE, buf |-> <<StartCode>> \o s]
    [] Head(s).t = "stap"  -> GetStapaFrame(Tail(s), <<>>)
    [] Head(s).t \in FuKinds -> GetFuaFrame(buf, s)
    [] OTHER               -> [ready |-> FALSE, buf |-> buf]

VARIABLES
  sentAUs,    \* access units handed to send_h264_data, in order
  chan,       \* packets sent and not yet handed to receive_video, in order
  lost,       \* ghost: access units with a packet that never reached it
  polled,     \* whether the reorder list has had its first poll
  asmBuf,     \* RTPH264FrameAssembler m_buffer[0 .. m_buffer_used_len)
  userBuf,    \* RoomUser m_h264_rtp_buffer[0 .. m_h264_rtp_buffer_used_len)
  delivered   \* frames passed to the h264 callback, with the unit of the
              \* packet carrying the marker

vars == <<sentAUs, chan, lost, polled, asmBuf, userBuf, delivered>>

Init ==
  /\ sentAUs = <<>>
  /\ chan = <<>>
  /\ lost = {}
  /\ polled = FALSE
  /\ asmBuf = <<>>
  /\ userBuf = <<>>
  /\ delivered = <<>>

(* The producer thread calls send_h264_data with one access unit. *)
SendH264Data ==
  /\ Len(sentAUs) < MaxFrames
  /\ \E au \in AccessUnits :
       /\ sentAUs' = Append(sentAUs, au)
       /\ chan' = chan \o SendPackets(Len(sentAUs) + 1, au)
  /\ UNCHANGED <<lost, polled, asmBuf, userBuf, delivered>>

(* A packet is dropped by the network, or sendto failed for it and        *)
(* send_h264_data returned before sending the rest of the unit.           *)
LosePacket(i) ==
  /\ Lossy
  /\ i \in 1 .. Len(chan)
  /\ lost' = lost \cup {chan[i].au}
  /\ chan' = RemoveAt(chan, i)
  /\ UNCHANGED <<sentAUs, polled, asmBuf, userBuf, delivered>>

(* The first receive_rtp_packet on the empty reorder list pushes an       *)
(* unparsed packet and discards a datagram that was already waiting; the  *)
(* unparsed packet later fails push_packet (no payload) and changes       *)
(* nothing.                                                               *)
FirstPoll ==
  /\ ~polled
  /\ polled' = TRUE
  /\ IF chan = <<>> THEN UNCHANGED <<chan, lost>>
     ELSE /\ chan' = Tail(chan)
          /\ lost' = lost \cup {Head(chan).au}
  /\ UNCHANGED <<sentAUs, asmBuf, userBuf, delivered>>

(* Fault-injection variant: the accumulation is not reset after the      *)
(* callback.                                                              *)
ReceiveVideoNoReset ==
  /\ polled
  /\ chan # <<>>
  /\ LET pkt == Head(chan)
         r   == PushPacket(asmBuf, Truncate(pkt.payload, RecvPayloadSize))
     IN /\ asmBuf' = r.buf
        /\ IF r.ready /\ pkt.marker
           THEN /\ delivered' = Append(delivered, [au |-> pkt.au, data |-> userBuf \o r.buf])
                /\ userBuf' = userBuf \o r.buf
           ELSE /\ userBuf' = IF r.ready THEN userBuf \o r.buf ELSE userBuf
                /\ UNCHANGED delivered
  /\ chan' = Tail(chan)
  /\ UNCHANGED <<sentAUs, lost, polled>>

(***************************************************************************)
(* RoomUser::receive_video with a packet from the reorder list: push it   *)
(* into the assembler; on frame-ready append the assembler's bytes to the *)
(* accumulation buffer; on the marker hand the accumulation to the        *)
(* callback and reset it.                                                 *)
(***************************************************************************)
ReceiveVideo ==
  /\ polled
  /\ chan # <<>>
  /\ LET pkt == Head(chan)
         r   == PushPacket(asmBuf, Truncate(pkt.payload, RecvPayloadSize))
     IN /\ asmBuf' = r.buf
        /\ IF r.ready /\ pkt.marker
           THEN /\ delivered' = Append(delivered, [au |-> pkt.au, data |-> userBuf \o r.buf])
                /\ userBuf' = <<>>
           ELSE /\ userBuf' = IF r.ready THEN userBuf \o r.buf ELSE userBuf
                /\ UNCHANGED delivered
  /\ chan' = Tail(chan)
  /\ UNCHANGED <<sentAUs, lost, polled>>

(* A poll tick with nothing to hand over: receive_rtp_packet returns NULL. *)
IdlePoll ==
  /\ polled
  /\ chan = <<>>
  /\ UNCHANGED vars

Next ==
  \/ SendH264Data
  \/ FirstPoll
  \/ ReceiveVideo
  \/ IdlePoll
  \/ \E i \in 1 .. Len(chan) : LosePacket(i)

Spec == Init /\ [][Next]_vars

-----------------------------------------------------------------------------
(***************************************************************************)
(* Properties.                                                            *)
(***************************************************************************)

(* Adjacent runs of consecutive bytes of one NAL unit read as one run. *)
RECURSIVE Merged(_)
Merged(s) ==
  IF Len(s) < 2 THEN s
  ELSE IF /\ s[1].t = "run" /\ s[2].t = "run"
          /\ s[1].au = s[2].au /\ s[1].nal = s[2].nal
          /\ s[2].from = s[1].to + 1
       THEN Merged(<<[s[1] EXCEPT !.to = s[2].to]>> \o Tail(Tail(s)))
       ELSE <<s[1]>> \o Merged(Tail(s))

(* The Annex-B byte stream of the f-th access unit sent. *)
AnnexB(f) ==
  FlattenSeq([j \in 1 .. Len(sentAUs[f]) |-> <<StartCode, Run(f, j, 1, sentAUs[f][j])>>])

(* NAL unit bytes a payload carries (spec 4.2 counts a run by its NAL     *)
(* units, without the STAP-A header and size fields).                      *)
NalBytes(payload) == BytesOf(SelectSeq(payload, LAMBDA x : x.t = "run"))

(* Every packet carries at most RTP_PAYLOAD_SIZE bytes of NAL units (spec *)
(* 4.2: a run of small NAL units is flushed whenever adding the next      *)
(* would exceed the budget): receive_rtp_packets flushes only while the   *)
(* run is below the budget, so a run that reaches it exactly takes the     *)
(* next NAL unit as well.                                                 *)
RunWithinBudget ==
  \A i \in 1 .. Len(chan) : NalBytes(chan[i].payload) <= PayloadSize

(* A frame the callback receives for an access unit none of whose        *)
(* packets went missing is exactly that unit's Annex-B stream (spec 6:    *)
(* on_h264 once per completed, marker-terminated access unit).            *)
FrameIntactUnlessLost ==
  \A i \in 1 .. Len(delivered) :
    delivered[i].au \notin lost => Merged(delivered[i].data) = AnnexB(delivered[i].au)

(* Under loss, a frame is still exact when nothing went missing from its  *)
(* own unit nor from any unit sent since the previous frame was handed    *)
(* over: the reset after each callback and the restart of the assembler   *)
(* on every start fragment, STAP-A and single NAL confine the damage.     *)
FrameIntactAfterCleanRun ==
  \A i \in 1 .. Len(delivered) :
    LET prev == IF i = 1 THEN 0 ELSE delivered[i - 1].au
    IN ((prev + 1) .. delivered[i].au) \cap lost = {} =>
         Merged(delivered[i].data) = AnnexB(delivered[i].au)

====
