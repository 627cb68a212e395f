------------------------------ MODULE CodecBits ------------------------------
(***************************************************************************)
(* The bit-level readers of src/src/codec/codec_utils.cpp: u, Ue, Se,      *)
(* de_emulation_prevention and h264_decode_sps, and the ADTS helpers       *)
(* parse_adts_header, count_aac_frames and aac_find_frame, as operators    *)
(* over byte sequences, checked against a reference encoder.  Bit n of a   *)
(* buffer is buf[n / 8] & (0x80 >> (n % 8)), most significant bit first.   *)
(***************************************************************************)
EXTENDS CodecUtils

CONSTANTS
  AdtsLengths,   \* aac_frame_length values of the ADTS frames written
  MaxAacFrames   \* ADTS frames per buffer

ASSUME AdtsLengths \subseteq 7 .. 8191 /\ MaxAacFrames \in Nat \ {0}


Bit(buf, n) == (At(buf, n \div 8) \div 2 ^ (7 - (n % 8))) % 2

(* dwRet <<= 1; dwRet += bit, BitCount times from bit p. *)
RECURSIVE ReadBits(_, _, _, _)
ReadBits(n, buf, p, acc) ==
  IF n = 0 THEN acc ELSE ReadBits(n - 1, buf, p + 1, 2 * acc + Bit(buf, p))

(* u: the value of BitCount bits at nStartBit, and the advanced nStartBit. *)
u(BitCount, buf, nStartBit) ==
  [val |-> ReadBits(BitCount, buf, nStartBit, 0), next |-> nStartBit + BitCount]

(* The leading zeros counted while nStartBit < nLen * 8. *)
RECURSIVE ZeroNum(_, _, _)
ZeroNum(buf, nLen, p) ==
  IF p < nLen * 8 /\ Bit(buf, p) = 0 THEN 1 + ZeroNum(buf, nLen, p + 1) ELSE 0

(* Ue: nZeroNum zeros, the 1, nZeroNum bits; (1 << nZeroNum) - 1 + dwRet. *)
(* The inputs keep nZeroNum far below 31, where 1 << nZeroNum overflows. *)
Ue(buf, nLen, nStartBit) ==
  LET z == ZeroNum(buf, nLen, nStartBit) IN
  [val |-> 2 ^ z - 1 + ReadBits(z, buf, nStartBit + z + 1, 0), next |-> nStartBit + 2 * z + 1]

(* Se: ceil(k / 2), negated when k is even. *)
Se(buf, nLen, nStartBit) ==
  LET r == Ue(buf, nLen, nStartBit)
      m == (r.val + 1) \div 2
  IN [val |-> IF r.val % 2 = 0 THEN -m ELSE m, next |-> r.next]

(***************************************************************************)
(* de_emulation_prevention: for i below the size on entry minus 2, on 00  *)
(* 00 03 at i shift the bytes from i + 3 up to that size one place down   *)
(* (the last byte stays, stale) and decrement *buf_size; i then moves on  *)
(* to i + 1 whether or not a byte was removed.                            *)
(***************************************************************************)
KickOut(buf, k, n) == [x \in DOMAIN buf |-> IF k < x /\ x < n THEN buf[x + 1] ELSE buf[x]]

RECURSIVE DeEmulate(_, _, _, _)
DeEmulate(buf, size, i, n) ==
  IF i >= n - 2 THEN [buf |-> buf, size |-> size]
  ELSE IF At(buf, i) = 0 /\ At(buf, i + 1) = 0 /\ At(buf, i + 2) = 3
       THEN DeEmulate(KickOut(buf, i + 2, n), size - 1, i + 1, n)
       ELSE DeEmulate(buf, size, i + 1, n)

de_emulation_prevention(buf, size) == DeEmulate(buf, size, 0, size)

(* Discarded syntax elements: k ue(v) or se(v) in a row from bit p. *)
RECURSIVE SkipUe(_, _, _, _)
SkipUe(buf, nLen, k, p) == IF k = 0 THEN p ELSE SkipUe(buf, nLen, k - 1, Ue(buf, nLen, p).next)

(***************************************************************************)
(* h264_decode_sps: the syntax of seq_parameter_set_data as the code      *)
(* reads it, in stages that take the bit position and return the next.    *)
(* Elements the code reads and drops are skipped by their width; the      *)
(* values kept are the ones its branches and outputs use.                 *)
(***************************************************************************)

(* profile_idc 100, 110, 122 or 144: chroma_format_idc (and                *)
(* residual_colour_transform_flag for 3), the two bit depths,              *)
(* qpprime_y_zero_transform_bypass_flag, seq_scaling_matrix_present_flag   *)
(* and, when set, eight seq_scaling_list_present_flag bits.                *)
SpsHighProfile(b, n, p) ==
  LET cf == Ue(b, n, p)
      q  == SkipUe(b, n, 2, cf.next + (IF cf.val = 3 THEN 1 ELSE 0)) + 1
  IN q + 1 + (IF Bit(b, q) = 1 THEN 8 ELSE 0)

(* Type 1: delta_pic_order_always_zero_flag, two se(v), the cycle length   *)
(* and that many se(v) offsets.                                            *)
SpsPocCycle(b, n, p) ==
  LET RECURSIVE SkipSe(_, _)
      SkipSe(k, q) == IF k = 0 THEN q ELSE SkipSe(k - 1, Se(b, n, q).next)
      c == Ue(b, n, SkipSe(2, p + 1))
  IN SkipSe(c.val, c.next)

(* log2_max_frame_num_minus4, pic_order_cnt_type and its fields. *)
SpsPicOrder(b, n, p) ==
  LET poc == Ue(b, n, Ue(b, n, p).next)
  IN CASE poc.val = 0 -> Ue(b, n, poc.next).next
       [] poc.val = 1 -> SpsPocCycle(b, n, poc.next)
       [] OTHER       -> poc.next

(* Fault-injection variant: the height stored from the first ue(v). *)
SpsSizeSwapped(b, n, p) ==
  LET w == Ue(b, n, Ue(b, n, p).next + 1)
      h == Ue(b, n, w.next)
  IN [w |-> h.val, h |-> w.val, next |-> h.next]

(* num_ref_frames, gaps_in_frame_num_value_allowed_flag, then the picture *)
(* width and height in macroblocks (minus 1).                              *)
SpsSize(b, n, p) ==
  LET w == Ue(b, n, Ue(b, n, p).next + 1)
      h == Ue(b, n, w.next)
  IN [w |-> w.val, h |-> h.val, next |-> h.next]

(* frame_mbs_only_flag (mb_adaptive_frame_field_flag when clear),          *)
(* direct_8x8_inference_flag, frame_cropping_flag and four offsets.        *)
SpsCropping(b, n, p) ==
  LET q == p + 1 + (IF Bit(b, p) = 0 THEN 1 ELSE 0) + 1
  IN IF Bit(b, q) = 1 THEN SkipUe(b, n, 4, q + 1) ELSE q + 1

(* vui_parameter_present_flag and the VUI up to the timing info: fps is    *)
(* time_scale / (2 * num_units_in_tick) when present, else left as it was. *)
SpsVuiFps(b, n, p, fpsIn) ==
  LET v0 == p + 1
      v1 == v0 + 1 + (IF Bit(b, v0) = 1
                      THEN 8 + (IF ReadBits(8, b, v0 + 1, 0) = 255 THEN 32 ELSE 0) ELSE 0)
      v2 == v1 + 1 + Bit(b, v1)
      v3 == v2 + 1 + (IF Bit(b, v2) = 1 THEN 5 + (IF Bit(b, v2 + 5) = 1 THEN 24 ELSE 0) ELSE 0)
      v4 == IF Bit(b, v3) = 1 THEN SkipUe(b, n, 2, v3 + 1) ELSE v3 + 1
  IN IF Bit(b, p) = 1 /\ Bit(b, v4) = 1
     THEN ReadBits(32, b, v4 + 33, 0) \div (2 * ReadBits(32, b, v4 + 1, 0))
     ELSE fpsIn

(* Header byte, profile_idc, four constraint flags, reserved_zero_4bits,  *)
(* level_idc, seq_parameter_set_id; width, height and fps are written     *)
(* only for nal_unit_type 7.                                               *)
H264DecodeSps(data, size, fpsIn) ==
  LET d  == de_emulation_prevention(data, size)
      p1 == Ue(d.buf, d.size, 32).next
      p2 == IF ReadBits(8, d.buf, 8, 0) \in {100, 110, 122, 144}
            THEN SpsHighProfile(d.buf, d.size, p1) ELSE p1
      sz == SpsSize(d.buf, d.size, SpsPicOrder(d.buf, d.size, p2))
  IN IF ReadBits(5, d.buf, 3, 0) # 7 THEN [ok |-> FALSE, width |-> 0, height |-> 0, fps |-> fpsIn]
     ELSE [ok |-> TRUE, width |-> (sz.w + 1) * 16, height |-> (sz.h + 1) * 16,
           fps |-> SpsVuiFps(d.buf, d.size, SpsCropping(d.buf, d.size, sz.next), fpsIn)]

-----------------------------------------------------------------------------
(***************************************************************************)
(* ADTS.  parse_adts_header reads the fixed and variable header of seven  *)
(* bytes; the model keeps the fields the callers and the properties use.  *)
(***************************************************************************)

(* Fault-injection variant: the two high bits of the frame length, in     *)
(* data[3], left out.                                                      *)
ParseAdtsHeaderLow(data, p, data_len) ==
  IF data_len < 7 \/ At(data, p) # 255 \/ At(data, p + 1) \div 16 # 15 THEN [ok |-> FALSE]
  ELSE [ok |-> TRUE,
        profile |-> At(data, p + 2) \div 64,
        sampling_freq_index |-> (At(data, p + 2) \div 4) % 16,
        channel_cfg |-> (At(data, p + 2) % 2) * 4 + At(data, p + 3) \div 64,
        aac_frame_length |-> At(data, p + 4) * 8 + At(data, p + 5) \div 32]

(* The header at offset p; data_len bytes are available from there. *)
ParseAdtsHeader(data, p, data_len) ==
  IF data_len < 7 \/ At(data, p) # 255 \/ At(data, p + 1) \div 16 # 15 THEN [ok |-> FALSE]
  ELSE [ok |-> TRUE,
        profile |-> At(data, p + 2) \div 64,
        sampling_freq_index |-> (At(data, p + 2) \div 4) % 16,
        channel_cfg |-> (At(data, p + 2) % 2) * 4 + At(data, p + 3) \div 64,
        aac_frame_length |-> (At(data, p + 3) % 4) * 2048 + At(data, p + 4) * 8
                             + At(data, p + 5) \div 32]

(* count_aac_frames: while a whole header fits, count it and jump by its  *)
(* frame length; stop at the first position that is not a header.         *)
RECURSIVE CountAacFramesFrom(_, _, _)
CountAacFramesFrom(data, size, pos) ==
  IF pos + 7 > size THEN 0
  ELSE LET hd == ParseAdtsHeader(data, pos, 7) IN
       IF hd.ok THEN 1 + CountAacFramesFrom(data, size, pos + hd.aac_frame_length) ELSE 0

CountAacFrames(data, size) == CountAacFramesFrom(data, size, 0)

(* aac_find_frame: the first i < size - 1 with FF Fx at i, or NULL (-1). *)
AacFindFrame(data, size) ==
  LET hits == {i \in 0 .. (size - 2) : At(data, i) = 255 /\ At(data, i + 1) \div 16 = 15}
  IN IF hits = {} THEN -1 ELSE CHOOSE i \in hits : \A j \in hits : i <= j

-----------------------------------------------------------------------------
(***************************************************************************)
(* Reference encoders: the bits an H.264 encoder writes for an SPS, and    *)
(* the bytes an AAC encoder writes for an ADTS frame.                      *)
(***************************************************************************)

(* v as k bits, most significant first (v < 2^16). *)
Bin(v, k) == [i \in 1 .. k |-> IF k - i >= 16 THEN 0 ELSE (v \div 2 ^ (k - i)) % 2]

UeBits(v) ==
  LET L == CHOOSE L \in 0 .. 16 : 2 ^ L <= v + 1 /\ v + 1 < 2 ^ (L + 1)
  IN [i \in 1 .. L |-> 0] \o Bin(v + 1, L + 1)

SeBits(x) == UeBits(IF x > 0 THEN 2 * x - 1 ELSE -2 * x)

(* rbsp_trailing_bits, then the bits packed into bytes. *)
RbspBytes(bits) ==
  LET t == bits \o <<1>>
      s == t \o [i \in 1 .. ((8 - (Len(t) % 8)) % 8) |-> 0]
  IN [i \in 1 .. Len(s) \div 8 |-> FoldLeft(LAMBDA a, x : 2 * a + x, 0, SubSeq(s, 8 * i - 7, 8 * i))]

(* Emulation prevention: 03 before any byte <= 03 that follows 00 00. *)
RECURSIVE EscapeFrom(_, _)
EscapeFrom(s, z) ==
  IF s = <<>> THEN <<>>
  ELSE IF z >= 2 /\ Head(s) <= 3 THEN <<3>> \o EscapeFrom(s, 0)
  ELSE <<Head(s)>> \o EscapeFrom(Tail(s), IF Head(s) = 0 THEN z + 1 ELSE 0)

(* The VUI: aspect_ratio_idc (0: flag clear), overscan, video signal      *)
(* (0 none, 1 without, 2 with colour description), chroma location, and  *)
(* num_units_in_tick / time_scale (nu = 0: no timing info).               *)
NoVui == [present |-> FALSE]
VuiSet ==
  {NoVui,
   [present |-> TRUE, ar |-> 255, overscan |-> 1, video |-> 2, loc |-> 1, nu |-> 1001, ts |-> 60000],
   [present |-> TRUE, ar |-> 0, overscan |-> 0, video |-> 0, loc |-> 0, nu |-> 1, ts |-> 50],
   [present |-> TRUE, ar |-> 1, overscan |-> 0, video |-> 1, loc |-> 0, nu |-> 0, ts |-> 0]}

VuiBits(v) ==
  IF ~v.present THEN <<0>>
  ELSE <<1>>
       \o (IF v.ar = 0 THEN <<0>>
           ELSE <<1>> \o Bin(v.ar, 8) \o (IF v.ar = 255 THEN Bin(1, 16) \o Bin(1, 16) ELSE <<>>))
       \o (IF v.overscan = 1 THEN <<1, 1>> ELSE <<0>>)
       \o (CASE v.video = 0 -> <<0>>
             [] v.video = 1 -> <<1>> \o Bin(5, 3) \o <<0, 0>>
             [] OTHER       -> <<1>> \o Bin(5, 3) \o <<0, 1>> \o Bin(1, 8) \o Bin(1, 8) \o Bin(1, 8))
       \o (IF v.loc = 1 THEN <<1>> \o UeBits(0) \o UeBits(1) ELSE <<0>>)
       \o (IF v.nu = 0 THEN <<0>> ELSE <<1>> \o Bin(v.nu, 32) \o Bin(v.ts, 32) \o <<1>>)
       \o <<0, 0, 0, 0>>

(* An SPS NAL unit (header 0x67), baseline (66) or high (100) profile.     *)
(* A scaling matrix has 8 list flags, 12 with chroma_format_idc 3; a list *)
(* present is the shortest one, a delta_scale of -8 (use the default).    *)
(* SpsParams, the inputs of the codec run, has no list present and no     *)
(* 4:4:4 matrix, which the code misreads; SpsParamsAll has both.          *)
SpsParamsAll ==
  {p \in [profile : {66, 100}, chroma : {1, 3}, scaling : {0, 1}, lists : {0, 1},
          poc : {0, 1, 2}, cycle : {<<>>, <<-1, 2>>}, w : {19, 79}, h : {14, 67},
          fmo : {0, 1}, crop : {0, 1}, vui : VuiSet] :
     /\ p.profile = 66 => p.chroma = 1 /\ p.scaling = 0
     /\ p.scaling = 0 => p.lists = 0
     /\ p.poc # 1 => p.cycle = <<>>}

SpsParams ==
  {p \in SpsParamsAll : p.lists = 0 /\ ~(p.chroma = 3 /\ p.scaling = 1)}

ScalingFlags(p) ==
  (IF p.lists = 1 THEN <<1>> \o SeBits(-8) ELSE <<0>>)
  \o Bin(0, (IF p.chroma = 3 THEN 12 ELSE 8) - 1)

SpsBits(p) ==
  Bin(103, 8) \o Bin(p.profile, 8) \o Bin(0, 8) \o Bin(30, 8) \o UeBits(0)
  \o (IF p.profile = 100
      THEN UeBits(p.chroma) \o (IF p.chroma = 3 THEN <<0>> ELSE <<>>) \o UeBits(0) \o UeBits(0)
           \o <<0, p.scaling>> \o (IF p.scaling = 1 THEN ScalingFlags(p) ELSE <<>>)
      ELSE <<>>)
  \o UeBits(0) \o UeBits(p.poc)
  \o (CASE p.poc = 0 -> UeBits(2)
        [] p.poc = 1 -> <<0>> \o SeBits(-1) \o SeBits(1) \o UeBits(Len(p.cycle))
                        \o FlattenSeq([i \in DOMAIN p.cycle |-> SeBits(p.cycle[i])])
        [] OTHER -> <<>>)
  \o UeBits(1) \o <<0>> \o UeBits(p.w) \o UeBits(p.h) \o <<p.fmo>>
  \o (IF p.fmo = 0 THEN <<0>> ELSE <<>>) \o <<1, p.crop>>
  \o (IF p.crop = 1 THEN UeBits(0) \o UeBits(0) \o UeBits(0) \o UeBits(4) ELSE <<>>)
  \o VuiBits(p.vui)

SpsNal(p) == EscapeFrom(RbspBytes(SpsBits(p)), 0)

(* An ADTS frame: MPEG-4, no CRC, then payload bytes of 0xFF, which a     *)
(* byte-wise search for the sync word would mistake for headers.          *)
AdtsFrames == [len : AdtsLengths, profile : {1}, sf : {4}, ch : {2, 7}]

AdtsFrame(f) ==
  <<255, 241, f.profile * 64 + f.sf * 4 + f.ch \div 4, (f.ch % 4) * 64 + f.len \div 2048,
    (f.len \div 8) % 256, (f.len % 8) * 32 + 31, 252>>
  \o [i \in 1 .. (f.len - 7) |-> 255]

(* Bytes before the first frame: none, or bytes that hold no sync word. *)
AdtsJunk == {<<>>, <<0>>, <<255, 0>>}

====
