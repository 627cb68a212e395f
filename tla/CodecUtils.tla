----------------------------- MODULE CodecUtils -----------------------------
(***************************************************************************)
(* The byte-stream scanners of src/src/codec/codec_utils.cpp and the NAL   *)
(* split of RTPH264PacketBuilder::send_data that uses them, as operators   *)
(* over byte sequences, each checked against a reference definition over   *)
(* bounded inputs.                                                         *)
(*                                                                         *)
(* A buffer is a sequence of byte values; At(b, i) is *(start + i) for the *)
(* pointer to its first byte, so offsets are 0-based.  The scanner reads   *)
(* aligned 32-bit words; al is the address of the first byte modulo 4,    *)
(* which the caller does not control, so every value is checked.  Words    *)
(* are read little-endian, as on the x86 and ARM targets.                  *)
(***************************************************************************)
EXTENDS Integers, Sequences, FiniteSets, SequencesExt

CONSTANTS
  ScanLen,    \* bytes of the buffers the scanner is checked on
  MaxMarks,   \* of which at most this many are 00 or 01, the rest 0x80
  MaxBody,    \* NAL payload bytes after the header
  MaxNals     \* NAL units per access unit

ASSUME ScanLen \in Nat /\ MaxMarks \in Nat /\ MaxBody \in Nat /\ MaxNals \in Nat \ {0}

At(b, i) == b[i + 1]

(* 00 00 01 at offset p. *)
IsStartCode(b, p) == At(b, p) = 0 /\ At(b, p + 1) = 0 /\ At(b, p + 2) = 1

(***************************************************************************)
(* The zero-byte test of the word loop, (x - 0x01010101) & (~x) &         *)
(* 0x80808080 on the little-endian uint32_t x read at start + p, computed *)
(* byte by byte: byte k of the difference is byte k of x minus 1 minus    *)
(* the borrow into it, and a borrow reaches byte k when a lower byte j is *)
(* 00 and every byte between them is at most 01; the borrow out of byte  *)
(* 3 is lost.  The test is non-zero when some byte has bit 7 set in the   *)
(* difference and clear in x.                                             *)
(***************************************************************************)
Borrow(b, p, k) ==
  IF \E j \in 0 .. (k - 1) : At(b, p + j) = 0 /\ \A m \in (j + 1) .. (k - 1) : At(b, p + m) <= 1
  THEN 1 ELSE 0

DiffByte(b, p, k) == (At(b, p + k) - 1 - Borrow(b, p, k)) % 256

HasZeroByte(b, p) == \E k \in 0 .. 3 : DiffByte(b, p, k) >= 128 /\ At(b, p + k) < 128

(* The least element of a set of positions, or none. *)
First(S, none) == IF S = {} THEN none ELSE CHOOSE x \in S : \A y \in S : x <= y

(***************************************************************************)
(* AVCFindStartCodeInternal.  The first loop checks byte by byte up to    *)
(* the next aligned address, the second a word at a time, looking at the  *)
(* four offsets of a word that contains a zero byte, the third byte by    *)
(* byte again for the last bytes.  end is decremented by 3 twice and      *)
(* restored by 3 once; the function returns end when nothing is found.    *)
(* Each loop returns at its first hit, or leaves start where it stopped.  *)
(***************************************************************************)
HeadLoop(b, p, a, e) ==
  LET last == IF a < e THEN a ELSE e
      hit  == First({q \in p .. (last - 1) : IsStartCode(b, q)}, -1)
  IN IF hit >= 0 THEN [found |-> TRUE, p |-> hit]
     ELSE [found |-> FALSE, p |-> IF p < last THEN last ELSE p]

(* Fault-injection variant: the checks of offsets 2 and 3 left out. *)
WordHitFirstHalf(b, p) ==
  LET s(i) == At(b, p + i) IN
  IF ~HasZeroByte(b, p) THEN -1
  ELSE IF s(1) = 0 /\ s(0) = 0 /\ s(2) = 1 THEN p
  ELSE IF s(1) = 0 /\ s(2) = 0 /\ s(3) = 1 THEN p + 1
  ELSE -1

(* The body of the word loop: the offset found in the word at p, or -1. *)
WordHit(b, p) ==
  LET s(i) == At(b, p + i) IN
  IF ~HasZeroByte(b, p) THEN -1
  ELSE IF s(1) = 0 /\ s(0) = 0 /\ s(2) = 1 THEN p
  ELSE IF s(1) = 0 /\ s(2) = 0 /\ s(3) = 1 THEN p + 1
  ELSE IF s(3) = 0 /\ s(2) = 0 /\ s(4) = 1 THEN p + 2
  ELSE IF s(3) = 0 /\ s(4) = 0 /\ s(5) = 1 THEN p + 3
  ELSE -1

(* The words visited are p, p + 4, ... below e. *)
WordLoop(b, p, e) ==
  LET words == {q \in p .. (e - 1) : (q - p) % 4 = 0}
      w     == First({q \in words : WordHit(b, q) >= 0}, -1)
  IN IF w >= 0 THEN [found |-> TRUE, p |-> WordHit(b, w)]
     ELSE [found |-> FALSE, p |-> p + 4 * Cardinality(words)]

TailLoop(b, p, e) == First({q \in p .. (e - 1) : IsStartCode(b, q)}, e + 3)

AVCFindStartCodeInternal(b, start, end, al) ==
  LET a  == start + 4 - ((al + start) % 4)
      r1 == HeadLoop(b, start, a, end - 3)
      r2 == WordLoop(b, r1.p, end - 6)
  IN IF r1.found THEN r1.p
     ELSE IF r2.found THEN r2.p
     ELSE TailLoop(b, r2.p, end - 3)

(* Fault-injection variant: the zero byte of a 4-byte start code left    *)
(* with the bytes before it.                                              *)
AvcFindStartCodeThreeBytes(b, start, end, al) ==
  AVCFindStartCodeInternal(b, start, end, al)

(* avc_find_start_code: step back onto the zero of a 00 00 00 01. *)
AvcFindStartCode(b, start, end, al) ==
  LET pos == AVCFindStartCodeInternal(b, start, end, al)
  IN IF start < pos /\ pos < end /\ At(b, pos - 1) = 0 THEN pos - 1 ELSE pos

-----------------------------------------------------------------------------
(***************************************************************************)
(* The NAL walk shared by avc_find_key_frame, avc_find_sps_pps_idr,       *)
(* count_avc_key_frames and count_frames: skip the zeros and the 01 of a  *)
(* start code (while (nalStart < end && !*(nalStart++))), stop at end,    *)
(* read the type from the header byte, find the next start code.          *)
(***************************************************************************)
RECURSIVE SkipZeros(_, _, _)
SkipZeros(b, p, end) ==
  IF p < end THEN IF At(b, p) = 0 THEN SkipZeros(b, p + 1, end) ELSE p + 1
  ELSE p

RECURSIVE NalTypesFrom(_, _, _)
NalTypesFrom(b, p, al) ==
  LET q == SkipZeros(b, p, Len(b)) IN
  IF q = Len(b) THEN <<>>
  ELSE <<At(b, q) % 32>> \o NalTypesFrom(b, AvcFindStartCode(b, q, Len(b), al), al)

NalTypes(b, al) == NalTypesFrom(b, AvcFindStartCode(b, 0, Len(b), al), al)

CountFrames(b, al) == Len(NalTypes(b, al))

CountAvcKeyFrames(b, al) ==
  LET t == NalTypes(b, al) IN Cardinality({i \in DOMAIN t : t[i] = 5})

(* The first slice decides: IDR (5) or non-IDR (1). *)
AvcFindKeyFrame(b, al) ==
  LET t == NalTypes(b, al)
      s == {i \in DOMAIN t : t[i] \in {1, 5}}
  IN s # {} /\ t[CHOOSE i \in s : \A j \in s : i <= j] = 5

AvcFindSpsPpsIdr(b, al) ==
  LET t == NalTypes(b, al) IN \E i \in DOMAIN t : t[i] \in {5, 7, 8}

(***************************************************************************)
(* RTPH264PacketBuilder::send_data: from each start code, skip its zeros  *)
(* and 01 (no end test: a start code always holds the 01), find the next  *)
(* start code, keep the bytes between when there are any.                 *)
(***************************************************************************)
RECURSIVE SkipStartCode(_, _)
SkipStartCode(b, p) == IF At(b, p) = 0 THEN SkipStartCode(b, p + 1) ELSE p + 1

RECURSIVE SplitFrom(_, _, _)
SplitFrom(b, sc, al) ==
  IF sc >= Len(b) THEN <<>>
  ELSE LET q  == SkipStartCode(b, sc)
           nx == AvcFindStartCode(b, q, Len(b), al)
       IN (IF nx - q > 0 THEN <<SubSeq(b, q + 1, nx)>> ELSE <<>>) \o SplitFrom(b, nx, al)

SendData(b, al) == SplitFrom(b, AvcFindStartCode(b, 0, Len(b), al), al)

-----------------------------------------------------------------------------
(***************************************************************************)
(* Reference definitions and the inputs they are compared on.             *)
(***************************************************************************)

(* The first 00 00 01 at or after start with a byte after it before end, *)
(* or end: a start code in the last three bytes heads no NAL unit.       *)
FirstStartCode(b, start, end) ==
  LET hits == {p \in start .. (end - 4) : IsStartCode(b, p)}
  IN IF hits = {} THEN end ELSE CHOOSE p \in hits : \A q \in hits : p <= q

(* ScanLen bytes of 0x80 (a byte with the high bit set, where the zero    *)
(* test could misfire) with at most MaxMarks of them replaced by 00 / 01. *)
ScanBuffers ==
  UNION {{[i \in 1 .. ScanLen |-> IF i \in S THEN f[i] ELSE 128] : f \in [S -> {0, 1}]} :
           S \in {S \in SUBSET (1 .. ScanLen) : Cardinality(S) <= MaxMarks}}

(* What an encoder writes: a NAL header (IDR slice 0x65, slice 0x41, SPS  *)
(* 0x67, PPS 0x68), then a payload with emulation prevention (no 00 00    *)
(* followed by 00, 01 or 02) whose last byte holds the rbsp stop bit.     *)
NalHeaders == {101, 65, 103, 104}

EscapedPayload(s) ==
  /\ s # <<>> => s[Len(s)] # 0
  /\ \A i \in 1 .. (Len(s) - 2) : ~(s[i] = 0 /\ s[i + 1] = 0 /\ s[i + 2] <= 2)

Nals ==
  {<<h>> \o s : h \in NalHeaders,
                s \in {s \in UNION {[1 .. n -> {0, 3, 128}] : n \in 0 .. MaxBody} : EscapedPayload(s)}}

EncodedUnits == UNION {[1 .. n -> Nals] : n \in 1 .. MaxNals}

(* The Annex B byte stream: each unit after a 3- or 4-byte start code. *)
AnnexBStream(au, sc) ==
  FlattenSeq([i \in DOMAIN au |-> (IF sc[i] = 4 THEN <<0, 0, 0, 1>> ELSE <<0, 0, 1>>) \o au[i]])

====
