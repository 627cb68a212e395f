------------------------------- MODULE MCCodec -------------------------------
(***************************************************************************)
(* One call into codec_utils and send_data, or into the string helpers   *)
(* of common_utils and the JSON string codec, on an input the program can *)
(* produce, and its result.  Init chooses the call and its     *)
(* input; the step makes the call; the invariants compare the result with  *)
(* the reference definitions of CodecUtils and CodecBits.  The call        *)
(* returns and nothing follows it, so the harness stops there.            *)
(*                                                                         *)
(* Bounds: scan buffers of 11 bytes hold a head, one aligned word and a    *)
(* tail of the scan at every alignment, with up to four 00/01 bytes among *)
(* 0x80 bytes; access units of one or two NAL units with up to two        *)
(* payload bytes, and SPS NAL units whose 00 00 03 escapes the encoder    *)
(* inserts; ADTS frames of 7, 9 and                                       *)
(* 2051 bytes, the last needing the high length bits of the fourth byte;   *)
(* strings of up to four letters with searches of one or two and          *)
(* replacements of up to three, and JSON strings of up to three of the    *)
(* characters escape_string knows and two letters.                        *)
(*                                                                         *)
(* The websocket thread of WSClient, single-threaded but driven by the    *)
(* network, is checked here too, as the "ws" call: its behaviour is the    *)
(* client's whole life from the constructor on, under the fairness its    *)
(* timer and a healthy server give it (Spec).                             *)
(***************************************************************************)
EXTENDS CodecBits, Json, Logger, WSClient

MCAdtsLengths == {7, 9, 2051}

VARIABLES
  call,   \* the function called and its input
  done,   \* the call has returned
  result  \* what it returned, as a one-element sequence

vars == <<call, done, result, m_connection, m_connected, mg, g_room_connected, mutex>>

AdtsStream(c) == c.junk \o FlattenSeq([i \in DOMAIN c.fs |-> AdtsFrame(c.fs[i])])

ScanCalls == [kind : {"scan"}, b : ScanBuffers, al : 0 .. 3, s : 0 .. 1]

SplitCalls ==
  UNION {[kind : {"split"}, au : {au}, sc : [DOMAIN au -> {3, 4}], al : 0 .. 3] : au \in EncodedUnits}

SpsCalls == [kind : {"sps"}, p : SpsParams]

AacCalls ==
  [kind : {"aac"}, junk : AdtsJunk, fs : UNION {[1 .. k -> AdtsFrames] : k \in 1 .. MaxAacFrames}]

Strs(A, n) == BoundedSeq(A, n)

StringCalls ==
  [kind : {"string"}, s : Strs(Letters, 4), search : Strs(Letters, 2) \ {<<>>}, repl : Strs(Letters, 3)]

JsonCalls == [kind : {"json"}, s : Strs(Letters \cup Specials, 3)]

(* JsonObjects as the command builders fill them: string, integer and     *)
(* bool members, and objects and arrays of at most one of those, inside   *)
(* an object or an array of at most two members.                          *)
JsonKeys == {<<"a">>, <<"n">>, <<"a", "n">>}

JsonLeaves ==
  {[type |-> "T_STRING", str |-> s] : s \in {<<>>, <<"a">>, <<"QT">>}}
  \cup {[type |-> t, n |-> n] : t \in {"T_INT64", "T_UINT32"}, n \in {0, 10}}
  \cup {[type |-> "T_BOOL", b |-> b] : b \in BOOLEAN}

ObjectsOf(V, k) ==
  {[isArray |-> FALSE, members |-> f] :
     f \in UNION {[K -> V] : K \in {K \in SUBSET JsonKeys : Cardinality(K) <= k}}}

ArraysOf(V, k) ==
  {[isArray |-> TRUE, members |-> [key \in {Decimal(i - 1) : i \in DOMAIN s} |-> s[atol(key) + 1]]] :
     s \in BoundedSeq(V, k)}

JsonInner == JsonLeaves \cup {[type |-> "T_OBJ", obj |-> o] : o \in ObjectsOf(JsonLeaves, 1) \cup ArraysOf(JsonLeaves, 1)}

JsonDocCalls == [kind : {"jsondoc"}, o : ObjectsOf(JsonInner, 2) \cup ArraysOf(JsonInner, 2)]

(* The lines a logger run writes: on the day it started ("w"), on the     *)
(* next day ("d", the day advances), or with fopen failing should the     *)
(* line reopen the file ("f").                                            *)
LogKinds == {"w", "d", "f"}
LogLines(ks) ==
  [i \in DOMAIN ks |-> [day |-> 1 + Cardinality({j \in 1 .. i : ks[j] = "d"}),
                        fails |-> ks[i] = "f"]]

(* A run of write_log over seven lines, in either mode, with any of the   *)
(* pool's files of the first day left on disk by an earlier run.          *)
LogCalls ==
  UNION {[kind : {"log"}, daily : {d}, disk : SUBSET {FileName(d, 1, s) : s \in 1 .. MaxFiles},
          ks : [1 .. 7 -> LogKinds]] : d \in BOOLEAN}

Init ==
  /\ \/ call \in ScanCalls
     \/ call \in SplitCalls
     \/ call \in SpsCalls
     \/ call \in AacCalls
     \/ call \in StringCalls
     \/ call \in JsonCalls
     \/ call \in JsonDocCalls
     \/ call \in LogCalls
     \/ call = [kind |-> "ws"]
  /\ done = FALSE
  /\ result = <<>>
  /\ WsInit

(* The value returned. *)
ret == result[1]

Return(r) == ~done /\ done' = TRUE /\ result' = <<r>> /\ UNCHANGED <<call, wsVars>>

(* AVCFindStartCodeInternal(start + s, start + ScanLen). *)
ScanCall == call.kind = "scan" /\ Return(AVCFindStartCodeInternal(call.b, call.s, ScanLen, call.al))

(* send_data on an Annex B access unit, and the codec_utils walks of it. *)
SplitCall ==
  /\ call.kind = "split"
  /\ LET b == AnnexBStream(call.au, call.sc) IN
     Return([units |-> SendData(b, call.al), types |-> NalTypes(b, call.al),
             frames |-> CountFrames(b, call.al), keys |-> CountAvcKeyFrames(b, call.al),
             key |-> AvcFindKeyFrame(b, call.al), params |-> AvcFindSpsPpsIdr(b, call.al)])

(* h264_decode_sps on an SPS NAL unit, fps preset to -1. *)
SpsCall ==
  /\ call.kind = "sps"
  /\ LET nal == SpsNal(call.p) IN Return(H264DecodeSps(nal, Len(nal), -1))

(* aac_find_frame, parse_adts_header on what it found, and               *)
(* count_aac_frames from there.                                           *)
AacCall ==
  /\ call.kind = "aac"
  /\ LET s   == AdtsStream(call)
         off == AacFindFrame(s, Len(s))
         rest == SubSeq(s, off + 1, Len(s))
     IN Return([off |-> off, hd |-> ParseAdtsHeader(s, off, Len(s) - off),
                count |-> CountAacFrames(rest, Len(rest))])

(* string_replace and string_split with the same search string. *)
StringCall ==
  /\ call.kind = "string"
  /\ Return([rep |-> string_replace(call.s, call.search, call.repl),
             pieces |-> string_split(call.s, call.search)])

(* write_to_string of a T_STRING member, read back by read_string. *)
JsonCall == call.kind = "json" /\ Return(read_string(WriteString(call.s), 0))

(* The document with blanks around every ':' and ',' and inside every    *)
(* non-empty object and array.                                            *)
Spaced(t) ==
  LET Blanked(i) ==
        CASE t[i] = "CO" -> <<"SP", "CO", "tab">>
          [] t[i] = "CM" -> <<"nl", "CM", "SP">>
          [] t[i] \in {"LB", "LK"} /\ i < Len(t) /\ t[i + 1] \notin {"RB", "RK"} -> <<t[i], "SP">>
          [] t[i] \in {"RB", "RK"} /\ i > 1 /\ t[i - 1] \notin {"LB", "LK"} -> <<"cr", t[i]>>
          [] OTHER -> <<t[i]>>
  IN <<"SP">> \o FlattenSeq([i \in DOMAIN t |-> Blanked(i)])

(* write_to_string of a JsonObject, and read_from_string of what it wrote *)
(* and of the same text with blanks.                                      *)
JsonDocCall ==
  /\ call.kind = "jsondoc"
  /\ LET w == write_to_string(call.o) IN
     Return([w |-> w, r |-> read_from_string(w.str), rs |-> read_from_string(Spaced(w.str))])

(* The logger thread's handle_msg runs write_log on each line in turn. *)
LogCall == call.kind = "log" /\ Return(RunLogger(call.daily, call.disk, LogLines(call.ks)))

(* A step of the websocket thread: the timer, an event, a network fault. *)
WsCall == call.kind = "ws" /\ PulseStep /\ UNCHANGED <<call, done, result>>

Next == ScanCall \/ SplitCall \/ SpsCall \/ AacCall \/ StringCall \/ JsonCall \/ JsonDocCall \/ LogCall \/ WsCall

(***************************************************************************)
(* websocket_pulse_loop polls every 50 ms for as long as the room runs,   *)
(* and mg_mgr_poll runs the 12 s timer whenever it is due: on_timer is    *)
(* weakly fair.  A healthy server completes a handshake that stays in      *)
(* progress: WsOpen is weakly fair.  on_timer closes an attempt and        *)
(* starts the next in one step, so an open stays possible across it.      *)
(* Faults get no fairness.                                                *)
(***************************************************************************)
WsTimer == call.kind = "ws" /\ on_timer /\ UNCHANGED <<call, done, result>>
WsOpened == call.kind = "ws" /\ (\E c \in Conns : WsOpen(c)) /\ UNCHANGED <<call, done, result>>

Spec == Init /\ [][Next]_vars /\ WF_wsVars(WsTimer) /\ WF_wsVars(WsOpened)

-----------------------------------------------------------------------------
(* The word-at-a-time scan of AVCFindStartCodeInternal returns the first  *)
(* 00 00 01 with a byte after it, or end, for every alignment of the      *)
(* buffer and a word-aligned or unaligned start: the borrow-based zero-   *)
(* byte test and the four offsets checked per word miss none and find    *)
(* none too early.                                                        *)
StartCodeScanExact ==
  done /\ call.kind = "scan" => ret = FirstStartCode(call.b, call.s, ScanLen)

(* For every access unit an encoder can write, with 3- and 4-byte start   *)
(* codes at every alignment, send_data hands the packetizer exactly the   *)
(* NAL units written (avc_find_start_code steps back onto the zero of a   *)
(* 4-byte code), and count_frames, count_avc_key_frames,                  *)
(* avc_find_key_frame and avc_find_sps_pps_idr read their types.          *)
NalSplitRecoversUnits ==
  done /\ call.kind = "split" =>
    LET t == [i \in DOMAIN call.au |-> call.au[i][1] % 32]
        slices == {i \in DOMAIN t : t[i] \in {1, 5}}
    IN /\ ret.units = call.au
       /\ ret.types = t
       /\ ret.frames = Len(call.au)
       /\ ret.keys = Cardinality({i \in DOMAIN t : t[i] = 5})
       /\ ret.key = (slices # {} /\ \E i \in slices : t[i] = 5 /\ \A j \in slices : i <= j)
       /\ ret.params = \E i \in DOMAIN t : t[i] \in {5, 7, 8}

(* The height of the picture an SPS describes (H.264 7.4.2.1.1): map    *)
(* units are pairs of macroblock rows in field coding, and the bottom crop *)
(* offset the encoder writes (4) counts in units of CropUnitY rows.        *)
CropUnitY(p) == (IF p.chroma = 3 THEN 1 ELSE 2) * (2 - p.fmo)
VideoHeight(p) == (2 - p.fmo) * (p.h + 1) * 16 - (IF p.crop = 1 THEN 4 * CropUnitY(p) ELSE 0)

(* h264_decode_sps, after de_emulation_prevention, follows every branch   *)
(* of the SPS syntax an encoder without scaling lists takes (high         *)
(* profile, 4:4:4, a scaling matrix flag with no list present, the three  *)
(* picture order count types with a cycle of se(v) offsets, field coding, *)
(* cropping, each VUI section) and keeps its place in the bits: it        *)
(* returns the width, time_scale / (2 * num_units_in_tick) when timing    *)
(* info is present, and, for a frame-coded uncropped stream, the height   *)
(* of the video (codec_utils.h: "the height of the video").  The height   *)
(* it returns for field-coded or cropped streams, and SPS units carrying  *)
(* scaling lists, are the reproducers CodecSpsHeight.cfg and              *)
(* CodecSpsLists.cfg.                                                     *)
SpsDecodedExactly ==
  done /\ call.kind = "sps" =>
    /\ ret.ok
    /\ ret.width = (call.p.w + 1) * 16
    /\ call.p.fmo = 1 /\ call.p.crop = 0 => ret.height = VideoHeight(call.p)
    /\ ret.fps = IF call.p.vui.present /\ call.p.vui.nu > 0
                 THEN call.p.vui.ts \div (2 * call.p.vui.nu) ELSE -1

(* h264_decode_sps returns the height of the video (codec_utils.h:83)    *)
(* for every SPS, field-coded and cropped ones included.                  *)
SpsVideoHeight ==
  done /\ call.kind = "sps" => ret.height = VideoHeight(call.p)

(* In a buffer of ADTS frames after bytes with no sync word,              *)
(* aac_find_frame finds the first frame, parse_adts_header reads its      *)
(* fields back, and count_aac_frames, jumping by aac_frame_length, counts *)
(* every frame and no 0xFF 0xFX inside a payload.                         *)
AacFramesCounted ==
  done /\ call.kind = "aac" =>
    /\ ret.off = Len(call.junk)
    /\ ret.hd.ok
    /\ <<ret.hd.profile, ret.hd.sampling_freq_index, ret.hd.channel_cfg, ret.hd.aac_frame_length>>
         = <<call.fs[1].profile, call.fs[1].sf, call.fs[1].ch, call.fs[1].len>>
    /\ ret.count = Len(call.fs)

(* The pieces joined again with the separator. *)
Join(pieces, sep) == FoldLeft(LAMBDA acc, x : acc \o sep \o x, pieces[1], Tail(pieces))

(* string_replace, which searches again after each replacement it makes,  *)
(* replaces exactly the occurrences of the original string, left to      *)
(* right and none inside a replacement; string_split cuts at the same     *)
(* occurrences, so joining its pieces with the separator gives the string *)
(* back and no piece holds the separator.                                 *)
StringScansLeftToRight ==
  done /\ call.kind = "string" =>
    /\ ret.rep = RefReplace(call.s, call.search, call.repl)
    /\ Join(ret.pieces, call.search) = call.s
    /\ \A i \in DOMAIN ret.pieces : Find(ret.pieces[i], call.search, 0) < 0

(* A string member with no backslash, written by write_to_string          *)
(* (escape_string, in the order of its replacements, then quotes) and     *)
(* read back by read_string (the first unescaped quote closes it, then     *)
(* unescape_string), is the string that was written.                      *)
JsonPlainStringRoundTrip ==
  done /\ call.kind = "json" /\ (\A i \in DOMAIN call.s : call.s[i] # "BS") =>
    ret = [ok |-> TRUE, value |-> call.s, next |-> Len(WriteString(call.s))]

(* The value read_number gives back for a written integer of any width. *)
RECURSIVE Read(_)
Read(v) ==
  CASE v.type \in IntTypes -> [type |-> "T_INT64", n |-> v.n]
    [] v.type = "T_OBJ" -> [type |-> "T_OBJ", obj |-> [v.obj EXCEPT !.members = [k \in DOMAIN @ |-> Read(@[k])]]]
    [] OTHER -> v

(* A JsonObject of strings, integers, bools and nested objects and arrays *)
(* that write_to_string writes (members in std::map order, arrays keyed  *)
(* by their decimal index) is read back by read_from_string as the same   *)
(* object, integers as T_INT64, and the whole text is consumed.           *)
JsonDocumentRoundTrip ==
  done /\ call.kind = "jsondoc" =>
    /\ ret.w.ok
    /\ ret.r = [ok |-> TRUE, val |-> Read([type |-> "T_OBJ", obj |-> call.o]), pos |-> Len(ret.w.str)]

Reconnects ==
  call.kind = "ws" /\ <>[][~Fault]_wsVars => []<>m_connected

(* read_from_string skips blanks around ':' and ',' and inside non-empty  *)
(* objects and arrays: read_delimiter and read_json_key_value call        *)
(* read_whitespace at every place a blank may stand, so the spaced text   *)
(* parses to the same object.                                             *)
JsonBlanksIgnored ==
  done /\ call.kind = "jsondoc" => ret.rs.ok /\ ret.rs.val = ret.r.val

(* Every string member, backslashes included, reads back as written. *)
JsonStringRoundTrip ==
  done /\ call.kind = "json" => ret = [ok |-> TRUE, value |-> call.s, next |-> Len(WriteString(call.s))]

====
