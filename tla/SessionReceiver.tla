--------------------------- MODULE SessionReceiver ---------------------------
(***************************************************************************)
(* One RTP receive session with its reorder buffer                        *)
(* (src/src/rtp/rtp_session_receiver.cpp), fed by one remote sender over  *)
(* UDP and drained by the media polling thread, which calls               *)
(* receive_rtp_packet(5, 0) once per tick (RoomUser::receive_audio /      *)
(* receive_video) and hands what it returns to the decoder.               *)
(*                                                                         *)
(* A packet is identified by the sender's send counter (m_sequence,       *)
(* starting at the sequenceStart 0 that add_sender_destination passes).   *)
(* Its logical sequence is what RTPPacket::parse reconstructs from the    *)
(* 16-bit header field and seqHigh16; SeqWidth stands for the 16 bits of  *)
(* each half.  The network may lose packets and deliver them out of       *)
(* order, a packet overtaking at most MaxDisplacement later ones.         *)
(***************************************************************************)
EXTENDS Naturals, Sequences, FiniteSets, SequencesExt

CONSTANTS
  ReorderLen,      \* the reorderLen argument: 5 in RoomUser
  PacketCount,     \* packets the remote sender sends
  SeqWidth,        \* bits of the RTP header sequence field
  SeqHighZeroed,   \* TRUE for video: send_h264_data writes seqHigh16 = 0
  MaxDisplacement, \* how many later packets may arrive before a packet
  MaxDuplicates,   \* how many datagrams the network may deliver twice
  Blank            \* model value: the RTPPacket pushed unparsed

ASSUME ReorderLen \in Nat \ {0}
ASSUME PacketCount \in Nat /\ SeqWidth \in Nat \ {0}
ASSUME SeqHighZeroed \in BOOLEAN /\ MaxDuplicates \in Nat
ASSUME MaxDisplacement \in Nat
ASSUME Blank \notin Nat

Ids == 0 .. (PacketCount - 1)

(* Fault-injection variant: the high half shifted by twice the width.   *)
LogicalSeqMisShifted(n) ==
  (n \div (2 ^ SeqWidth)) * (2 ^ (2 * SeqWidth)) + (n % (2 ^ SeqWidth))

(* Fault-injection variant: seqHigh16 never set, the sequence is 16 bits. *)
LogicalSeqLowHalf(n) == n % (2 ^ SeqWidth)

(* RTPPacket::parse: (seqHigh16 << 16) | sequence, from what was sent. *)
LogicalSeq(n) ==
  IF SeqHighZeroed THEN n % (2 ^ SeqWidth)
  ELSE n % (2 ^ (2 * SeqWidth))

Packet(n) == [id |-> n, seq |-> LogicalSeq(n)]

(* A default-constructed RTPPacket: reset() leaves m_sequence = 0. *)
BlankPacket == [id |-> Blank, seq |-> 0]

VARIABLES
  sent,      \* packets sent so far (the sender's m_sequence)
  net,       \* ids in flight
  arrived,   \* ids that have reached the socket at least once
  sock,      \* the socket's receive queue, in arrival order
  duped,     \* ids the network has delivered a second time
  taken,     \* ids read from the socket by receive_data
  list,      \* m_reorder_list
  emitted    \* what receive_rtp_packet returned to RoomUser, in order

vars == <<sent, net, arrived, duped, sock, taken, list, emitted>>

(***************************************************************************)
(* The insertion loop of receive_rtp_packet: walk from the tail towards   *)
(* the head while the element is larger, insert after the first smaller   *)
(* one (or at the front), drop the packet on an equal sequence.           *)
(***************************************************************************)
(* Fault-injection variant: the packet goes in front of the first        *)
(* smaller element instead of after it (the ++it forgotten).              *)
RECURSIVE InsertBeforeSmaller(_, _, _)
InsertBeforeSmaller(l, p, i) ==
  IF l[i].seq > p.seq
  THEN IF i > 1 THEN InsertBeforeSmaller(l, p, i - 1) ELSE <<p>> \o l
  ELSE IF l[i].seq < p.seq
       THEN InsertAt(l, i, p)
       ELSE l

(* Fault-injection variant: an equal sequence is inserted, not dropped.  *)
RECURSIVE InsertKeepingDuplicates(_, _, _)
InsertKeepingDuplicates(l, p, i) ==
  IF l[i].seq > p.seq
  THEN IF i > 1 THEN InsertKeepingDuplicates(l, p, i - 1) ELSE <<p>> \o l
  ELSE InsertAt(l, i + 1, p)

RECURSIVE InsertFromTail(_, _, _)
InsertFromTail(l, p, i) ==
  IF l[i].seq > p.seq
  THEN IF i > 1 THEN InsertFromTail(l, p, i - 1) ELSE <<p>> \o l
  ELSE IF l[i].seq < p.seq
       THEN InsertAt(l, i + 1, p)
       ELSE l

TypeOK ==
  /\ sent \in 0 .. PacketCount
  /\ net \subseteq Ids
  /\ arrived \subseteq Ids
  /\ duped \subseteq arrived
  /\ sock \in Seq(Ids)
  /\ taken \subseteq Ids
  /\ list \in Seq([id : Ids \cup {Blank}, seq : 0 .. (2 ^ (2 * SeqWidth) - 1)])
  /\ emitted \in Seq(Ids \cup {Blank})

Init ==
  /\ sent = 0
  /\ net = {}
  /\ arrived = {}
  /\ duped = {}
  /\ sock = <<>>
  /\ taken = {}
  /\ list = <<>>
  /\ emitted = <<>>

(* The remote sender's send_aac_data / send_h264_data: one packet. *)
Send ==
  /\ sent < PacketCount
  /\ net' = net \cup {sent}
  /\ sent' = sent + 1
  /\ UNCHANGED <<arrived, duped, sock, taken, list, emitted>>

(* A datagram reaches the socket, overtaking at most MaxDisplacement      *)
(* later packets.                                                         *)
Arrive(n) ==
  /\ n \in net
  /\ Cardinality({m \in arrived : m > n}) <= MaxDisplacement
  /\ net' = net \ {n}
  /\ arrived' = arrived \cup {n}
  /\ sock' = Append(sock, n)
  /\ UNCHANGED <<sent, duped, taken, list, emitted>>

(* The network delivers a datagram that already arrived a second time,    *)
(* within the same displacement.                                          *)
Duplicate(n) ==
  /\ n \in arrived \ duped
  /\ Cardinality(duped) < MaxDuplicates
  /\ Cardinality({m \in arrived : m > n}) <= MaxDisplacement
  /\ duped' = duped \cup {n}
  /\ sock' = Append(sock, n)
  /\ UNCHANGED <<sent, net, arrived, taken, list, emitted>>

Lose(n) ==
  /\ n \in net
  /\ net' = net \ {n}
  /\ UNCHANGED <<sent, arrived, duped, sock, taken, list, emitted>>

(* Fault-injection variants of Poll: the depth test off by one either    *)
(* way (size() >= reorderLen, size() > reorderLen + 1).                   *)
PollWithDepth(depth) ==
  LET got   == sock # <<>>
      list1 == IF list = <<>> THEN <<BlankPacket>>
               ELSE IF got THEN InsertFromTail(list, Packet(Head(sock)), Len(list))
               ELSE list
  IN /\ sock' = IF got THEN Tail(sock) ELSE sock
     /\ taken' = IF got THEN taken \cup {Head(sock)} ELSE taken
     /\ \/ /\ Len(list1) > depth
           /\ list' = Tail(list1)
           /\ emitted' = Append(emitted, Head(list1).id)
        \/ /\ Len(list1) <= depth
           /\ list' = list1
           /\ UNCHANGED emitted
     /\ UNCHANGED <<sent, net, arrived, duped>>

PollEmitEarly == PollWithDepth(ReorderLen - 1)
PollEmitLate == PollWithDepth(ReorderLen + 1)

(***************************************************************************)
(* One call of receive_rtp_packet(ReorderLen, 0) by the polling thread,   *)
(* with the caller's end_receive_rtp_packet.  receive_data returns the    *)
(* head datagram or 0.  On an empty list an unparsed RTPPacket is pushed  *)
(* and the datagram just read is discarded.  Once the list holds more     *)
(* than ReorderLen packets its head is returned.                          *)
(***************************************************************************)
Poll ==
  LET got   == sock # <<>>
      list1 == IF list = <<>> THEN <<BlankPacket>>
               ELSE IF got THEN InsertFromTail(list, Packet(Head(sock)), Len(list))
               ELSE list
  IN /\ sock' = IF got THEN Tail(sock) ELSE sock
     /\ taken' = IF got THEN taken \cup {Head(sock)} ELSE taken
     /\ \/ /\ Len(list1) > ReorderLen
           /\ list' = Tail(list1)
           /\ emitted' = Append(emitted, Head(list1).id)
        \/ /\ Len(list1) <= ReorderLen
           /\ list' = list1
           /\ UNCHANGED emitted
     /\ UNCHANGED <<sent, net, arrived, duped>>

Next ==
  \/ Send
  \/ Poll
  \/ \E n \in Ids : Arrive(n) \/ Duplicate(n) \/ Lose(n)

Spec == Init /\ [][Next]_vars

-----------------------------------------------------------------------------
(***************************************************************************)
(* Properties.                                                            *)
(***************************************************************************)

RealIds(s) == SelectSeq(s, LAMBDA x : x # Blank)

(* The tail-first insertion keeps m_reorder_list strictly ascending in    *)
(* logical sequence: duplicates are dropped, so the head returned is the  *)
(* oldest packet buffered.                                                *)
ReorderListSorted ==
  \A i \in 1 .. (Len(list) - 1) : list[i].seq < list[i + 1].seq

(* The receive session as OrderedChannel: sent packets are numbered by   *)
(* sent, and what receive_rtp_packet hands over, its unparsed placeholder *)
(* left out, is the channel's delivered sequence.                         *)
Channel == INSTANCE OrderedChannel WITH sentCount <- sent, delivered <- RealIds(emitted)

(* When no packet is overtaken by more than ReorderLen later ones and the *)
(* logical sequence does not wrap, every poll of receive_rtp_packet hands *)
(* over a packet that was sent and is later than every packet it handed  *)
(* over before: the session refines an in-order, duplicate-free channel   *)
(* (spec 4.5), over a network that loses, duplicates and reorders.        *)
DeliversInOrder == Channel!Spec

(* A packet waits in the reorder buffer only until fewer than            *)
(* ReorderLen + MaxDisplacement later packets have been read: the depth   *)
(* of the list bounds the delay it adds.                                  *)
BoundedReorderDelay ==
  \A i \in 1 .. Len(list) :
    list[i].id # Blank =>
      Cardinality({m \in taken : m > list[i].id}) < ReorderLen + MaxDisplacement

(* Every packet the decoder is handed is one the peer sent, and every     *)
(* datagram read from the socket is handed over or still buffered (spec   *)
(* 6: on_aac once per received audio packet).                             *)
NoPhantomOrDroppedPacket ==
  /\ \A i \in 1 .. Len(emitted) : emitted[i] # Blank
  /\ taken \subseteq ToSet(emitted) \cup {p.id : p \in ToSet(list)}

=============================================================================
