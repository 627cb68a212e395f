----------------------------- MODULE RoomPeers -----------------------------
(***************************************************************************)
(* The peer map of LiveMeetingRoom (src/src/application/                  *)
(* app_meeting_room.cpp) and the per-peer receive state of RoomUser       *)
(* (app_room_user.cpp), shared by two threads:                            *)
(*                                                                         *)
(*  - the websocket thread, which runs the on_ws_conference_* handlers    *)
(*    one at a time.  It takes m_receive_mutex only for map edits and the *)
(*    map lookup of pull_stream; RoomUser::initialize runs unlocked;      *)
(*  - the polling thread (receive_loop), which holds m_receive_mutex for  *)
(*    one whole pass over the map, calling receive_audio, receive_video   *)
(*    and, every PinholeEvery passes, nat_pinhole on every peer.          *)
(*                                                                         *)
(* A receiver is described by how far RTPSessionReceiver::init has got    *)
(* ("st"), the number of receivers ever built for that slot ("gen", the   *)
(* pointer's identity) and the length of its reorder list.  Only the      *)
(* effects of the handlers on the map, the receivers and the polling      *)
(* thread are modelled here; their effects on the senders and on the      *)
(* signalling flag are in RoomSignal.                                     *)
(***************************************************************************)
EXTENDS Naturals, Sequences, FiniteSets, SequencesExt

CONSTANTS
  Peers,         \* user uuids of the other participants (map key order)
  ReorderLen,    \* reorderLen passed by receive_audio/receive_video: 5
  MaxInits,      \* receivers that may be built for one slot, in total
  PinholeEvery   \* receive_loop pinholes when count % 2000 == 0

ASSUME Peers \subseteq Nat /\ Peers # {}
ASSUME ReorderLen \in Nat \ {0} /\ MaxInits \in Nat \ {0}
ASSUME PinholeEvery \in Nat \ {0}

Dirs == {"audio", "video"}

(***************************************************************************)
(* What m_audio_receiver / m_major_receiver points to:                    *)
(*   none    NULL                                                         *)
(*   new     constructed: m_reorder false, m_transmitter NULL             *)
(*   reorder init has set m_reorder, m_transmitter still NULL             *)
(*   tx      transmitter created, socket not bound                        *)
(*   bound   socket bound, m_recv_buffer still NULL                       *)
(*   ready   m_initialize true                                            *)
(*   failing bind failed: transmitter deleted, m_transmitter NULL again   *)
(***************************************************************************)
RxStates == {"none", "new", "reorder", "tx", "bound", "ready", "failing"}

(* States in which receive_rtp_packet(reorderLen, ...) reaches            *)
(* m_transmitter->receive_data on a transmitter that exists.              *)
Polling == {"tx", "bound", "ready"}

(* Polling-thread program counters at which it holds m_receive_mutex. *)
Locked == {"check", "use", "asm", "pinhole"}

VARIABLES
  joined,     \* this client is in a conference (create/join answered)
  users,      \* keys of m_other_users_map
  rx,         \* rx[<<p, d>>]: the receiver of direction d of peer p
  assembler,  \* m_h264_frame_assembler of each RoomUser is not NULL
  h264buf,    \* m_h264_rtp_buffer of each RoomUser is not NULL
  inited,     \* m_audio_initialize / m_video_initialize
  ws,         \* websocket thread: idle, inside initialize, or joining
  running,    \* m_receive_thread_running
  poll,       \* polling thread: pc, peers left this pass, direction, pointer read
  count       \* receive_loop's count, modulo PinholeEvery

vars == <<joined, users, rx, assembler, h264buf, inited, ws, running, poll, count>>

Slots == Peers \X Dirs

AnyPeer == CHOOSE p \in Peers : TRUE

WsIdle == [op |-> "idle", p |-> AnyPeer, d |-> "audio"]

TypeOK ==
  /\ joined \in BOOLEAN /\ running \in BOOLEAN
  /\ users \subseteq Peers
  /\ rx \in [Slots -> [st : RxStates, gen : 0 .. MaxInits, list : 0 .. ReorderLen]]
  /\ assembler \in [Peers -> BOOLEAN] /\ h264buf \in [Peers -> BOOLEAN]
  /\ inited \in [Slots -> BOOLEAN]
  /\ ws \in [op : {"idle", "init", "join"}, p : Peers, d : Dirs]
  /\ poll \in [pc : {"none", "top", "sleep"} \cup Locked, todo : Seq(Peers),
               d : Dirs, gen : 0 .. MaxInits]
  /\ count \in 0 .. (PinholeEvery - 1)

Init ==
  /\ joined = FALSE /\ running = FALSE
  /\ users = {}
  /\ rx = [k \in Slots |-> [st |-> "none", gen |-> 0, list |-> 0]]
  /\ assembler = [p \in Peers |-> FALSE] /\ h264buf = [p \in Peers |-> FALSE]
  /\ inited = [k \in Slots |-> FALSE]
  /\ ws = WsIdle
  /\ poll = [pc |-> "none", todo |-> <<>>, d |-> "audio", gen |-> 0]
  /\ count = 0

(* The websocket thread can take m_receive_mutex. *)
MutexFree == poll.pc \notin Locked

(* ~RoomUser for the peers of S: receivers, assembler and buffer freed.   *)
(* A RoomUser built later for the same uuid starts from the same state.   *)
DeleteUsers(S) ==
  /\ rx' = [k \in Slots |-> IF k[1] \in S THEN [rx[k] EXCEPT !.st = "none", !.list = 0]
                            ELSE rx[k]]
  /\ assembler' = [p \in Peers |-> assembler[p] /\ p \notin S]
  /\ h264buf' = [p \in Peers |-> h264buf[p] /\ p \notin S]
  /\ inited' = [k \in Slots |-> inited[k] /\ k[1] \notin S]

-----------------------------------------------------------------------------
(***************************************************************************)
(* Websocket thread: the handlers.                                        *)
(***************************************************************************)

(* The tail of on_ws_conference_create/join: start the receive thread if  *)
(* it is not running.                                                     *)
StartReceiveThread ==
  IF running THEN UNCHANGED <<running, poll, count>>
  ELSE /\ running' = TRUE
       /\ poll' = [poll EXCEPT !.pc = "top"]
       /\ count' = 0

OnWsConferenceCreate ==
  /\ ws.op = "idle" /\ ~joined
  /\ joined' = TRUE
  /\ StartReceiveThread
  /\ UNCHANGED <<users, rx, assembler, h264buf, inited, ws>>

(* The answer to this client's own join request. *)
OnWsConferenceJoin ==
  /\ ws.op = "idle" /\ ~joined
  /\ joined' = TRUE
  /\ StartReceiveThread
  /\ UNCHANGED <<users, rx, assembler, h264buf, inited, ws>>

(* Insert a RoomUser for a uuid not in the map, under the mutex. *)
OnWsConferenceNewJoined(p) ==
  /\ ws.op = "idle" /\ joined /\ MutexFree
  /\ users' = users \cup {p}
  /\ UNCHANGED <<joined, rx, assembler, h264buf, inited, ws, running, poll, count>>

OnWsConferenceOnlineUsers(S) ==
  /\ ws.op = "idle" /\ joined /\ MutexFree
  /\ users' = users \cup S
  /\ UNCHANGED <<joined, rx, assembler, h264buf, inited, ws, running, poll, count>>

(* Fault-injection variant: the RoomUser deleted without the mutex. *)
UserGoneUnlocked(p) ==
  /\ ws.op = "idle" /\ joined
  /\ users' = users \ {p}
  /\ DeleteUsers({p})
  /\ UNCHANGED <<joined, ws, running, poll, count>>

(* Find and delete the RoomUser under the mutex. *)
OnWsConferenceUserGone(p) ==
  /\ ws.op = "idle" /\ joined /\ MutexFree
  /\ users' = users \ {p}
  /\ DeleteUsers({p})
  /\ UNCHANGED <<joined, ws, running, poll, count>>

(***************************************************************************)
(* One stream entry of a pull_stream answer, with one ssrc: look the peer *)
(* up under the mutex, release it, then RoomUser::initialize unlocked.    *)
(* initialize_video/audio returns at once if already initialized; else    *)
(* get_available_port (false when the pool fails) and                     *)
(* m_major_receiver = new RTPSessionReceiver(), before init is called.    *)
(***************************************************************************)
OnWsConferencePullStream(p, d) ==
  /\ ws.op = "idle" /\ joined /\ MutexFree
  /\ \/ /\ p \notin users \/ inited[<<p, d>>]
        /\ UNCHANGED vars
     \/ /\ p \in users /\ ~inited[<<p, d>>]
        /\ \/ UNCHANGED vars
           \/ /\ rx[<<p, d>>].gen < MaxInits
              /\ rx' = [rx EXCEPT ![<<p, d>>] = [st |-> "new", gen |-> @.gen + 1, list |-> 0]]
              /\ ws' = [op |-> "init", p |-> p, d |-> d]
              /\ UNCHANGED <<joined, users, assembler, h264buf, inited, running, poll, count>>

InitSlot == <<ws.p, ws.d>>

(* RTPSessionReceiver::init, one store at a time. *)
RxInitStep(from, to) ==
  /\ ws.op = "init" /\ rx[InitSlot].st = from
  /\ rx' = [rx EXCEPT ![InitSlot].st = to]

(* m_reorder = reorder; *)
SetReorder ==
  /\ RxInitStep("new", "reorder")
  /\ UNCHANGED <<joined, users, assembler, h264buf, inited, ws, running, poll, count>>

(* m_transmitter = new RTPTransmitterV4(); *)
CreateTransmitter ==
  /\ RxInitStep("reorder", "tx")
  /\ UNCHANGED <<joined, users, assembler, h264buf, inited, ws, running, poll, count>>

(* m_transmitter->init: the bind succeeds, or fails and the exit path     *)
(* deletes the transmitter and sets m_transmitter = NULL.                 *)
BindTransmitter ==
  /\ \/ RxInitStep("tx", "bound")
     \/ RxInitStep("tx", "failing")
  /\ UNCHANGED <<joined, users, assembler, h264buf, inited, ws, running, poll, count>>

(* add_destination, m_rtp_packet, m_recv_buffer, m_initialize = true; for *)
(* audio initialize_audio then sets m_audio_initialize and returns.       *)
AllocRecvBuffer ==
  /\ RxInitStep("bound", "ready")
  /\ IF ws.d = "audio"
     THEN /\ inited' = [inited EXCEPT ![InitSlot] = TRUE]
          /\ ws' = WsIdle
     ELSE UNCHANGED <<inited, ws>>
  /\ UNCHANGED <<joined, users, assembler, h264buf, running, poll, count>>

(* initialize_video/audio's exitFlag: delete the receiver, set it NULL    *)
(* (assembler and buffer are still NULL), return false.                   *)
AbortInit ==
  /\ ws.op = "init" /\ rx[InitSlot].st = "failing"
  /\ rx' = [rx EXCEPT ![InitSlot].st = "none", ![InitSlot].list = 0]
  /\ ws' = WsIdle
  /\ UNCHANGED <<joined, users, assembler, h264buf, inited, running, poll, count>>

(* m_h264_frame_assembler = new RTPH264FrameAssembler(); initialize(). *)
CreateAssembler ==
  /\ ws.op = "init" /\ ws.d = "video" /\ rx[InitSlot].st = "ready"
  /\ ~assembler[ws.p]
  /\ assembler' = [assembler EXCEPT ![ws.p] = TRUE]
  /\ UNCHANGED <<joined, users, rx, h264buf, inited, ws, running, poll, count>>

(* m_h264_rtp_buffer = new uint8_t[1 MB]; m_video_initialize = true. *)
AllocFrameBuffer ==
  /\ ws.op = "init" /\ ws.d = "video" /\ assembler[ws.p]
  /\ h264buf' = [h264buf EXCEPT ![ws.p] = TRUE]
  /\ inited' = [inited EXCEPT ![InitSlot] = TRUE]
  /\ ws' = WsIdle
  /\ UNCHANGED <<joined, users, rx, assembler, running, poll, count>>

(* on_ws_conference_exit / stop / closing begin with stop_receive():      *)
(* clear m_receive_thread_running and join the polling thread.            *)
StopReceive ==
  /\ ws.op = "idle" /\ joined
  /\ running' = FALSE
  /\ ws' = [ws EXCEPT !.op = "join"]
  /\ UNCHANGED <<joined, users, rx, assembler, h264buf, inited, poll, count>>

OnWsConferenceExit == StopReceive
OnWsConferenceStop == StopReceive
OnWsConferenceClosing == StopReceive

(* Once the join returns (or no thread was running): delete every         *)
(* RoomUser and clear the map under the mutex, forget the conference.     *)
FinishTeardown ==
  /\ ws.op = "join" /\ poll.pc = "none"
  /\ users' = {}
  /\ DeleteUsers(users)
  /\ joined' = FALSE
  /\ ws' = WsIdle
  /\ UNCHANGED <<running, poll, count>>

-----------------------------------------------------------------------------
(***************************************************************************)
(* Polling thread: receive_loop.                                          *)
(***************************************************************************)

(* After receive_audio comes receive_video; after it nat_pinhole on a     *)
(* pinhole pass, then the next peer; after the last peer, unlock.         *)
NextPeer ==
  IF Len(poll.todo) > 1
  THEN [poll EXCEPT !.pc = "check", !.todo = Tail(@), !.d = "audio"]
  ELSE [poll EXCEPT !.pc = "sleep", !.todo = <<>>]

AfterDir ==
  IF poll.d = "audio" THEN [poll EXCEPT !.pc = "check", !.d = "video"]
  ELSE IF count = 0 THEN [poll EXCEPT !.pc = "pinhole"]
  ELSE NextPeer

(* Fault-injection variant: the loop condition never re-read. *)
PollTopIgnoringStop ==
  /\ poll.pc = "top"
  /\ poll' = IF users = {} THEN [poll EXCEPT !.pc = "sleep"]
             ELSE [poll EXCEPT !.pc = "check", !.todo = SetToSortSeq(users, <), !.d = "audio"]
  /\ UNCHANGED <<joined, users, rx, assembler, h264buf, inited, ws, running, count>>

(* while (m_receive_thread_running): lock, walk the map in key order. *)
PollTop ==
  /\ poll.pc = "top"
  /\ poll' = IF ~running THEN [poll EXCEPT !.pc = "none"]
             ELSE IF users = {} THEN [poll EXCEPT !.pc = "sleep"]
             ELSE [poll EXCEPT !.pc = "check", !.todo = SetToSortSeq(users, <), !.d = "audio"]
  /\ UNCHANGED <<joined, users, rx, assembler, h264buf, inited, ws, running, count>>

PolledSlot == <<Head(poll.todo), poll.d>>

(* receive_audio/receive_video: if (!m_..._receiver) return; *)
PollCheck ==
  /\ poll.pc = "check"
  /\ poll' = IF rx[PolledSlot].st = "none" THEN AfterDir
             ELSE [poll EXCEPT !.pc = "use", !.gen = rx[PolledSlot].gen]
  /\ UNCHANGED <<joined, users, rx, assembler, h264buf, inited, ws, running, count>>

(* The reorder list after one receive_rtp_packet: an empty list gets an   *)
(* unparsed packet (the datagram is dropped), else a datagram is added.   *)
ListAfter(l, got) == IF l = 0 THEN 1 ELSE IF got THEN l + 1 ELSE l

(* Fault-injection variant: the head returned without pop_front. *)
PollUseWithoutPop ==
  /\ poll.pc = "use"
  /\ LET s == rx[PolledSlot] IN
       \/ /\ (s.st \notin Polling \/ s.gen # poll.gen)
          /\ poll' = AfterDir
          /\ UNCHANGED rx
       \/ /\ s.st \in Polling /\ s.gen = poll.gen
          /\ \E got \in IF s.st = "ready" THEN BOOLEAN ELSE {FALSE} :
               LET l == ListAfter(s.list, got) IN
               /\ rx' = [rx EXCEPT ![PolledSlot].list = l]
               /\ poll' = IF l > ReorderLen /\ poll.d = "video"
                          THEN [poll EXCEPT !.pc = "asm"] ELSE AfterDir
  /\ UNCHANGED <<joined, users, assembler, h264buf, inited, ws, running, count>>

(***************************************************************************)
(* receive_rtp_packet(ReorderLen, 0) on the receiver read by PollCheck.   *)
(* With m_reorder false it returns NULL (m_initialize is false).  A       *)
(* datagram is read only by a ready receiver: before, the socket is not   *)
(* bound or recvfrom writes to a NULL buffer and fails.  The head is      *)
(* returned once the list is longer than ReorderLen; a video packet then  *)
(* goes to the assembler.  Freed or NULL objects are PolledObjectsLive's  *)
(* concern; the step then returns NULL.                                   *)
(***************************************************************************)
PollUse ==
  /\ poll.pc = "use"
  /\ LET s == rx[PolledSlot] IN
       \/ /\ (s.st \notin Polling \/ s.gen # poll.gen)
          /\ poll' = AfterDir
          /\ UNCHANGED rx
       \/ /\ s.st \in Polling /\ s.gen = poll.gen
          /\ \E got \in IF s.st = "ready" THEN BOOLEAN ELSE {FALSE} :
               LET l == ListAfter(s.list, got) IN
               /\ rx' = [rx EXCEPT ![PolledSlot].list = IF l > ReorderLen THEN l - 1 ELSE l]
               /\ poll' = IF l > ReorderLen /\ poll.d = "video"
                          THEN [poll EXCEPT !.pc = "asm"] ELSE AfterDir
  /\ UNCHANGED <<joined, users, assembler, h264buf, inited, ws, running, count>>

(* m_h264_frame_assembler->push_packet, memcpy into m_h264_rtp_buffer. *)
PollAssemble ==
  /\ poll.pc = "asm"
  /\ poll' = AfterDir
  /\ UNCHANGED <<joined, users, rx, assembler, h264buf, inited, ws, running, count>>

(* nat_pinhole: m_transmitter->send_data on each non-NULL receiver. *)
PollPinhole ==
  /\ poll.pc = "pinhole"
  /\ poll' = NextPeer
  /\ UNCHANGED <<joined, users, rx, assembler, h264buf, inited, ws, running, count>>

(* unlock; count++; usleep. *)
PollSleep ==
  /\ poll.pc = "sleep"
  /\ poll' = [poll EXCEPT !.pc = "top"]
  /\ count' = (count + 1) % PinholeEvery
  /\ UNCHANGED <<joined, users, rx, assembler, h264buf, inited, ws, running>>

-----------------------------------------------------------------------------
WsStep ==
  \/ SetReorder \/ CreateTransmitter \/ BindTransmitter \/ AllocRecvBuffer
  \/ AbortInit \/ CreateAssembler \/ AllocFrameBuffer \/ FinishTeardown

PollStep ==
  \/ PollTop \/ PollCheck \/ PollUse \/ PollAssemble \/ PollPinhole \/ PollSleep

ServerEvent ==
  \/ OnWsConferenceCreate \/ OnWsConferenceJoin
  \/ OnWsConferenceExit \/ OnWsConferenceStop \/ OnWsConferenceClosing
  \/ \E S \in SUBSET Peers : OnWsConferenceOnlineUsers(S)
  \/ \E p \in Peers :
       \/ OnWsConferenceNewJoined(p)
       \/ OnWsConferenceUserGone(p)
       \/ \E d \in Dirs : OnWsConferencePullStream(p, d)

Next == ServerEvent \/ WsStep \/ PollStep

(* Both threads are always runnable when they have a step to take; the    *)
(* polling thread sleeps with the mutex released, and the websocket      *)
(* thread never waits on it while the other holds it.  Server events get  *)
(* no fairness: the server may stay silent.                               *)
Spec == Init /\ [][Next]_vars /\ WF_vars(WsStep) /\ WF_vars(PollStep)

-----------------------------------------------------------------------------
(***************************************************************************)
(* Properties.                                                            *)
(***************************************************************************)

(* While the polling thread walks the map under m_receive_mutex, every    *)
(* peer it has still to visit has a live RoomUser: user_gone, exit, stop   *)
(* and closing delete RoomUsers only under the mutex, after joining the   *)
(* thread.                                                                *)
PollVisitsLiveUsers ==
  poll.pc \in Locked => ToSet(poll.todo) \subseteq users

(* Every exit, stop or closing of the conference gets past stop_receive's *)
(* join: the polling thread notices m_receive_thread_running and ends.    *)
TeardownCompletes == ws.op = "join" ~> ws.op = "idle"

(* The polling thread dereferences only live, usable objects: the         *)
(* receiver it read is still the one it calls (not deleted), and its      *)
(* m_transmitter is not NULL when receive_rtp_packet or nat_pinhole uses  *)
(* it; the assembler and the frame buffer exist when a video packet is   *)
(* returned (spec 4.8: a Session that fails to initialize is never used). *)
PolledObjectsLive ==
  /\ poll.pc = "use" =>
       /\ rx[PolledSlot].gen = poll.gen
       /\ rx[PolledSlot].st \notin {"none", "reorder", "failing"}
  /\ poll.pc = "asm" => assembler[Head(poll.todo)] /\ h264buf[Head(poll.todo)]
  /\ poll.pc = "pinhole" =>
       \A d \in Dirs : rx[<<Head(poll.todo), d>>].st \notin {"new", "reorder", "failing"}

====
