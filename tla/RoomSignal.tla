----------------------------- MODULE RoomSignal -----------------------------
(***************************************************************************)
(* The signalling side of LiveMeetingRoom (src/src/application/           *)
(* app_meeting_room.cpp) after a successful initialize(): the rate-       *)
(* limited signal_* requests of the application thread, the server that   *)
(* answers them in order over the websocket, the websocket thread that    *)
(* runs the answer handlers one at a time, and the local send sessions    *)
(* the handlers set up (add_sender_destination) and delete                *)
(* (remove_sender) while the producer thread calls send_h264_data /       *)
(* send_aac_data.                                                         *)
(*                                                                         *)
(* The rate limit reads clock() / CLOCKS_PER_SEC, the process's CPU       *)
(* seconds; "now" is that value and Tick its advance.                    *)
(*                                                                         *)
(* Other users join and leave the conference at the server, which pushes *)
(* new_joined and user_gone to the client.  The handlers keep the uuids   *)
(* of m_other_users_map and call the application's event callback, here  *)
(* conference_event_callback of src/src/main.cpp, which asks for the      *)
(* online users once joined and pulls the streams of the users it is     *)
(* told about, through the same rate-limited signal_* functions.  The     *)
(* RoomUser objects of the map, their receivers and the polling thread    *)
(* are in RoomPeers.                                                      *)
(***************************************************************************)
EXTENDS Naturals, Sequences

CONSTANTS
  ApiLimit,     \* seconds of the rate limit: 6
  MaxTime,      \* bound on the CPU seconds explored
  MaxInFlight,  \* bound on requests and answers in transit together
  Me,           \* this client's user uuid
  Others,       \* the uuids of the other users
  SendFails     \* whether send_text may fail (the socket not connected)

ASSUME ApiLimit \in Nat \ {0} /\ MaxTime \in Nat /\ MaxInFlight \in Nat \ {0}
ASSUME Me \notin Others /\ SendFails \in BOOLEAN

Users == Others \cup {Me}

Media == {"audio", "video"}

(* Requests of the signal_* functions, answers and pushes of the server. *)
Requests == {"create", "join", "pull", "stop_pull", "exit", "stop", "online"}
Answers == Requests \cup {"closing", "new_joined", "user_gone"}

VARIABLES
  joined,         \* m_my_room_id and m_my_user_uuid are not empty
  signalRunning,  \* m_is_signal_running
  prevTime,       \* m_prev_signal_time
  now,            \* clock() / CLOCKS_PER_SEC
  toServer,       \* requests sent, not yet handled by the server
  toClient,       \* answers and pushes not yet handled by the client
  member,         \* the server counts this client as in a conference
  senderLive,     \* m_rtp_audio_sender / m_rtp_video_sender not NULL
  sessInit,       \* each send session's m_initialize
  dests,          \* destinations added to each send session
  sendInit,       \* m_rtp_send_initialized
  producer,       \* producer thread: idle, or holding a sender it read
  others,         \* the other users the server has in this client's conference
  peers,          \* the uuids that are keys of m_other_users_map
  pulled,         \* uuids named in pull requests sent in this conference, not gone since
  listed,         \* an online_users answer (or creating the conference) told all users
  inRoom          \* main.cpp's g_in_room

vars == <<joined, signalRunning, prevTime, now, toServer, toClient, member,
          senderLive, sessInit, dests, sendInit, producer,
          others, peers, pulled, listed, inRoom>>

userVars == <<others, peers, pulled, listed, inRoom>>

roomVars == <<senderLive, sessInit, dests, sendInit>>

TypeOK ==
  /\ joined \in BOOLEAN /\ signalRunning \in BOOLEAN /\ member \in BOOLEAN
  /\ prevTime \in 0 .. MaxTime /\ now \in 0 .. MaxTime
  /\ toServer \in Seq(Requests)
  /\ toClient \in Seq([kind : Answers, ok : BOOLEAN, users : SUBSET Users])
  /\ Len(toServer) + Len(toClient) <= MaxInFlight
  /\ senderLive \in [Media -> BOOLEAN] /\ sessInit \in [Media -> BOOLEAN]
  /\ dests \in [Media -> 0 .. 1] /\ sendInit \in BOOLEAN
  /\ producer \in [pc : {"idle", "send"}, m : Media]
  /\ others \subseteq Others /\ peers \subseteq Users /\ pulled \subseteq Users
  /\ listed \in BOOLEAN /\ inRoom \in BOOLEAN

(* LiveMeetingRoom::initialize has created both senders; no conference. *)
Init ==
  /\ joined = FALSE /\ signalRunning = FALSE /\ member = FALSE
  /\ prevTime = 0 /\ now = 0
  /\ toServer = <<>> /\ toClient = <<>>
  /\ senderLive = [m \in Media |-> TRUE]
  /\ sessInit = [m \in Media |-> FALSE]
  /\ dests = [m \in Media |-> 0]
  /\ sendInit = FALSE
  /\ producer = [pc |-> "idle", m |-> "audio"]
  /\ others = {} /\ peers = {} /\ pulled = {}
  /\ listed = FALSE /\ inRoom = FALSE

-----------------------------------------------------------------------------
(***************************************************************************)
(* Application thread: the signal_* requests.                             *)
(***************************************************************************)

(* Requests refused with ERROR_CONFERENCE_ALREADY_JOINED / NOT_JOINED. *)
NeedsJoined(k) == k \notin {"create", "join"}

(* The rate limit: refused while a request is "running" and fewer than  *)
(* ApiLimit seconds have passed since the last one was sent.             *)
RateLimited(running) == running /\ now - prevTime < ApiLimit

(***************************************************************************)
(* The common tail of the signal_* functions, past the room-id check and  *)
(* the rate limit: set the flag and the time, then send_text, which fails *)
(* when the socket is not connected and then clears the flag.  A pull     *)
(* request names the users S.                                             *)
(***************************************************************************)
Send(k, S) ==
  /\ prevTime' = now
  /\ \/ /\ Len(toServer) + Len(toClient') < MaxInFlight
        /\ signalRunning' = TRUE
        /\ toServer' = Append(toServer, k)
        /\ pulled' = pulled \cup S
     \/ /\ SendFails
        /\ signalRunning' = FALSE
        /\ UNCHANGED <<toServer, pulled>>

(* A signal_* call of the application thread: refused by the rate limit *)
(* with nothing changed, or sent.                                         *)
Signal(k) ==
  /\ joined = NeedsJoined(k)
  /\ \/ /\ RateLimited(signalRunning)
        /\ UNCHANGED vars
     \/ /\ ~RateLimited(signalRunning)
        /\ toClient' = toClient
        /\ Send(k, {})
        /\ UNCHANGED <<joined, now, member, producer, others, peers, listed, inRoom>>
        /\ UNCHANGED roomVars

(***************************************************************************)
(* signal_start_pull_stream(streams), entered with the flag at running:   *)
(* ERROR_CONFERENCE_NOT_JOINED without a room id; then this client's own  *)
(* uuid is erased from streams and an empty map is ERROR_INVALID_PARAMS;  *)
(* then the rate limit, then the request naming the users left.  A        *)
(* refused call leaves the flag as it found it.                           *)
(***************************************************************************)
StartPull(S, running) ==
  LET streams == S \ {Me} IN
  \/ /\ (~joined \/ streams = {} \/ RateLimited(running))
     /\ signalRunning' = running
     /\ UNCHANGED <<prevTime, toServer, pulled>>
  \/ /\ joined /\ streams # {} /\ ~RateLimited(running)
     /\ Send("pull", streams)

SignalCreateConference == Signal("create")
SignalJoinConference == Signal("join")
SignalStopPullStream == Signal("stop_pull")
SignalExitConference == Signal("exit")
SignalStopConference == Signal("stop")
SignalOnlineUsers == Signal("online")

(* The application thread pulls the streams of the users S. *)
SignalStartPullStream(S) ==
  /\ joined /\ S \ {Me} # {} /\ ~RateLimited(signalRunning)
  /\ toClient' = toClient
  /\ StartPull(S, signalRunning)
  /\ UNCHANGED <<joined, now, member, producer, others, peers, listed, inRoom>>
  /\ UNCHANGED roomVars

(* CPU time passes. *)
Tick ==
  /\ now < MaxTime
  /\ now' = now + 1
  /\ UNCHANGED <<joined, signalRunning, prevTime, toServer, toClient, member, producer>>
  /\ UNCHANGED <<roomVars, userVars>>

-----------------------------------------------------------------------------
(***************************************************************************)
(* The server (not part of this repository): it handles requests in       *)
(* order.  create/join succeed for a non-member, the others for a member; *)
(* any request may be refused with a non-200 code, which changes nothing. *)
(* A conference joined may already hold other users; an online_users    *)
(* answer lists them, and perhaps the requester too (the client erases   *)
(* its own uuid before pulling, so it does not count on either).  While  *)
(* this client is a member, other users join and leave, and each change  *)
(* is pushed to it; the server may also close the conference.            *)
(***************************************************************************)
Admissible(k) == IF k \in {"create", "join"} THEN ~member ELSE member

(* The other users in the conference once request k is answered. *)
OthersAfter(k, ok) ==
  CASE ok /\ k = "join"                       -> SUBSET Others
    [] ok /\ k \in {"create", "exit", "stop"} -> {{}}
    [] OTHER                                  -> {others}

(* The users an answer names. *)
AnswerUsers(k, ok) == IF ok /\ k = "online" THEN {others, others \cup {Me}} ELSE {{}}

ServerHandle ==
  /\ toServer # <<>>
  /\ LET k == Head(toServer) IN
       \E ok \in IF Admissible(k) THEN BOOLEAN ELSE {FALSE} :
       \E users \in AnswerUsers(k, ok) :
         /\ member' = IF ok /\ k \in {"create", "join"} THEN TRUE
                      ELSE IF ok /\ k \in {"exit", "stop"} THEN FALSE
                      ELSE member
         /\ others' \in OthersAfter(k, ok)
         /\ toServer' = Tail(toServer)
         /\ toClient' = Append(toClient, [kind |-> k, ok |-> ok, users |-> users])
  /\ UNCHANGED <<joined, signalRunning, prevTime, now, producer, peers, pulled, listed, inRoom>>
  /\ UNCHANGED roomVars

(* A push of the server to a member: one of the answers' kinds. *)
Push(kind, users) ==
  /\ member
  /\ Len(toServer) + Len(toClient) < MaxInFlight
  /\ toClient' = Append(toClient, [kind |-> kind, ok |-> TRUE, users |-> users])
  /\ UNCHANGED <<joined, signalRunning, prevTime, now, toServer, producer, peers, pulled, listed, inRoom>>
  /\ UNCHANGED roomVars

ServerClose ==
  /\ Push("closing", {})
  /\ member' = FALSE
  /\ others' = {}

ServerUserJoin(u) ==
  /\ u \notin others
  /\ Push("new_joined", {u})
  /\ others' = others \cup {u}
  /\ UNCHANGED member

ServerUserLeave(u) ==
  /\ u \in others
  /\ Push("user_gone", {u})
  /\ others' = others \ {u}
  /\ UNCHANGED member

-----------------------------------------------------------------------------
(***************************************************************************)
(* Websocket thread: the answer handlers.                                 *)
(***************************************************************************)

(***************************************************************************)
(* add_sender_destination: return if a sender is NULL; initialize the     *)
(* audio then the video session once (each init returns true at once if   *)
(* done, and may fail to bind), returning on a failure; then add one      *)
(* destination to each session.                                           *)
(***************************************************************************)
AddSenderDestination ==
  /\ senderLive' = senderLive
  /\ IF ~senderLive["audio"] \/ ~senderLive["video"]
     THEN UNCHANGED <<sessInit, dests, sendInit>>
     ELSE IF sendInit
     THEN /\ dests' = [m \in Media |-> dests[m] + 1]
          /\ UNCHANGED <<sessInit, sendInit>>
     ELSE \E okA, okV \in BOOLEAN :
            LET a == sessInit["audio"] \/ okA
                v == sessInit["video"] \/ okV
            IN /\ sessInit' = [sessInit EXCEPT !["audio"] = a,
                                               !["video"] = IF a THEN v ELSE @]
               /\ sendInit' = (a /\ v)
               /\ dests' = IF a /\ v THEN [m \in Media |-> dests[m] + 1] ELSE dests

(* Fault-injection variant: m_rtp_send_initialized left set. *)
RemoveSenderKeepingFlag ==
  /\ UNCHANGED sendInit
  /\ senderLive' = [m \in Media |-> FALSE]
  /\ sessInit' = [m \in Media |-> FALSE]
  /\ dests' = [m \in Media |-> 0]

(* remove_sender: clear m_rtp_send_initialized, delete both senders. *)
RemoveSender ==
  /\ sendInit' = FALSE
  /\ senderLive' = [m \in Media |-> FALSE]
  /\ sessInit' = [m \in Media |-> FALSE]
  /\ dests' = [m \in Media |-> 0]

(* The handler sends no request. *)
NoSend == UNCHANGED <<prevTime, toServer, pulled>>

(***************************************************************************)
(* conference_event_callback of main.cpp, run by the handlers on the      *)
(* websocket thread.  EXIT, USER_GONE_OUT, STOPPED and CLOSING only log.  *)
(***************************************************************************)

(* EVENT_CONFERENCE_CREATED: g_in_room = true. *)
EventConferenceCreated == inRoom' = TRUE /\ NoSend

(* EVENT_CONFERENCE_JOINED: g_in_room = true, then signal_online_users,   *)
(* whose room-id check passes and whose flag the handler just cleared.    *)
EventConferenceJoined == inRoom' = TRUE /\ Send("online", {})

(* EVENT_OTHER_USER_JOINED: pull the new user's streams. *)
EventOtherUserJoined(u, running) == StartPull({u}, running) /\ UNCHANGED inRoom

(* EVENT_ONLINE_USERS: pull the streams of every user listed. *)
EventOnlineUsers(U, running) == StartPull(U, running) /\ UNCHANGED inRoom

(* on_ws_conference_create: record the identity, add_sender_destination,  *)
(* start the receive thread (RoomPeers), clear the flag, then the         *)
(* callback for EVENT_CONFERENCE_CREATED sets g_in_room.  The creator's   *)
(* conference starts with no other user, so it knows all of them.         *)
OnWsConferenceCreate ==
  /\ joined' = TRUE
  /\ AddSenderDestination
  /\ signalRunning' = FALSE
  /\ listed' = TRUE
  /\ EventConferenceCreated
  /\ UNCHANGED peers

(* on_ws_conference_join, for this client's own uuid: as create, then the *)
(* callback for EVENT_CONFERENCE_JOINED sets g_in_room and calls          *)
(* signal_online_users, which finds the flag just cleared.                *)
OnWsConferenceJoin ==
  /\ joined' = TRUE
  /\ AddSenderDestination
  /\ EventConferenceJoined
  /\ UNCHANGED <<peers, listed>>

(* Answers whose only effect here is clearing m_is_signal_running. *)
ClearSignal ==
  /\ signalRunning' = FALSE
  /\ NoSend
  /\ UNCHANGED <<joined, senderLive, sessInit, dests, sendInit, peers, listed, inRoom>>

OnWsConferencePullStream == ClearSignal
OnWsConferenceStopPulling == ClearSignal

(* on_ws_conference_online_users: clear the flag, add every listed user   *)
(* not yet in m_other_users_map (its own uuid included), then the         *)
(* callback for EVENT_ONLINE_USERS pulls the streams of all of them.      *)
OnWsConferenceOnlineUsers(U) ==
  /\ peers' = peers \cup U
  /\ listed' = TRUE
  /\ EventOnlineUsers(U, FALSE)
  /\ UNCHANGED <<joined, senderLive, sessInit, dests, sendInit>>

(* on_ws_conference_new_joined: add the user if absent, then the callback *)
(* for EVENT_OTHER_USER_JOINED pulls its streams, the flag as it is.      *)
OnWsConferenceNewJoined(u) ==
  /\ peers' = peers \cup {u}
  /\ EventOtherUserJoined(u, signalRunning)
  /\ UNCHANGED <<joined, senderLive, sessInit, dests, sendInit, listed>>

(* Fault-injection variant: the user left in the map. *)
UserGoneKeepingPeer(u) ==
  /\ pulled' = pulled \ {u}
  /\ UNCHANGED <<joined, signalRunning, prevTime, toServer, senderLive, sessInit, dests, sendInit, peers, listed, inRoom>>

(* on_ws_conference_user_gone: erase the user from the map; the callback  *)
(* for EVENT_USER_GONE_OUT only logs.                                     *)
OnWsConferenceUserGone(u) ==
  /\ peers' = peers \ {u}
  /\ pulled' = pulled \ {u}
  /\ UNCHANGED <<joined, signalRunning, prevTime, toServer, senderLive, sessInit, dests, sendInit, listed, inRoom>>

(* exit / stop / closing: stop_receive, remove_sender, clear the map,     *)
(* empty the identity strings, clear the flag; the callbacks for          *)
(* EVENT_CONFERENCE_EXIT / STOPPED / CLOSING only log, so g_in_room stays *)
(* set.                                                                    *)
Teardown ==
  /\ RemoveSender
  /\ joined' = FALSE
  /\ signalRunning' = FALSE
  /\ peers' = {} /\ pulled' = {} /\ listed' = FALSE
  /\ UNCHANGED <<prevTime, toServer, inRoom>>

(* Fault-injection variant: the handler forgets remove_sender. *)
TeardownKeepingSenders ==
  /\ UNCHANGED <<senderLive, sessInit, dests, sendInit>>
  /\ joined' = FALSE
  /\ signalRunning' = FALSE
  /\ peers' = {} /\ pulled' = {} /\ listed' = FALSE
  /\ UNCHANGED <<prevTime, toServer, inRoom>>

OnWsConferenceExit == Teardown
OnWsConferenceStop == Teardown
OnWsConferenceClosing == Teardown

(* The one user a push names. *)
Named(a) == CHOOSE u \in a.users : TRUE

(* Dispatch of the oldest answer by opcode. *)
Dispatch(a) ==
  CASE a.kind = "create"     -> OnWsConferenceCreate
    [] a.kind = "join"       -> OnWsConferenceJoin
    [] a.kind = "pull"       -> OnWsConferencePullStream
    [] a.kind = "stop_pull"  -> OnWsConferenceStopPulling
    [] a.kind = "online"     -> OnWsConferenceOnlineUsers(a.users)
    [] a.kind = "new_joined" -> OnWsConferenceNewJoined(Named(a))
    [] a.kind = "user_gone"  -> OnWsConferenceUserGone(Named(a))
    [] a.kind = "exit"       -> OnWsConferenceExit
    [] a.kind = "stop"       -> OnWsConferenceStop
    [] a.kind = "closing"    -> OnWsConferenceClosing

(* Fault-injection variant: the status code not checked. *)
OnWebsocketMessageIgnoringStatus ==
  /\ toClient # <<>>
  /\ toClient' = Tail(toClient)
  /\ Dispatch(Head(toClient))
  /\ UNCHANGED <<now, member, producer, others>>

(* on_websocket_message: a non-200 answer is logged and dropped, leaving  *)
(* m_is_signal_running set; otherwise the opcode's handler runs.          *)
OnWebsocketMessage ==
  /\ toClient # <<>>
  /\ toClient' = Tail(toClient)
  /\ IF Head(toClient).ok
     THEN Dispatch(Head(toClient))
     ELSE /\ NoSend
          /\ UNCHANGED <<joined, signalRunning, peers, listed, inRoom>>
          /\ UNCHANGED roomVars
  /\ UNCHANGED <<now, member, producer, others>>

-----------------------------------------------------------------------------
(***************************************************************************)
(* Producer thread.                                                       *)
(***************************************************************************)

(* LiveMeetingRoom::send_h264_data / send_aac_data: return if the sender  *)
(* is NULL, else keep the pointer read.                                   *)
SendMediaCheck(m) ==
  /\ producer.pc = "idle" /\ senderLive[m]
  /\ producer' = [pc |-> "send", m |-> m]
  /\ UNCHANGED <<joined, signalRunning, prevTime, now, toServer, toClient, member>>
  /\ UNCHANGED <<roomVars, userVars>>

(* ...->send_h264_data(data, length) through that pointer; the session    *)
(* returns false unless m_initialize, else packetizes and fans out.       *)
SendMediaCall ==
  /\ producer.pc = "send"
  /\ producer' = [producer EXCEPT !.pc = "idle"]
  /\ UNCHANGED <<joined, signalRunning, prevTime, now, toServer, toClient, member>>
  /\ UNCHANGED <<roomVars, userVars>>

-----------------------------------------------------------------------------
Next ==
  \/ SignalCreateConference \/ SignalJoinConference
  \/ SignalStopPullStream \/ SignalExitConference \/ SignalStopConference
  \/ SignalOnlineUsers \/ Tick
  \/ \E S \in SUBSET Users : SignalStartPullStream(S)
  \/ ServerHandle \/ ServerClose
  \/ \E u \in Others : ServerUserJoin(u) \/ ServerUserLeave(u)
  \/ OnWebsocketMessage
  \/ SendMediaCall \/ \E m \in Media : SendMediaCheck(m)

Spec == Init /\ [][Next]_vars

-----------------------------------------------------------------------------
(***************************************************************************)
(* Properties.                                                            *)
(***************************************************************************)

(* Whenever no request or answer is in transit, the client believes it is *)
(* in a conference exactly when the server counts it as a member: the     *)
(* handlers act only on 200 answers, and exit, stop and closing all       *)
(* forget the conference.                                                 *)
MembershipAgrees ==
  toServer = <<>> /\ toClient = <<>> => joined = member

(* m_rtp_send_initialized is set only while both senders exist and both   *)
(* sessions are initialized, so add_sender_destination never skips the    *)
(* init of a session that is gone.                                        *)
SendInitMeansSessionsReady ==
  sendInit => \A m \in Media : senderLive[m] /\ sessInit[m]

(* With nothing in transit and the client in a conference, the keys of   *)
(* m_other_users_map are, besides perhaps this client's own uuid, users   *)
(* the server has in the conference; and once an online_users answer (or *)
(* creating the conference) told the client who was there, they are all  *)
(* of them: new_joined and user_gone pushes, the online_users answer and  *)
(* the teardown of an earlier conference must be applied in the order    *)
(* the server sent them, each to the map.                                 *)
PeersMatchConference ==
  toServer = <<>> /\ toClient = <<>> /\ joined =>
    /\ peers \ {Me} \subseteq others
    /\ listed => others \subseteq peers

(* With nothing in transit and the client in a conference, it has sent a *)
(* pull request for every other user in m_other_users_map: main.cpp's     *)
(* comments say the callbacks request the streams of each user announced. *)
EveryPeerPulled ==
  toServer = <<>> /\ toClient = <<>> /\ joined => peers \ {Me} \subseteq pulled

(* The producer thread calls send_*_data only on a sender that has not    *)
(* been deleted (spec 4.8: send sessions are used by the producer and     *)
(* torn down at exit, stop and closing).                                  *)
ProducerUsesLiveSender ==
  producer.pc = "send" => senderLive[producer.m]

====
