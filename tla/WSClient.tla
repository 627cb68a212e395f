------------------------------ MODULE WSClient ------------------------------
(***************************************************************************)
(* WSClient of src/src/websocket/ws_client.cpp: the one websocket          *)
(* connection of LiveMeetingRoom to the signalling server, kept alive by  *)
(* a 12 s mongoose timer.                                                 *)
(*                                                                         *)
(* Everything but send_text runs on the room's websocket thread, in       *)
(* mg_mgr_poll (websocket_pulse_loop calls pulse(50) while                *)
(* m_ws_thread_running): the timer (on_timer) and the connection events   *)
(* (on_event_handle), one at a time.  The mongoose library is not in this *)
(* repository; its behaviour is modelled as mongoose 7 documents it:      *)
(* mg_ws_connect allocates a connection and starts connecting,            *)
(* mg_close_conn calls the handler with MG_EV_CLOSE and frees the         *)
(* connection before it returns, a failed connect raises MG_EV_ERROR and  *)
(* then MG_EV_CLOSE in the same poll, and MG_EV_WS_OPEN / MG_EV_WS_MSG    *)
(* come only for a connection whose handshake completed.  The network may *)
(* refuse or hang a connect and may close an open connection.            *)
(*                                                                         *)
(* A connection is one of Conns, the addresses calloc may return; a freed *)
(* address may be handed out again.  mg[c] is what mongoose holds at c:   *)
(*   free        nothing (never allocated, or freed)                      *)
(*   connecting  connect or handshake in progress                         *)
(*   hung        the server stopped answering the handshake               *)
(*   open        the handshake completed                                  *)
(* The event callback m_ws_func is LiveMeetingRoom::on_websocket_event,   *)
(* which calls conference_signal_callback of main.cpp; that sets          *)
(* g_room_connected.                                                      *)
(***************************************************************************)
EXTENDS Naturals

CONSTANTS
  Conns,   \* addresses a struct mg_connection may be allocated at
  NULL     \* the NULL pointer

ASSUME NULL \notin Conns

MgStates == {"free", "connecting", "hung", "open"}

VARIABLES
  m_connection,      \* WSClient::m_connection
  m_connected,       \* WSClient::m_connected
  mg,                \* the connections of m_mgr, by address
  g_room_connected,  \* main.cpp's g_room_connected
  mutex              \* m_mutex: "free", or held by an application thread

wsVars == <<m_connection, m_connected, mg, g_room_connected, mutex>>

WsTypeOK ==
  /\ m_connection \in Conns \cup {NULL}
  /\ m_connected \in BOOLEAN /\ g_room_connected \in BOOLEAN
  /\ mg \in [Conns -> MgStates]
  /\ mutex \in {"free", "app"}

(* The constructor: no connection; the timer is armed with RUN_NOW, so    *)
(* it fires at the first poll.                                            *)
WsInit ==
  /\ m_connection = NULL /\ m_connected = FALSE
  /\ mg = [c \in Conns |-> "free"]
  /\ g_room_connected = FALSE
  /\ mutex = "free"

-----------------------------------------------------------------------------
(***************************************************************************)
(* on_event_handle, for the events that change state.  The handler never *)
(* looks at conn: it acts on m_connection and m_connected whichever       *)
(* connection the event is for.                                           *)
(***************************************************************************)

(* MG_EV_WS_OPEN: m_connected = true, then m_ws_func(MG_EV_WS_OPEN), and  *)
(* conference_signal_callback sets g_room_connected.                      *)
OnWsOpen ==
  /\ m_connected' = TRUE
  /\ g_room_connected' = TRUE
  /\ UNCHANGED m_connection

(* Fault-injection variant: m_connection not cleared on close. *)
OnCloseKeepingConnection ==
  /\ m_connected' = FALSE
  /\ g_room_connected' = FALSE
  /\ UNCHANGED m_connection

(* MG_EV_CLOSE: m_connection = NULL, m_connected = false, then            *)
(* m_ws_func(MG_EV_CLOSE), and conference_signal_callback clears          *)
(* g_room_connected.                                                      *)
OnClose ==
  /\ m_connection' = NULL
  /\ m_connected' = FALSE
  /\ g_room_connected' = FALSE

(* mg_ws_connect on the manager holding mg1: a new connection at a free  *)
(* address, connecting, assigned to m_connection.                         *)
Connect(mg1) ==
  \E c \in Conns :
    /\ mg1[c] = "free"
    /\ mg' = [mg1 EXCEPT ![c] = "connecting"]
    /\ m_connection' = c

-----------------------------------------------------------------------------
(***************************************************************************)
(* on_timer, every 12 s on the websocket thread: a ping on a connected    *)
(* socket (under m_mutex); else close a connection that has not opened    *)
(* and connect again; else connect.  mg_close_conn runs the MG_EV_CLOSE   *)
(* handler (m_connection and m_connected cleared, the callbacks told) and *)
(* frees the connection; then m_connection is set to the new one.         *)
(***************************************************************************)
(* Fault-injection variant: a connection that never opens is kept. *)
OnTimerKeepingAttempt ==
  \/ /\ m_connected /\ mutex = "free"
     /\ UNCHANGED wsVars
  \/ /\ ~m_connected /\ m_connection # NULL
     /\ UNCHANGED wsVars
  \/ /\ ~m_connected /\ m_connection = NULL
     /\ Connect(mg)
     /\ UNCHANGED <<m_connected, g_room_connected, mutex>>

on_timer ==
  \/ /\ m_connected /\ mutex = "free"
     /\ UNCHANGED wsVars
  \/ /\ ~m_connected /\ m_connection # NULL
     /\ m_connected' = FALSE /\ g_room_connected' = FALSE
     /\ Connect([mg EXCEPT ![m_connection] = "free"])
     /\ UNCHANGED mutex
  \/ /\ ~m_connected /\ m_connection = NULL
     /\ Connect(mg)
     /\ UNCHANGED <<m_connected, g_room_connected, mutex>>

(* The handshake of connection c completes: MG_EV_WS_OPEN. *)
WsOpen(c) ==
  /\ mg[c] = "connecting"
  /\ mg' = [mg EXCEPT ![c] = "open"]
  /\ OnWsOpen
  /\ UNCHANGED mutex

(* A text frame arrives on c: MG_EV_WS_MSG with WEBSOCKET_OP_TEXT, and     *)
(* on_message_received hands it to LiveMeetingRoom::on_websocket_message, *)
(* whose handlers (RoomSignal) may call send_text on this thread; with    *)
(* m_connection and m_connected set, mg_ws_send writes to m_connection.   *)
(* Ping and pong control frames (MG_EV_WS_CTL) only log.                  *)
WsText(c) ==
  /\ mg[c] = "open"
  /\ UNCHANGED wsVars

(***************************************************************************)
(* Faults of the network.  The server stops answering a handshake; a      *)
(* connect fails (MG_EV_ERROR, which only logs, then MG_EV_CLOSE when     *)
(* mongoose frees the connection); an open connection is closed by the    *)
(* server or the network (MG_EV_CLOSE).                                   *)
(***************************************************************************)
Hang(c) ==
  /\ mg[c] = "connecting"
  /\ mg' = [mg EXCEPT ![c] = "hung"]
  /\ UNCHANGED <<m_connection, m_connected, g_room_connected, mutex>>

ConnectError(c) ==
  /\ mg[c] \in {"connecting", "hung"}
  /\ mg' = [mg EXCEPT ![c] = "free"]
  /\ OnClose
  /\ UNCHANGED mutex

PeerClose(c) ==
  /\ mg[c] = "open"
  /\ mg' = [mg EXCEPT ![c] = "free"]
  /\ OnClose
  /\ UNCHANGED mutex

Fault == \E c \in Conns : Hang(c) \/ ConnectError(c) \/ PeerClose(c)

(* One step of the websocket thread's mg_mgr_poll. *)
PulseStep ==
  \/ on_timer
  \/ Fault
  \/ \E c \in Conns : WsOpen(c) \/ WsText(c)

-----------------------------------------------------------------------------
(***************************************************************************)
(* send_text called by an application thread (the signal_* functions     *)
(* called from main's thread, as main.cpp's commented-out calls do): the *)
(* test of m_connection and m_connected without the lock, then            *)
(* mg_ws_send(m_connection, ...) under m_mutex, which only on_timer's     *)
(* ping also takes.                                                       *)
(***************************************************************************)
SendTextCheck ==
  /\ mutex = "free"
  /\ m_connection # NULL /\ m_connected
  /\ mutex' = "app"
  /\ UNCHANGED <<m_connection, m_connected, mg, g_room_connected>>

SendTextWrite ==
  /\ mutex = "app"
  /\ mutex' = "free"
  /\ UNCHANGED <<m_connection, m_connected, mg, g_room_connected>>

AppSend == SendTextCheck \/ SendTextWrite

-----------------------------------------------------------------------------
(* Mongoose holds no connection but the one m_connection names, so none   *)
(* leaks; m_connection never names a freed connection (on_timer closes   *)
(* it, a double free, or pings it); and m_connected, like main.cpp's      *)
(* g_room_connected, says exactly whether that connection is open: the    *)
(* close handler, on_timer's close-and-reconnect and address reuse keep    *)
(* the three in step.                                                      *)
LiveConnectionTracked ==
  /\ \A c \in Conns : mg[c] # "free" => c = m_connection
  /\ m_connection # NULL => mg[m_connection] # "free"
  /\ m_connected = (m_connection # NULL /\ mg[m_connection] = "open")
  /\ g_room_connected = m_connected

(* send_text's mg_ws_send, run under m_mutex by an application thread,   *)
(* writes to an open connection: the one it tested before locking.        *)
AppSendsOnOpenConnection ==
  mutex = "app" => m_connection # NULL /\ mg[m_connection] = "open"

====
