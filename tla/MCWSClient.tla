----------------------------- MODULE MCWSClient -----------------------------
(***************************************************************************)
(* The websocket client with an application thread calling send_text      *)
(* next to the websocket thread's mg_mgr_poll steps.                      *)
(***************************************************************************)
EXTENDS WSClient

Next == PulseStep \/ AppSend

Spec == WsInit /\ [][Next]_wsVars

====
