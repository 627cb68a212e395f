---------------------------- MODULE MCRoomSignal ----------------------------
(***************************************************************************)
(* Bounds for RoomSignal.  A rate limit of two seconds and three seconds  *)
(* of CPU time give requests refused by the limit, a request accepted     *)
(* once the limit expires with the previous one still unanswered, and     *)
(* requests accepted after an answer cleared the flag.  Two messages in   *)
(* transit let a request overtake the answer to the one before it and a   *)
(* server closing race an exit.                                           *)
(***************************************************************************)
EXTENDS RoomSignal, TLC

MCApiLimit == 2
MCMaxTime == 3
MCMaxInFlight == 2
CONSTANTS u1, u2
MCOthers == {u1, u2}
MCSymmetry == Permutations(MCOthers)

====
