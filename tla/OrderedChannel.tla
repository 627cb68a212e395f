--------------------------- MODULE OrderedChannel ---------------------------
(***************************************************************************)
(* What a receive session promises the code that polls it: the packets    *)
(* the remote sender numbers 0, 1, 2, ... are handed over in increasing    *)
(* order, each at most once, and only after they were sent.  Packets may  *)
(* be skipped (lost, or overtaken by more than the reorder depth); they   *)
(* are never reordered or repeated.  SessionReceiver implements it.       *)
(***************************************************************************)
EXTENDS Naturals, Sequences

VARIABLES
  sentCount,   \* packets the sender has numbered so far
  delivered    \* packet numbers handed over, in the order handed over

chanVars == <<sentCount, delivered>>

Init == sentCount = 0 /\ delivered = <<>>

(* The sender numbers one more packet. *)
Send == sentCount' = sentCount + 1 /\ UNCHANGED delivered

(* A sent packet later than every packet handed over so far is handed over. *)
Deliver ==
  \E n \in 0 .. (sentCount - 1) :
    /\ delivered = <<>> \/ n > delivered[Len(delivered)]
    /\ delivered' = Append(delivered, n)
    /\ UNCHANGED sentCount

Next == Send \/ Deliver

Spec == Init /\ [][Next]_chanVars

====
