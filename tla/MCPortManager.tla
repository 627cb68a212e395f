--------------------------- MODULE MCPortManager ---------------------------
(* Three ports, the smallest pool in which a refill can put a live port   *)
(* back in front of a free one.                                           *)
EXTENDS PortManager

MCPortStart == 1
MCPortEnd == 4
=============================================================================
