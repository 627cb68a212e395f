----------------------------- MODULE MCMsgQueue -----------------------------
(* Two logging threads putting two messages each into a queue of two.    *)
EXTENDS MsgQueue

MCProducers == {"t1", "t2"}
====
