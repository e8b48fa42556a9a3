----------------------------- MODULE MCClientConn -----------------------------
(* Client connections for TLC: two sessions that can disturb one another, or   *)
(* one session with every kind of packet and reads ending anywhere.            *)
EXTENDS ClientConn

\* The kinds a run with two sessions keeps: disconnects by handler and by plan.
FewKinds == {"cmd", "php", "key"}
===============================================================================
