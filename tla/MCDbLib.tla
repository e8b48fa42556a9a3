-------------------------------- MODULE MCDbLib --------------------------------
(* Asynchronous SQL for TLC: a few statements on two worker threads, with as   *)
(* many tokens as statements or fewer, so that tokens come round.              *)
EXTENDS DbLib
===============================================================================
