------------------------------ MODULE MCClientNet -----------------------------
(* The client's network part for TLC.                                          *)
EXTENDS ClientNet
===============================================================================
