------------------------------- MODULE MCTimeLine ------------------------------
(* The timers for TLC: a grid of two, delays of one and of two slots, a clock   *)
(* that passes four slots, one timeout table key.                              *)
EXTENDS TimeLine
===============================================================================
