------------------------------ MODULE MCGateway -------------------------------
(* Links and clients for TLC: a number a client and a link share, and one of a  *)
(* link only.                                                                  *)
EXTENDS Gateway
===============================================================================
