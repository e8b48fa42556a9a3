-------------------------------- MODULE MCLogLib -------------------------------
(* The log writer for TLC: commits at two, three logs, and room for a statement *)
(* of another script.                                                          *)
EXTENDS LogLib
===============================================================================
