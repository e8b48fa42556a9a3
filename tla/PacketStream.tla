------------------------------ MODULE PacketStream ------------------------------
(* What the receive cache promises of one number, a client's session or a       *)
(* server's: the cells of a connection are kept in the order they were sent and *)
(* handed over in whole packets from the first one on; when it ends nothing of  *)
(* it is left for the next connection.                                          *)
EXTENDS Integers, Sequences

CONSTANT PktLen        \* cells of a packet

VARIABLES up,          \* the process runs
          open,        \* a connection of this number delivers
          kept,        \* its cells in the cache, by their place in the connection
          taken,       \* its cells handed over
          void         \* one ended within a packet and left cells behind

stream == <<up, open, kept, taken, void>>

Init == up /\ ~open /\ kept = << >> /\ taken = 0 /\ ~void

\* A connection is there, and starts afresh.
Open ==
    /\ ~open /\ open'
    /\ kept' = << >> /\ taken' = 0

\* Its next cells are read.
Receive ==
    /\ open /\ open'
    /\ \E n \in 0..Len(kept') : kept' = kept \o [j \in 1..n |-> taken + Len(kept) + j]
    /\ UNCHANGED taken

\* onRecvData cuts the next packet out and hands it over.
HandOver ==
    /\ open /\ open'
    /\ Len(kept) >= PktLen
    /\ kept' = SubSeq(kept, PktLen + 1, Len(kept))
    /\ taken' = taken + PktLen

\* The connection ends, and nothing of it is kept.
End ==
    /\ open /\ ~open'
    /\ kept' = << >>
    /\ UNCHANGED taken

\* It ends with cells in the cache, and from then on nothing is promised.
Cut == open /\ ~open' /\ kept # << >> /\ void'
Void == (Cut \/ void) /\ void' /\ up'

\* The process is gone.
Gone == up /\ ~up'

Next ==
    \/ (Open \/ Receive \/ HandOver \/ End) /\ UNCHANGED <<up, void>>
    \/ Void \/ Gone

Spec == Init /\ [][Next]_stream
===============================================================================
