-------------------------------- MODULE NetLib --------------------------------
(* The framing rules of netlib.onRecvData (common/netlib.lua), shared by every *)
(* module whose connections hand bytes to Lua.                                 *)
(*                                                                             *)
(* A byte stream is cut into cells, numbered 1, 2, ... from its start.  A cell *)
(* is the smallest piece a read may end on: HdrLen cells make the four-byte    *)
(* length field and PktLen cells a whole packet, so a read can end inside the  *)
(* length field, inside the body or on a boundary.                             *)
EXTENDS Integers, Sequences

CONSTANTS HdrLen,        \* cells of the length field (4 bytes in the code)
          PktLen,        \* cells of a packet, its length field included
          MaxRecvSize    \* netlib.maxRecvSize, in cells

ASSUME FrameAssumption ==
    /\ HdrLen \in Nat \ {0}
    /\ PktLen \in Nat /\ PktLen >= HdrLen
    /\ MaxRecvSize \in Nat

(* What a packet is, as far as onRecvData and its handlers tell packets apart: *)
(*   cmd    op_client / op_sever (handler runs under pcall) or a head nobody   *)
(*          handles; a script may answer and may disconnect a client           *)
(*   php    op_php, registered, its handler returns a result                   *)
(*   ask    op_php, registered, answered later through phplib.send             *)
(*   nocmd  op_php, not registered                                             *)
(*   key    op_php with a wrong md5                                            *)
(*   raise  a packet whose decoding, or whose php handler, raises              *)
(*   zero   a length field below 1                                             *)
(*   huge   a length field above maxRecvSize                                   *)
Kind == {"cmd", "php", "ask", "nocmd", "key", "raise", "zero", "huge"}

\* n consecutive cells of a stream, those after its first a.
Run(a, n) == [j \in 1..n |-> a + j]

\* The packet a cell belongs to.
PacketOf(cell) == ((cell - 1) \div PktLen) + 1

\* Mutant: a packet that has just arrived whole is still waited for.
VerdictLate(c, k) ==
    IF Len(c) < HdrLen \/ k = "zero" THEN "wait"
    ELSE IF k = "huge" \/ Len(c) > MaxRecvSize THEN "oversize"
    ELSE IF Len(c) <= PktLen THEN "wait"
    ELSE "frame"

(* The decision of one turn of the receive loop for the cached data c, whose   *)
(* first packet is of kind k: return and wait, disconnect, or cut out a frame. *)
Verdict(c, k) ==
    IF Len(c) < HdrLen \/ k = "zero" THEN "wait"
    ELSE IF k = "huge" \/ Len(c) > MaxRecvSize THEN "oversize"
    ELSE IF Len(c) < PktLen THEN "wait"
    ELSE "frame"

\* Mutants of the cut: one cell short, and the rest not put back.
LeftDataOneShort(c) == SubSeq(c, PktLen, Len(c))
LeftDataDropped(c) == <<>>

\* leftDataStr: what stays in the cache once the first frame is cut out.
LeftData(c) == SubSeq(c, PktLen + 1, Len(c))
===============================================================================
