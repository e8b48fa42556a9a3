-------------------------------- MODULE Gateway --------------------------------
(* Links to other servers (connectTo, connect_cb, read_server_cb and            *)
(* cppCloseServerConn of GameServer.cpp) and the receive cache they share with  *)
(* the clients: read_cb hands lua_onrecv a session, read_server_cb a server      *)
(* number, and netlib keeps the bytes of both under that number.                *)
(*                                                                             *)
(* A packet is two cells, its head, which holds the length, and its tail.  A    *)
(* cell knows the connection it was read from and its place there; what a tail   *)
(* reads as when it is taken for a head is anything.  Of the clients' own life   *)
(* cycle, which ClientConn has in full, only what the cache meets is here.      *)
EXTENDS Integers, Sequences

CONSTANTS Session,     \* session numbers of clients
          Sno,         \* server numbers of the configuration
          MaxRecv,     \* netlib.maxRecvSize, in cells
          MaxCells,    \* bound: cells read from one connection
          MaxGen       \* bound: connections of one link

ASSUME GatewayAssumption ==
    /\ Session \subseteq Nat \ {0} /\ Sno \subseteq Nat \ {0}
    /\ MaxRecv \in Nat /\ MaxCells \in Nat /\ MaxGen \in Nat

Key == Session \cup Sno
NoKey == 0
Client == "client"
Server == "server"

VARIABLES
    link,        \* the record of each link and its handle
    gen,         \* connections each link has had
    client,      \* the handle of each client
    pos,         \* cells read of the connection of each client, of each link
    cash,        \* netlib._recvDataCash
    busy,        \* the number whose onRecvData is on the stack, or NoKey
    stale,       \* links with a freed record libuv still holds the handle of
    crashed,     \* a callback has used a freed record: the process is gone
    \* For the properties only:
    took,        \* cells of its connection taken out under each number
    spoiled,     \* numbers under which something else than a packet was handed over
    cutOff       \* links that ended with bytes in the cache

links == <<link, gen, stale>>
cache == <<cash, busy, took, spoiled>>
vars == <<links, client, pos, cache, crashed, cutOff>>

IsHead(c) == c.i % 2 = 1
Cell == {c \in [src : {Client, Server}, gen : 0..MaxGen, i : 1..MaxCells, big : BOOLEAN] :
            c.big => IsHead(c)}
Conn == ({Client} \X Session) \cup ({Server} \X Sno)

TypeOK ==
    /\ link \in [Sno -> {"none", "connecting", "connected", "shut", "closing", "closed"}]
    /\ gen \in [Sno -> 0..MaxGen] /\ stale \subseteq Sno
    /\ client \in [Session -> {"none", "open", "shut", "closing", "freed"}]
    /\ pos \in [Conn -> 0..MaxCells]
    /\ cash \in [Key -> Seq(Cell)] /\ busy \in Key \cup {NoKey}
    /\ took \in [Key -> Nat] /\ crashed \in BOOLEAN
    /\ spoiled \subseteq Key /\ cutOff \subseteq Sno

\* A process that has met no one.
Fresh ==
    [link |-> [n \in Sno |-> "none"], gen |-> [n \in Sno |-> 0],
     client |-> [s \in Session |-> "none"],
     pos |-> [x \in Conn |-> 0],
     cash |-> [k \in Key |-> << >>], took |-> [k \in Key |-> 0]]

Init ==
    /\ link = Fresh.link /\ gen = Fresh.gen /\ stale = {}
    /\ client = Fresh.client /\ pos = Fresh.pos
    /\ cash = Fresh.cash /\ busy = NoKey /\ took = Fresh.took
    /\ crashed = FALSE /\ spoiled = {} /\ cutOff = {}

\* The loop may run the next callback; a script is running.
Idle == busy = NoKey /\ ~crashed

-------------------------------------------------------------------------------
(* Links.                                                                      *)

\* connectTo: hasConnected lets the scripts connect when they are loaded first only.
ConnectTo(n) ==
    /\ ~crashed
    /\ link[n] = "none"
    /\ link' = [link EXCEPT ![n] = "connecting"]
    /\ UNCHANGED <<gen, stale, client, pos, cache, crashed, cutOff>>

\* connect_cb: the record goes into the table and is read from.  A connection
\* that fails is asked for again at once, which changes nothing here.
ConnectCb(n) ==
    /\ Idle
    /\ link[n] = "connecting" /\ gen[n] < MaxGen
    /\ link' = [link EXCEPT ![n] = "connected"]
    /\ gen' = [gen EXCEPT ![n] = gen[n] + 1]
    /\ pos' = [pos EXCEPT ![<<Server, n>>] = 0]
    /\ took' = [took EXCEPT ![n] = IF n \in Session THEN took[n] ELSE 0]
    /\ UNCHANGED <<stale, client, cash, busy, spoiled, crashed, cutOff>>

\* What a link's end leaves in the cache: nothing clears it.
EndsLink(n) == cutOff' = IF cash[n] = << >> THEN cutOff ELSE cutOff \cup {n}

\* read_server_cb at end of file or error: a new record takes the old one's place
\* and connects.  The old one is freed and not closed: libuv keeps its handle, and
\* the shutdown it may have asked for.
ReadServerEof(n) ==
    /\ Idle
    /\ link[n] \in {"connected", "shut"}
    /\ link' = [link EXCEPT ![n] = "connecting"]
    /\ stale' = stale \cup {n}
    /\ EndsLink(n)
    /\ UNCHANGED <<gen, client, pos, cache, crashed>>

\* libuv or shutdownSC_cb uses a freed record, and the process is gone.
FreedUsed(n) ==
    /\ Idle
    /\ n \in stale
    /\ crashed' = TRUE
    /\ link' = Fresh.link /\ gen' = Fresh.gen /\ stale' = {}
    /\ client' = Fresh.client /\ pos' = Fresh.pos
    /\ cash' = Fresh.cash /\ took' = Fresh.took
    /\ spoiled' = {} /\ cutOff' = {}
    /\ UNCHANGED busy

\* cppCloseServerConn: finds the record in the table, where one that is connecting
\* is not, and asks for a shutdown.
CloseServerConn(n) ==
    /\ ~crashed
    /\ link[n] = "connected"
    /\ link' = [link EXCEPT ![n] = "shut"]
    /\ UNCHANGED <<gen, stale, client, pos, cache, crashed, cutOff>>

ShutdownScCb(n) ==
    /\ Idle
    /\ link[n] = "shut"
    /\ link' = [link EXCEPT ![n] = "closing"]
    /\ UNCHANGED <<gen, stale, client, pos, cache, crashed, cutOff>>

\* closeSC_cb; no script defines the lua_onServerFinalClosed it calls.
CloseScCb(n) ==
    /\ Idle
    /\ link[n] = "closing"
    /\ link' = [link EXCEPT ![n] = "closed"]
    /\ EndsLink(n)
    /\ UNCHANGED <<gen, stale, client, pos, cache, crashed>>

-------------------------------------------------------------------------------
(* Clients.                                                                    *)

Accept(s) ==
    /\ Idle
    /\ client[s] = "none" /\ \A r \in Session : r < s => client[r] # "none"
    /\ client' = [client EXCEPT ![s] = "open"]
    /\ UNCHANGED <<links, pos, cache, crashed, cutOff>>

Closed(s) == IF s \in Session /\ client[s] = "open" THEN [client EXCEPT ![s] = "shut"] ELSE client

\* cpp_closeClientConn by a script, or for the client's end of file.
CloseClientConn(s) ==
    /\ ~crashed
    /\ client[s] = "open"
    /\ client' = Closed(s)
    /\ UNCHANGED <<links, pos, cache, crashed, cutOff>>

ShutdownCb(s) ==
    /\ Idle
    /\ client[s] = "shut"
    /\ client' = [client EXCEPT ![s] = "closing"]
    /\ UNCHANGED <<links, pos, cache, crashed, cutOff>>

\* close_cb, with lua_onFinalClosed clearing the receive cache.
CloseCb(s) ==
    /\ Idle
    /\ client[s] = "closing"
    /\ client' = [client EXCEPT ![s] = "freed"]
    /\ cash' = [cash EXCEPT ![s] = << >>]
    /\ UNCHANGED <<links, pos, busy, took, spoiled, crashed, cutOff>>

-------------------------------------------------------------------------------
(* Receiving: lua_onrecv, whichever callback calls it, and netlib.onRecvData.  *)

\* Mutant: a link is read on after its end of file.
ReadableStill(src, k) ==
    IF src = Client THEN k \in Session /\ client[k] \in {"open", "shut"}
    ELSE k \in Sno /\ link[k] \in {"connecting", "connected", "shut"}

\* Connections libuv reads, a shutdown asked for or not.
Readable(src, k) ==
    IF src = Client THEN k \in Session /\ client[k] \in {"open", "shut"}
    ELSE k \in Sno /\ link[k] \in {"connected", "shut"}

\* Mutant: the place of a cell is one too high.
ChunkLater(src, k, i, j, big) ==
    [x \in 1..(j - i + 1) |->
        [src |-> src, gen |-> IF src = Client THEN 0 ELSE gen[k],
         i |-> i + x, big |-> big /\ i + x = j /\ j % 2 = 1]]

\* The cells from place i to place j of the connection src has under k; the last
\* one may be a head with a length netlib does not take.
Chunk(src, k, i, j, big) ==
    [x \in 1..(j - i + 1) |->
        [src |-> src, gen |-> IF src = Client THEN 0 ELSE gen[k],
         i |-> i + x - 1, big |-> big /\ i + x - 1 = j /\ j % 2 = 1]]

\* Mutant: what was read last is put before what waits.
JoinedFirst(kept, data) == data \o kept

\* table.insert and, where the loop reads it, table.concat.
Joined(kept, data) == kept \o data

ReadCb(src, k) ==
    /\ Idle
    /\ Readable(src, k)
    /\ \E j \in pos[<<src, k>>] + 1..MaxCells, big \in BOOLEAN :
          /\ cash' = [cash EXCEPT ![k] =
                        Joined(cash[k], Chunk(src, k, pos[<<src, k>>] + 1, j, big))]
          /\ pos' = [pos EXCEPT ![<<src, k>>] = j]
    /\ busy' = k
    /\ UNCHANGED <<links, client, took, spoiled, crashed, cutOff>>

\* What the length at the front of the cache may say: of a head, its packet's; of
\* a tail, anything.
Front(k) == cash[k][1]
Whole(c) == Len(c) >= 2 /\ IsHead(c[1]) /\ c[2] = [c[1] EXCEPT !.i = c[1].i + 1]

\* Mutant: the length counts the packet without its head.
LengthsShort(k) == IF IsHead(Front(k)) THEN {1} ELSE 1..MaxCells

Lengths(k) == IF IsHead(Front(k)) THEN {2} ELSE 1..MaxCells

\* Nothing is left, or less than the length says, or a length below 1.
RecvWaits(k) ==
    /\ busy = k
    /\ \/ cash[k] = << >>
       \/ /\ cash[k] # << >> /\ ~Front(k).big /\ Len(cash[k]) <= MaxRecv
          /\ (Len(cash[k]) = 1 \/ ~IsHead(Front(k)))
    /\ busy' = NoKey
    /\ UNCHANGED <<links, client, pos, cash, took, spoiled, crashed, cutOff>>

\* The length or the cache is beyond netlib.maxRecvSize: the client of that number
\* is closed, whoever sent the bytes, which stay.
TooBig(k) ==
    /\ busy = k
    /\ cash[k] # << >>
    /\ Front(k).big \/ ~IsHead(Front(k)) \/ Len(cash[k]) > MaxRecv
    /\ client' = Closed(k)
    /\ busy' = NoKey
    /\ UNCHANGED <<links, pos, cash, took, spoiled, crashed, cutOff>>

\* Mutant: the packet handed over stays in the cache.
LeftWhole(kept, n) == kept

\* leftDataStr: what follows a packet of n cells.
Left(kept, n) == SubSeq(kept, n + 1, Len(kept))

\* A packet is cut off the front and handed over.  The loop goes on, or ends at
\* its cap or with an error of the handler.
Packet(k) ==
    /\ busy = k
    /\ cash[k] # << >>
    /\ ~Front(k).big /\ Len(cash[k]) <= MaxRecv
    /\ \E n \in Lengths(k) :
          /\ n <= Len(cash[k])
          /\ cash' = [cash EXCEPT ![k] = Left(cash[k], n)]
          /\ spoiled' = IF n = 2 /\ Whole(cash[k]) THEN spoiled ELSE spoiled \cup {k}
          /\ took' = [took EXCEPT ![k] = took[k] + n]
    /\ busy' \in {k, NoKey}
    /\ UNCHANGED <<links, client, pos, crashed, cutOff>>

RecvStep(k) == RecvWaits(k) \/ TooBig(k) \/ Packet(k)

-------------------------------------------------------------------------------

Next ==
    \/ \E n \in Sno : \/ ConnectTo(n) \/ ConnectCb(n) \/ ReadServerEof(n) \/ FreedUsed(n)
                      \/ CloseServerConn(n) \/ ShutdownScCb(n) \/ CloseScCb(n)
                      \/ ReadCb(Server, n)
    \/ \E s \in Session : \/ Accept(s) \/ CloseClientConn(s) \/ ShutdownCb(s) \/ CloseCb(s)
                          \/ ReadCb(Client, s)
    \/ \E k \in Key : RecvStep(k)

Spec == Init /\ [][Next]_vars

-------------------------------------------------------------------------------
(* Properties.                                                                 *)

\* A number that is a session and a server number: two streams in one cache.
Shared == Session \cap Sno

Later(c, d) == c.gen < d.gen \/ (c.gen = d.gen /\ c.i < d.i)

\* No cell comes before one its source sent earlier, or twice, under any number:
\* not where client and link share the cache, nor where a link came back after it
\* was cut off.
SourceOrder ==
    \A k \in Key : \A y \in 1..Len(cash[k]) : \A x \in 1..(y - 1) :
        cash[k][x].src = cash[k][y].src => Later(cash[k][x], cash[k][y])

\* The source that has number k to itself; a cell of the connection it has now.
SrcOf(k) == IF k \in Session THEN Client ELSE Server
GenOf(k) == IF k \in Session THEN 0 ELSE gen[k]
Own(k, c) == c.src = SrcOf(k) /\ c.gen = GenOf(k)

\* A number's cells in the cache are those of the connection it has now, from the
\* first one not handed over to the last one read: unless the number is shared, or
\* an earlier connection of it ended with bytes in the cache.
InOrder ==
    \A k \in Key \ (Shared \cup cutOff) : (k \in Session => client[k] # "freed") =>
        /\ Len(cash[k]) = pos[<<SrcOf(k), k>>] - took[k]
        /\ \A x \in 1..Len(cash[k]) : Own(k, cash[k][x]) /\ cash[k][x].i = took[k] + x

\* netlib hands over whole packets, and never the end of one packet with the start
\* of another: a partial packet is joined with foreign bytes only under a shared
\* number or after a link that ended within a packet.
WholePackets == spoiled \subseteq Shared \cup cutOff

\* The cells kept under k, by their place in its connection; 0 for foreign ones.
Kept(k) == [x \in 1..Len(cash[k]) |-> IF Own(k, cash[k][x]) THEN cash[k][x].i ELSE 0]

Delivers(k) == IF k \in Session THEN client[k] \in {"open", "shut", "closing"}
               ELSE link[k] \in {"connected", "shut", "closing"}

\* To the scripts every number is a stream of whole packets that starts afresh with
\* each connection, for clients and links alike (netlib.lua:47); but for shared ones.
Stream(k) == INSTANCE PacketStream WITH
    PktLen <- 2, up <- ~crashed, open <- Delivers(k), kept <- Kept(k), taken <- took[k],
    void <- k \in cutOff
NumbersAreStreams ==
    /\ \A k \in Key \ Shared : Stream(k)!Init
    /\ [][\A k \in Key \ Shared : [Stream(k)!Next]_(Stream(k)!stream)]_vars
===============================================================================
