------------------------------ MODULE ClientConn ------------------------------
(* A client connection from accept to lua_onFinalClosed: the client half of    *)
(* GameServer.cpp, netlib.onRecvData and the callbacks of gsmain.lua.          *)
(*                                                                             *)
(* The server is one libuv loop, so callbacks never overlap; `busy` names the  *)
(* session whose lua_onrecv is on the stack, and no other callback runs until  *)
(* it returns.  What does interleave is the order of the callbacks: reads,     *)
(* write, shutdown and close completions, timers, of all connections.          *)
EXTENDS NetLib

CONSTANTS MaxSession,    \* last session number given out (2147483645)
          MaxLoop,       \* turns of the receive loop per call (1000)
          MaxChunk,      \* largest read, in cells (dMAX_SOCKET_RECV_BUFF)
          MaxPackets,    \* bound: packets a peer sends
          Kinds          \* bound: kinds of packet the peers send

ASSUME ClientAssumption ==
    /\ MaxSession \in Nat /\ MaxLoop \in Nat \ {0}
    /\ MaxChunk \in Nat /\ MaxPackets \in Nat
    /\ Kinds \subseteq Kind

Session == 1..MaxSession
NoSession == 0

VARIABLES
    g_session,           \* next session number
    g_clientDataList,    \* sessions in the hash table of client records
    handle,              \* uv handle of each session's record
    reading,             \* sessions uv_read_start is in force for
    writes,              \* uv_write requests not completed yet
    recvDataCash,        \* netlib._recvDataCash, concatenated
    busy,                \* session whose onRecvData runs, or NoSession
    turns,               \* turns its loop has taken
    cut,                 \* sessions whose last onRecvData was ended by an error or its turn limit
    lua,                 \* what the scripts were last told of a session
    done,                \* packets handed to the handlers, oldest first
    plans,               \* closes planned by the php code: <<session, packet>>
    asks,                \* php requests a handler has yet to answer
    sent,                \* packets the peer has sent (their kinds)
    read,                \* cells of the stream read so far
    peerGone             \* sessions whose peer has closed or reset

conn == <<g_session, g_clientDataList, handle, reading, writes>>
recv == <<recvDataCash, busy, turns, cut, done, read>>
php  == <<plans, asks>>
peer == <<sent, peerGone>>
vars == <<conn, recv, php, peer, lua>>

TypeOK ==
    /\ g_session \in 1..(MaxSession + 1)
    /\ g_clientDataList \subseteq Session
    /\ handle \in [Session -> {"none", "open", "shut", "closing", "freed"}]
    /\ reading \subseteq Session
    /\ writes \in [Session -> Nat]
    /\ recvDataCash \in [Session -> Seq(Nat \ {0})]
    /\ busy \in Session \cup {NoSession}
    /\ turns \in 0..MaxLoop
    /\ cut \subseteq Session
    /\ lua \in [Session -> {"none", "online", "offline", "final"}]
    /\ done \in [Session -> Seq(Nat \ {0})]
    /\ plans \subseteq Session \X (Nat \ {0})
    /\ asks \subseteq Session \X (Nat \ {0})
    /\ sent \in [Session -> Seq(Kinds)]
    /\ read \in [Session -> Nat]
    /\ peerGone \subseteq Session

Init ==
    /\ g_session = 1 /\ g_clientDataList = {}
    /\ handle = [s \in Session |-> "none"]
    /\ reading = {} /\ writes = [s \in Session |-> 0]
    /\ recvDataCash = [s \in Session |-> <<>>]
    /\ busy = NoSession /\ turns = 0 /\ cut = {}
    /\ lua = [s \in Session |-> "none"]
    /\ done = [s \in Session |-> <<>>]
    /\ plans = {} /\ asks = {}
    /\ sent = [s \in Session |-> <<>>]
    /\ read = [s \in Session |-> 0]
    /\ peerGone = {}

-------------------------------------------------------------------------------
(* libuv and cppCloseClientConn / onSend, as the callbacks below use them.     *)

\* The handle still accepts uv_write and uv_shutdown.
Writable(s) == s \in g_clientDataList /\ handle[s] = "open"

\* Mutant: a close is forgotten while writes are queued.
CloseConnUnlessWriting(S) ==
    handle' = [s \in Session |->
        IF s \in S /\ Writable(s) /\ writes[s] = 0 THEN "shut" ELSE handle[s]]

\* cppCloseClientConn on each of S: looks the record up and asks for a shutdown,
\* which libuv refuses (and nobody notices) once one is under way.
CloseConn(S) ==
    handle' = [s \in Session |-> IF s \in S /\ Writable(s) THEN "shut" ELSE handle[s]]

\* onSend to each of S: looks the record up and queues a write; dropped when the
\* record is gone or its handle no longer writable.
Send(S) ==
    writes' = [s \in Session |-> IF s \in S /\ Writable(s) THEN writes[s] + 1 ELSE writes[s]]

\* newClientConnection's limit on session numbers, and a mutant that is off by one.
OneSessionTooMany == g_session <= MaxSession + 1
MoreSessions == g_session <= MaxSession

\* lua_oncloseconn asks for the close the client's end of file calls for; the
\* mutant only takes note.
OnCloseConnOnlyNotes(s) == UNCHANGED handle
LuaOnCloseConn(s) == CloseConn({s})

\* close_cb takes the record out of the table; the mutant only frees it.
FreeOnly(s) == UNCHANGED g_clientDataList
Unregister(s) == g_clientDataList' = g_clientDataList \ {s}

\* netlib.clearRecvDataCash, and a mutant of lua_onFinalClosed that leaves it out.
KeepRecvDataCash(s) == UNCHANGED recvDataCash
ClearRecvDataCash(s) == recvDataCash' = [recvDataCash EXCEPT ![s] = <<>>]

\* No Lua function is on the stack: the loop may run the next callback.
Idle == busy = NoSession

-------------------------------------------------------------------------------
(* Connections: accept, completions, end of file.                              *)

\* newClientConnection; readStarted is what uv_read_start answers.
NewClientConnection ==
    /\ Idle
    /\ MoreSessions
    /\ g_session' = g_session + 1
    /\ g_clientDataList' = g_clientDataList \cup {g_session}
    /\ lua' = [lua EXCEPT ![g_session] = "online"]
    /\ \E readStarted \in BOOLEAN :
        /\ handle' = [handle EXCEPT ![g_session] = IF readStarted THEN "open" ELSE "shut"]
        /\ reading' = IF readStarted THEN reading \cup {g_session} ELSE reading
    /\ UNCHANGED <<writes, recv, php, peer>>

\* after_write: a queued write has completed, or failed.
AfterWrite(s) ==
    /\ Idle
    /\ writes[s] > 0
    /\ writes' = [writes EXCEPT ![s] = @ - 1]
    /\ UNCHANGED <<g_session, g_clientDataList, handle, reading, recv, php, peer, lua>>

\* shutdown_cb: libuv calls it once the queued writes are out; uv_close ends reading.
ShutdownCb(s) ==
    /\ Idle
    /\ handle[s] = "shut" /\ writes[s] = 0
    /\ handle' = [handle EXCEPT ![s] = "closing"]
    /\ reading' = reading \ {s}
    /\ UNCHANGED <<g_session, g_clientDataList, writes, recv, php, peer, lua>>

\* close_cb, with lua_onFinalClosed clearing the receive cache.
CloseCb(s) ==
    /\ Idle
    /\ handle[s] = "closing"
    /\ handle' = [handle EXCEPT ![s] = "freed"]
    /\ Unregister(s)
    /\ lua' = [lua EXCEPT ![s] = "final"]
    /\ ClearRecvDataCash(s)
    /\ UNCHANGED <<g_session, reading, writes, busy, turns, cut, done, read, php, peer>>

\* read_cb with nread < 0, and lua_oncloseconn, which asks for the close.
ReadEof(s) ==
    /\ Idle
    /\ s \in reading /\ s \in peerGone
    /\ reading' = reading \ {s}
    /\ lua' = [lua EXCEPT ![s] = "offline"]
    /\ LuaOnCloseConn(s)
    /\ UNCHANGED <<g_session, g_clientDataList, writes, recv, php, peer>>

-------------------------------------------------------------------------------
(* Receiving: read_cb, then onRecvData one turn of its loop at a time.         *)

\* read_cb with n >= 0 cells: lua_onrecv appends them to the cache.
ReadCb(s, n) ==
    /\ Idle
    /\ s \in reading
    /\ read[s] + n <= PktLen * Len(sent[s])
    /\ read' = [read EXCEPT ![s] = @ + n]
    /\ recvDataCash' = [recvDataCash EXCEPT ![s] = @ \o Run(read[s], n)]
    /\ busy' = s /\ turns' = 0 /\ cut' = cut \ {s}
    /\ UNCHANGED <<conn, done, php, peer, lua>>

Cash == recvDataCash[busy]
Head1 == PacketOf(Cash[1])         \* the packet at the front of the cache
FirstKind == IF Cash = <<>> THEN "zero" ELSE sent[busy][Head1]
Says(v) == busy # NoSession /\ turns < MaxLoop /\ Verdict(Cash, FirstKind) = v

\* onRecvData returns: nothing, or not a whole packet, is cached.
ReturnWaiting ==
    /\ Says("wait")
    /\ busy' = NoSession /\ turns' = 0
    /\ UNCHANGED <<conn, recvDataCash, cut, done, read, php, peer, lua>>

\* The loop has taken all the turns it may.
ReturnLoopCap ==
    /\ busy # NoSession /\ turns = MaxLoop
    /\ busy' = NoSession /\ turns' = 0 /\ cut' = cut \cup {busy}
    /\ UNCHANGED <<conn, recvDataCash, done, read, php, peer, lua>>

\* Too large a packet, or too much data: disconnect, and keep the cache.
Oversize ==
    /\ Says("oversize")
    /\ CloseConn({busy})
    /\ busy' = NoSession /\ turns' = 0
    /\ UNCHANGED <<g_session, g_clientDataList, reading, writes, recvDataCash,
                   cut, done, read, php, peer, lua>>

\* The part all frames share: cut the frame out, hand it to its handler.
TakeFrame ==
    /\ Says("frame")
    /\ recvDataCash' = [recvDataCash EXCEPT ![busy] = LeftData(@)]
    /\ done' = [done EXCEPT ![busy] = Append(@, Head1)]

\* The handler has returned: the loop goes on to its next turn.
NextTurn == turns' = turns + 1 /\ UNCHANGED <<busy, cut>>

\* onRecvBuff / onRecvServerBuff: the script may answer, and may disconnect anyone.
HandleCmd ==
    /\ TakeFrame /\ FirstKind = "cmd"
    /\ \E answered \in {{}, {busy}}, kicked \in {{}} \cup {{s} : s \in g_clientDataList} :
        Send(answered) /\ CloseConn(kicked)
    /\ NextTurn
    /\ UNCHANGED <<g_session, g_clientDataList, reading, read, php, peer, lua>>

\* onRecvPhpBuff with a result: answer at once, close in two seconds.
HandlePhp ==
    /\ TakeFrame /\ FirstKind = "php"
    /\ Send({busy})
    /\ plans' = plans \cup {<<busy, Head1>>}
    /\ NextTurn
    /\ UNCHANGED <<g_session, g_clientDataList, handle, reading, read, asks, peer, lua>>

\* onRecvPhpBuff without a result: the handler keeps the session for phplib.send.
HandleAsk ==
    /\ TakeFrame /\ FirstKind = "ask"
    /\ asks' = asks \cup {<<busy, Head1>>}
    /\ NextTurn
    /\ UNCHANGED <<conn, read, plans, peer, lua>>

\* onRecvPhpBuff, command not registered: close in two seconds.
HandleNoCmd ==
    /\ TakeFrame /\ FirstKind = "nocmd"
    /\ plans' = plans \cup {<<busy, Head1>>}
    /\ NextTurn
    /\ UNCHANGED <<conn, read, asks, peer, lua>>

\* onRecvPhpBuff, wrong key: close now; the loop still goes on.
HandleBadKey ==
    /\ TakeFrame /\ FirstKind = "key"
    /\ CloseConn({busy})
    /\ NextTurn
    /\ UNCHANGED <<g_session, g_clientDataList, reading, writes, read, php, peer, lua>>

\* An error escapes onRecvData: lua_onrecv ends, caught by lua_pcall in read_cb.
HandleRaise ==
    /\ TakeFrame /\ FirstKind = "raise"
    /\ busy' = NoSession /\ turns' = 0 /\ cut' = cut \cup {busy}
    /\ UNCHANGED <<conn, read, php, peer, lua>>

Receive == ReturnWaiting \/ ReturnLoopCap \/ Oversize \/ HandleCmd \/ HandlePhp
              \/ HandleAsk \/ HandleNoCmd \/ HandleBadKey \/ HandleRaise

-------------------------------------------------------------------------------
(* The php code's later steps.                                                 *)

\* phplib.send: answer, and plan the close; the client may be long gone.
PhpSend(a) ==
    /\ Idle
    /\ a \in asks
    /\ Send({a[1]})
    /\ asks' = asks \ {a} /\ plans' = plans \cup {a}
    /\ UNCHANGED <<g_session, g_clientDataList, handle, reading, recv, peer, lua>>

\* timelib runs a planned close.
PlanFires(p) ==
    /\ Idle
    /\ p \in plans
    /\ plans' = plans \ {p}
    /\ CloseConn({p[1]})
    /\ UNCHANGED <<g_session, g_clientDataList, reading, writes, recv, asks, peer, lua>>

-------------------------------------------------------------------------------
(* The peers (external).                                                       *)

PeerSends(s, k) ==
    /\ handle[s] \in {"open", "shut"} /\ s \notin peerGone
    /\ Len(sent[s]) < MaxPackets
    /\ sent' = [sent EXCEPT ![s] = Append(@, k)]
    /\ UNCHANGED <<conn, recv, php, lua, peerGone>>

PeerCloses(s) ==
    /\ handle[s] \in {"open", "shut"} /\ s \notin peerGone
    /\ peerGone' = peerGone \cup {s}
    /\ UNCHANGED <<conn, recv, php, lua, sent>>

Next ==
    \/ NewClientConnection
    \/ \E s \in Session :
        \/ AfterWrite(s) \/ ShutdownCb(s) \/ CloseCb(s) \/ ReadEof(s)
        \/ \E n \in 0..MaxChunk : ReadCb(s, n)
        \/ \E k \in Kinds : PeerSends(s, k)
        \/ PeerCloses(s)
    \/ Receive
    \/ \E a \in asks : PhpSend(a)
    \/ \E p \in plans : PlanFires(p)

Spec == Init /\ [][Next]_vars

(* The loop polls every handle and runs every completion that is ready, so a   *)
(* callback that keeps being possible whenever the loop is idle does run; a    *)
(* Lua call in progress ends; the frame timer runs the plans that are due.     *)
(* Nothing is assumed of the peers, except that a queued write completes or    *)
(* fails.                                                                      *)
Fairness ==
    /\ WF_vars(Receive)
    /\ \A s \in Session :
        /\ SF_vars(AfterWrite(s)) /\ SF_vars(ShutdownCb(s))
        /\ SF_vars(CloseCb(s)) /\ SF_vars(ReadEof(s))
        /\ \A k \in 1..MaxPackets : SF_vars(PlanFires(<<s, k>>))

FairSpec == Spec /\ Fairness

-------------------------------------------------------------------------------
(* Properties.                                                                 *)

\* The hash table holds exactly the records whose memory is live, so a session
\* number never leads cppCloseClientConn or onSend to a freed record.
TableIsLive ==
    g_clientDataList = {s \in Session : handle[s] \in {"open", "shut", "closing"}}

\* A receive cache outlives no connection: whatever order the closes, plans and
\* reads come in, a finished session leaves no bytes behind (GameServer.cpp:472,
\* netlib.clearRecvDataCash).
NoOrphanCache == \A s \in Session : recvDataCash[s] # <<>> => s \in g_clientDataList

\* The cache is exactly the bytes read and not yet handed over, in order: no
\* split, cut or early exit of the receive loop loses or repeats a byte.
StreamIntegrity ==
    \A s \in g_clientDataList :
        recvDataCash[s] = Run(PktLen * Len(done[s]), read[s] - PktLen * Len(done[s]))

\* Once onRecvData has returned, and neither an error nor the limit on its turns
\* ended it, no whole packet is left waiting in the cache of a connection that is
\* to stay open, unless its length field says it is no packet.
NothingStranded ==
    Idle => \A s \in g_clientDataList \ cut :
        Len(recvDataCash[s]) >= PktLen /\ handle[s] = "open"
            => sent[s][PacketOf(recvDataCash[s][1])] = "zero"

\* What the scripts see is a ClientSession.
Sessions == INSTANCE ClientSession WITH status <- lua, delivered <- done
ImplementsSession == Sessions!Spec

\* Each session's cache is a stream of whole packets, from the first one on, of which
\* the end of its connection leaves nothing (netlib.lua:47, GameServer.cpp:472).
Stream(s) == INSTANCE PacketStream WITH
    up <- TRUE, void <- FALSE, open <- s \in g_clientDataList,
    kept <- recvDataCash[s], taken <- PktLen * Len(done[s])
SessionsAreStreams ==
    /\ \A s \in Session : Stream(s)!Init
    /\ [][\A s \in Session : [Stream(s)!Next]_(Stream(s)!stream)]_vars

\* A length field that announces no packet or too large a one ends the connection
\* (the comment of netlib.lua:65).
BadLengthDisconnects ==
    Idle => \A s \in g_clientDataList \ cut :
        (Len(recvDataCash[s]) >= HdrLen
            /\ sent[s][PacketOf(recvDataCash[s][1])] \in {"zero", "huge"})
        => handle[s] # "open"

\* A client that disconnects is finished with: record freed, scripts told.
DisconnectCompletes ==
    \A s \in Session : (s \in peerGone) ~> (handle[s] = "freed" /\ lua[s] = "final")

\* Once php has been answered or refused, its connection is always closed in
\* the end (phplib.lua:9).
PhpConnectionCloses ==
    \A s \in Session, k \in 1..MaxPackets : (<<s, k>> \in plans) ~> (handle[s] = "freed")
===============================================================================
