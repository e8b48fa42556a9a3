--------------------------- MODULE ClientConnProofs ---------------------------
(* Theorems about client connections: type correctness, the life-cycle and     *)
(* stream invariants, and the refinement of ClientSession's safety part.       *)
EXTENDS ClientConn, NetLibProofs

-------------------------------------------------------------------------------
(* The inductive invariant, in parts.                                          *)

\* One session's record, callbacks and table entry move together: sessions are
\* used in order, reading is on only while the scripts think the client online,
\* and lua_onFinalClosed comes exactly with the release of the record.
LifeInv ==
    \A s \in Session :
        /\ (handle[s] = "none") = (s >= g_session)
        /\ (lua[s] = "none") = (handle[s] = "none")
        /\ (lua[s] = "final") = (handle[s] = "freed")
        /\ s \in reading => lua[s] = "online" /\ handle[s] \in {"open", "shut"}
        /\ handle[s] = "none" => /\ recvDataCash[s] = <<>> /\ done[s] = <<>>
                                 /\ sent[s] = <<>> /\ read[s] = 0

\* The stack holds a receive only of a client in the table and online.
BusyInv == busy # NoSession => busy \in g_clientDataList /\ lua[busy] = "online"

\* The handlers have seen packets 1, 2, ... of what was sent and read.
OrderInv ==
    \A s \in Session :
        /\ done[s] = Run(0, Len(done[s]))
        /\ PktLen * Len(done[s]) <= read[s]
        /\ read[s] <= PktLen * Len(sent[s])

IInv == TypeOK /\ TableIsLive /\ NoOrphanCache /\ LifeInv /\ BusyInv
            /\ OrderInv /\ StreamIntegrity

-------------------------------------------------------------------------------
(* What every handler's frame step does.                                       *)

\* The front of the cache is the next packet of the stream, wholly read.
LEMMA FrontPacket ==
    ASSUME IInv, Says("frame")
    PROVE  /\ busy \in Session /\ busy \in g_clientDataList
           /\ lua[busy] = "online"
           /\ Len(Cash) = read[busy] - PktLen * Len(done[busy])
           /\ Len(Cash) >= PktLen
           /\ Head1 = Len(done[busy]) + 1
           /\ Len(done[busy]) < Len(sent[busy])
<1> DEFINE d == Len(done[busy])
<1>1. /\ busy \in Session /\ busy \in g_clientDataList
      /\ lua[busy] = "online"
  BY DEF IInv, TypeOK, BusyInv, Says, NoSession
<1>2. /\ d \in Nat /\ read[busy] \in Nat /\ Len(sent[busy]) \in Nat
      /\ PktLen \in Nat /\ PktLen * d \in Nat
  BY <1>1, FrameAssumption DEF IInv, TypeOK
<1>3. /\ Cash = Run(PktLen * d, read[busy] - PktLen * d)
      /\ PktLen * d <= read[busy] /\ read[busy] <= PktLen * Len(sent[busy])
  BY <1>1 DEF IInv, StreamIntegrity, OrderInv, Cash
<1> DEFINE left == read[busy] - PktLen * d
<1>4. left \in Nat /\ Len(Cash) = left
  <2>1. left \in Nat
    BY <1>2, <1>3
  <2> HIDE DEF left
  <2> QED
    BY <2>1, <1>2, <1>3, RunType DEF left
<1>5. Len(Cash) >= PktLen
  <2>1. Len(Cash) \in Nat
    BY <1>2, <1>3, <1>4
  <2> QED
    BY <2>1, FrameAssumption DEF Says, Verdict
<1>6. Cash[1] = PktLen * d + 1
  <2>1. 1 \in 1..left
    BY <1>4, <1>5, <1>2, FrameAssumption
  <2>2. \A j \in 1..left : Run(PktLen * d, left)[j] = PktLen * d + j
    BY <1>2, <1>4, RunType
  <2> QED
    BY <2>1, <2>2, <1>3
<1>7. Head1 = d + 1
  BY <1>2, <1>6, PacketOfBoundary DEF Head1
<1>8. d < Len(sent[busy])
  <2>1. PktLen * d + PktLen <= PktLen * Len(sent[busy])
    BY <1>2, <1>3, <1>4, <1>5
  <2> QED
    BY <2>1, <1>2, PacketsMonotone
<1> QED
  BY <1>1, <1>4, <1>5, <1>7, <1>8

\* Cutting out a frame moves the stream on by one packet.
LEMMA FrameStep ==
    ASSUME IInv, TakeFrame, UNCHANGED <<read, sent, g_clientDataList>>
    PROVE  /\ OrderInv' /\ StreamIntegrity'
           /\ recvDataCash' \in [Session -> Seq(Nat \ {0})]
           /\ done' \in [Session -> Seq(Nat \ {0})]
           /\ Head1 \in Nat \ {0}
           /\ \A s \in Session : s # busy => /\ recvDataCash'[s] = recvDataCash[s]
                                             /\ done'[s] = done[s]
<1> DEFINE d == Len(done[busy])
           P == PktLen * d
<1>1. /\ busy \in Session /\ busy \in g_clientDataList
      /\ Len(Cash) = read[busy] - P
      /\ Len(Cash) >= PktLen /\ Head1 = d + 1 /\ d < Len(sent[busy])
  BY FrontPacket DEF TakeFrame
<1>2. /\ d \in Nat /\ read[busy] \in Nat /\ Len(sent[busy]) \in Nat
      /\ PktLen \in Nat /\ P \in Nat /\ P + PktLen = PktLen * (d + 1)
  BY <1>1, FrameAssumption DEF IInv, TypeOK
<1>3. /\ Cash = Run(P, read[busy] - P) /\ read[busy] - P \in Nat
      /\ done[busy] = Run(0, d)
  BY <1>1, <1>2 DEF IInv, StreamIntegrity, OrderInv, Cash
<1>4. LeftData(Cash) = Run(P + PktLen, read[busy] - P - PktLen)
  BY <1>1, <1>2, <1>3, RunTail
<1>5. Append(done[busy], d + 1) = Run(0, d + 1)
  <2>1. Run(0, d) \in Seq(Nat) /\ Len(Run(0, d)) = d
    BY <1>2 DEF Run
  <2>2. /\ Append(Run(0, d), d + 1) \in Seq(Nat)
        /\ Len(Append(Run(0, d), d + 1)) = d + 1
    BY <1>2, <2>1
  <2>3. Run(0, d + 1) \in Seq(Nat) /\ Len(Run(0, d + 1)) = d + 1
    BY <1>2 DEF Run
  <2>4. ASSUME NEW j \in 1..(d + 1)
        PROVE  Append(Run(0, d), d + 1)[j] = Run(0, d + 1)[j]
    BY <1>2, <2>1 DEF Run
  <2> QED
    BY <1>3, <2>2, <2>3, <2>4, SeqEqual
<1>6. /\ recvDataCash' = [recvDataCash EXCEPT ![busy] = LeftData(Cash)]
      /\ done' = [done EXCEPT ![busy] = Append(done[busy], d + 1)]
  BY <1>1 DEF TakeFrame, Cash
<1>7. /\ recvDataCash \in [Session -> Seq(Nat \ {0})]
      /\ done \in [Session -> Seq(Nat \ {0})]
  BY DEF IInv, TypeOK
<1>8. LeftData(Cash) \in Seq(Nat \ {0}) /\ Append(done[busy], d + 1) \in Seq(Nat \ {0})
  <2>1. P + PktLen \in Nat /\ read[busy] - P - PktLen \in Nat
    BY <1>1, <1>2
  <2>2. /\ Run(P + PktLen, read[busy] - P - PktLen) \in Seq(Nat \ {0})
        /\ Run(0, d + 1) \in Seq(Nat \ {0})
    <3>1. Run(P + PktLen, read[busy] - P - PktLen) \in Seq(Nat \ {0})
      <4> DEFINE a == P + PktLen
                 n == read[busy] - P - PktLen
      <4>1. a \in Nat /\ n \in Nat
        BY <2>1
      <4> HIDE DEF a, n
      <4>2. Run(a, n) \in Seq(Nat \ {0})
        BY <4>1, RunType
      <4> QED
        BY <4>2 DEF a, n
    <3>2. Run(0, d + 1) \in Seq(Nat \ {0})
      <4> DEFINE n == d + 1
      <4>1. n \in Nat
        BY <1>2
      <4> HIDE DEF n
      <4>2. Run(0, n) \in Seq(Nat \ {0})
        BY <4>1, RunType
      <4> QED
        BY <4>2 DEF n
    <3> QED
      BY <3>1, <3>2
  <2> QED
    BY <2>2, <1>4, <1>5
<1>9. Len(done'[busy]) = d + 1
  BY <1>1, <1>2, <1>5, <1>6, <1>7, RunType
<1>10. OrderInv'
  <2> SUFFICES ASSUME NEW s \in Session
               PROVE  /\ done'[s] = Run(0, Len(done'[s]))
                      /\ PktLen * Len(done'[s]) <= read[s]
                      /\ read[s] <= PktLen * Len(sent[s])
    BY DEF OrderInv
  <2>1. CASE s = busy
    <3>1. done'[busy] = Run(0, d + 1) /\ Len(done'[busy]) = d + 1
      BY <1>1, <1>5, <1>6, <1>7, <1>9
    <3>2. PktLen * (d + 1) <= read[busy]
      BY <1>1, <1>2
    <3>3. read[busy] <= PktLen * Len(sent[busy])
      BY <1>1 DEF IInv, OrderInv
    <3> QED
      BY <2>1, <3>1, <3>2, <3>3
  <2>2. CASE s # busy
    BY <2>2, <1>6, <1>7 DEF IInv, OrderInv
  <2> QED
    BY <2>1, <2>2
<1>11. StreamIntegrity'
  <2> SUFFICES ASSUME NEW s \in g_clientDataList
               PROVE  recvDataCash'[s] =
                        Run(PktLen * Len(done'[s]), read[s] - PktLen * Len(done'[s]))
    BY DEF StreamIntegrity
  <2>1. CASE s = busy
    BY <2>1, <1>1, <1>2, <1>3, <1>4, <1>6, <1>7, <1>9
  <2>2. CASE s # busy
    BY <2>2, <1>6, <1>7 DEF IInv, StreamIntegrity, TypeOK
  <2> QED
    BY <2>1, <2>2
<1> QED
  BY <1>1, <1>2, <1>6, <1>7, <1>8, <1>10, <1>11

-------------------------------------------------------------------------------
(* The invariant holds initially and every action keeps it.                    *)

LEMMA InitIInv == Init => IInv
<1> SUFFICES ASSUME Init PROVE IInv
  OBVIOUS
<1>1. TypeOK /\ TableIsLive /\ NoOrphanCache /\ LifeInv /\ BusyInv
  BY ClientAssumption DEF Init, TypeOK, TableIsLive, NoOrphanCache, LifeInv, BusyInv,
     Session, NoSession
<1>2. OrderInv
  <2>1. Run(0, 0) = <<>>
    BY DEF Run
  <2> QED
    BY <2>1, FrameAssumption DEF Init, OrderInv
<1>3. StreamIntegrity
  BY DEF Init, StreamIntegrity
<1> QED
  BY <1>1, <1>2, <1>3 DEF IInv

\* A step that touches neither the streams nor the table keeps the stream parts.
LEMMA SameStream ==
    ASSUME IInv, UNCHANGED <<recvDataCash, done, read, sent, g_clientDataList>>
    PROVE  NoOrphanCache' /\ OrderInv' /\ StreamIntegrity'
BY DEF IInv, NoOrphanCache, OrderInv, StreamIntegrity

LEMMA AcceptIInv == ASSUME IInv, NewClientConnection PROVE IInv'
<1>1. g_session \in Session /\ handle[g_session] = "none" /\ g_session + 1 \in 1..(MaxSession + 1)
  BY ClientAssumption DEF IInv, TypeOK, LifeInv, NewClientConnection, MoreSessions, Session
<1>2. TypeOK' /\ TableIsLive' /\ LifeInv' /\ BusyInv' /\ NoOrphanCache'
  <2> DEFINE g == g_session
  <2>1. /\ g \in Session /\ g_session' = g + 1 /\ g_clientDataList' = g_clientDataList \cup {g}
        /\ lua' = [lua EXCEPT ![g] = "online"]
        /\ \/ handle' = [handle EXCEPT ![g] = "open"] /\ reading' = reading \cup {g}
           \/ handle' = [handle EXCEPT ![g] = "shut"] /\ reading' = reading
        /\ UNCHANGED <<writes, recvDataCash, busy, turns, cut, done, read, plans, asks, sent,
                       peerGone>>
        /\ busy = NoSession
    BY <1>1 DEF NewClientConnection, Idle, recv, php, peer
  <2>2. TypeOK'
    <3>1. /\ handle' \in [Session -> {"none", "open", "shut", "closing", "freed"}]
          /\ lua' \in [Session -> {"none", "online", "offline", "final"}]
      BY <2>1 DEF IInv, TypeOK
    <3>2. g_session' \in 1..(MaxSession + 1) /\ g_clientDataList' \subseteq Session
          /\ reading' \subseteq Session
      BY <1>1, <2>1 DEF IInv, TypeOK
    <3> QED
      BY <2>1, <3>1, <3>2 DEF IInv, TypeOK
  <2>3. \A s \in Session :
          s # g => handle'[s] = handle[s] /\ lua'[s] = lua[s] /\ (s \in reading' <=> s \in reading)
    BY <2>1 DEF IInv, TypeOK
  <2>4. handle'[g] \in {"open", "shut"} /\ lua'[g] = "online" /\ (g \in reading' => handle'[g] # "none")
    BY <2>1 DEF IInv, TypeOK
  <2>5. TableIsLive' /\ NoOrphanCache'
    <3>1. g_clientDataList' = g_clientDataList \cup {g} /\ UNCHANGED recvDataCash
      BY <2>1
    <3>2. TableIsLive'
      <4> HIDE DEF g
      <4>1. g \in Session
        BY <2>1
      <4>2. \A s \in Session :
              s \in g_clientDataList <=> handle[s] \in {"open", "shut", "closing"}
        BY DEF IInv, TableIsLive
      <4>3. \A s \in Session :
              s \in g_clientDataList' <=> handle'[s] \in {"open", "shut", "closing"}
        BY <4>1, <4>2, <3>1, <2>3, <2>4
      <4>4. g_clientDataList' \subseteq Session
        BY <4>1, <3>1 DEF IInv, TypeOK
      <4> QED
        BY <4>3, <4>4 DEF TableIsLive
    <3>3. NoOrphanCache'
      BY <3>1 DEF IInv, NoOrphanCache
    <3> QED
      BY <3>2, <3>3
  <2>6. LifeInv'
    <3>1. \A s \in Session : s # g => ((s >= g + 1) <=> (s >= g))
      BY <1>1, ClientAssumption DEF Session
    <3>2. g \in Nat /\ ~(g >= g + 1)
      BY <1>1, ClientAssumption DEF Session
    <3>3. g \notin reading
      BY <1>1 DEF IInv, LifeInv
    <3> QED
      BY <2>1, <2>3, <2>4, <3>1, <3>2, <3>3 DEF IInv, LifeInv
  <2>7. BusyInv'
    BY <2>1 DEF BusyInv
  <2> QED
    BY <2>2, <2>5, <2>6, <2>7
<1>3. OrderInv'
  BY DEF IInv, OrderInv, NewClientConnection, recv, peer
<1>4. StreamIntegrity'
  <2>1. Run(PktLen * 0, 0 - PktLen * 0) = <<>>
    BY FrameAssumption DEF Run
  <2> QED
    BY <1>1, <2>1 DEF IInv, LifeInv, StreamIntegrity, NewClientConnection, recv, peer
<1> QED
  BY <1>2, <1>3, <1>4 DEF IInv

LEMMA AfterWriteIInv == ASSUME IInv, NEW s \in Session, AfterWrite(s) PROVE IInv'
<1>1. TypeOK' /\ TableIsLive' /\ LifeInv' /\ BusyInv'
  <2>1. /\ writes' = [writes EXCEPT ![s] = @ - 1] /\ writes[s] > 0
        /\ UNCHANGED <<g_session, g_clientDataList, handle, reading, recvDataCash, busy, turns, cut,
                       done, read, plans, asks, sent, peerGone, lua>>
    BY DEF AfterWrite, recv, php, peer
  <2>2. writes' \in [Session -> Nat]
    BY <2>1 DEF IInv, TypeOK
  <2>3. TypeOK'
    BY <2>1, <2>2 DEF IInv, TypeOK
  <2>4. TableIsLive' /\ LifeInv' /\ BusyInv'
    BY <2>1 DEF IInv, TableIsLive, LifeInv, BusyInv
  <2> QED
    BY <2>3, <2>4
<1> QED
  BY <1>1, SameStream DEF IInv, AfterWrite, recv, peer

LEMMA ShutdownIInv == ASSUME IInv, NEW s \in Session, ShutdownCb(s) PROVE IInv'
<1>1. TypeOK' /\ TableIsLive' /\ LifeInv' /\ BusyInv'
  <2>1. /\ handle' = [handle EXCEPT ![s] = "closing"] /\ handle[s] = "shut" /\ busy = NoSession
        /\ reading' = reading \ {s}
        /\ UNCHANGED <<g_session, g_clientDataList, writes, recvDataCash, busy, turns, cut,
                       done, read, plans, asks, sent, peerGone, lua>>
    BY DEF ShutdownCb, recv, php, peer, Idle
  <2>2. /\ handle' \in [Session -> {"none", "open", "shut", "closing", "freed"}]
        /\ handle'[s] = "closing" /\ \A t \in Session : t # s => handle'[t] = handle[t]
    BY <2>1 DEF IInv, TypeOK
  <2>3. TypeOK'
    BY <2>1, <2>2 DEF IInv, TypeOK
  <2>4. TableIsLive' /\ LifeInv' /\ BusyInv'
    BY <2>1, <2>2 DEF IInv, TableIsLive, LifeInv, BusyInv
  <2> QED
    BY <2>3, <2>4
<1> QED
  BY <1>1, SameStream DEF IInv, ShutdownCb, recv, peer

LEMMA CloseIInv == ASSUME IInv, NEW s \in Session, CloseCb(s) PROVE IInv'
<1>1. TypeOK' /\ TableIsLive' /\ LifeInv' /\ BusyInv' /\ NoOrphanCache'
  BY DEF IInv, TypeOK, TableIsLive, LifeInv, BusyInv, NoOrphanCache, CloseCb, Unregister, ClearRecvDataCash, php, peer, Idle
<1>2. OrderInv' /\ StreamIntegrity'
  BY DEF IInv, TypeOK, OrderInv, StreamIntegrity, CloseCb, Unregister, ClearRecvDataCash, peer
<1> QED
  BY <1>1, <1>2 DEF IInv

\* What requests to close may do to the handles: turn open ones into shut ones.
RequestsOnly ==
    /\ handle' \in [Session -> {"none", "open", "shut", "closing", "freed"}]
    /\ TableIsLive'
    /\ \A s \in Session :
        handle'[s] = handle[s] \/ (handle[s] = "open" /\ handle'[s] = "shut")

LEMMA CloseConnType ==
    ASSUME IInv, NEW S, CloseConn(S), UNCHANGED <<g_clientDataList, g_session>>
    PROVE  RequestsOnly
BY DEF RequestsOnly, IInv, TypeOK, TableIsLive, CloseConn, Writable

LEMMA EofIInv == ASSUME IInv, NEW s \in Session, ReadEof(s) PROVE IInv'
<1>1. RequestsOnly
  BY CloseConnType DEF LuaOnCloseConn, ReadEof
<1>2. TypeOK' /\ LifeInv' /\ BusyInv'
  <2>1. /\ reading' = reading \ {s} /\ lua' = [lua EXCEPT ![s] = "offline"] /\ s \in reading
        /\ busy = NoSession
        /\ UNCHANGED <<g_session, g_clientDataList, writes, recvDataCash, busy, turns, cut,
                       done, read, plans, asks, sent, peerGone>>
    BY DEF ReadEof, recv, php, peer, Idle
  <2>2. /\ lua' \in [Session -> {"none", "online", "offline", "final"}]
        /\ lua'[s] = "offline" /\ \A t \in Session : t # s => lua'[t] = lua[t]
    BY <2>1 DEF IInv, TypeOK
  <2>3. handle' \in [Session -> {"none", "open", "shut", "closing", "freed"}]
    BY <1>1 DEF RequestsOnly
  <2>4. TypeOK'
    BY <2>1, <2>2, <2>3 DEF IInv, TypeOK
  <2>5. LifeInv'
    <3>1. s \in reading /\ lua[s] = "online" /\ handle[s] \in {"open", "shut"}
      BY <2>1 DEF IInv, LifeInv
    <3>2. handle'[s] \in {"open", "shut"}
      BY <1>1, <3>1 DEF RequestsOnly
    <3> SUFFICES ASSUME NEW t \in Session PROVE LifeInv!(t)'
      BY DEF LifeInv
    <3>3. CASE t = s
      BY <3>3, <3>1, <3>2, <2>1, <2>2 DEF IInv, LifeInv
    <3>4. CASE t # s
      BY <3>4, <1>1, <2>1, <2>2 DEF RequestsOnly, IInv, LifeInv
    <3> QED
      BY <3>3, <3>4
  <2>6. BusyInv'
    BY <2>1 DEF BusyInv
  <2> QED
    BY <2>4, <2>5, <2>6
<1> QED
  BY <1>1, <1>2, SameStream DEF RequestsOnly, IInv, ReadEof, recv, peer

LEMMA ReadIInv == ASSUME IInv, NEW s \in Session, NEW n \in 0..MaxChunk, ReadCb(s, n) PROVE IInv'
<1> DEFINE P == PktLen * Len(done[s])
<1>1. /\ n \in Nat /\ P \in Nat /\ read[s] \in Nat /\ P <= read[s] /\ read[s] - P \in Nat
      /\ Len(done[s]) \in Nat
  BY ClientAssumption, FrameAssumption DEF IInv, TypeOK, OrderInv
<1>2. s \in g_clientDataList /\ lua[s] = "online"
  BY DEF IInv, LifeInv, TableIsLive, ReadCb
<1>3. recvDataCash[s] \o Run(read[s], n) = Run(P, read[s] + n - P)
  <2> DEFINE m == read[s] - P
  <2>1. m \in Nat /\ P + m = read[s] /\ m + n = read[s] + n - P
    BY <1>1
  <2>2. recvDataCash[s] = Run(P, m)
    BY <1>2 DEF IInv, StreamIntegrity
  <2> HIDE DEF P, m
  <2>3. Run(P, m) \o Run(P + m, n) = Run(P, m + n)
    BY <1>1, <2>1, RunConcat
  <2> QED
    BY <2>1, <2>2, <2>3
<1>4. Run(P, read[s] + n - P) \in Seq(Nat \ {0})
  <2> DEFINE m == read[s] + n - P
  <2>1. m \in Nat
    BY <1>1
  <2> HIDE DEF P, m
  <2>2. Run(P, m) \in Seq(Nat \ {0})
    BY <1>1, <2>1, RunType
  <2> QED
    BY <2>2 DEF m
<1>5. /\ recvDataCash' = [recvDataCash EXCEPT ![s] = Run(P, read[s] + n - P)]
      /\ read' = [read EXCEPT ![s] = read[s] + n]
  BY <1>3 DEF ReadCb
<1>6. TypeOK'
  <2>1. recvDataCash' \in [Session -> Seq(Nat \ {0})] /\ read' \in [Session -> Nat]
    <3> HIDE DEF P
    <3> QED
      BY <1>1, <1>4, <1>5 DEF IInv, TypeOK
  <2>2. busy' \in Session \cup {NoSession} /\ turns' \in 0..MaxLoop /\ cut' \subseteq Session
    BY ClientAssumption DEF IInv, TypeOK, ReadCb
  <2> QED
    BY <2>1, <2>2 DEF IInv, TypeOK, ReadCb, conn, php, peer
<1>7. TableIsLive' /\ NoOrphanCache' /\ LifeInv' /\ BusyInv'
  BY <1>2, <1>5 DEF IInv, TypeOK, TableIsLive, NoOrphanCache, LifeInv, BusyInv, ReadCb, conn, php,
     peer, NoSession
<1>8. OrderInv'
  <2> SUFFICES ASSUME NEW t \in Session
               PROVE  /\ done[t] = Run(0, Len(done[t]))
                      /\ PktLen * Len(done[t]) <= read'[t]
                      /\ read'[t] <= PktLen * Len(sent[t])
    BY DEF OrderInv, ReadCb, peer
  <2>1. CASE t = s
    BY <2>1, <1>1, <1>5 DEF IInv, TypeOK, OrderInv, ReadCb
  <2>2. CASE t # s
    BY <2>2, <1>5 DEF IInv, TypeOK, OrderInv
  <2> QED
    BY <2>1, <2>2
<1>9. StreamIntegrity'
  <2> SUFFICES ASSUME NEW t \in g_clientDataList
               PROVE  recvDataCash'[t] =
                        Run(PktLen * Len(done[t]), read'[t] - PktLen * Len(done[t]))
    BY DEF StreamIntegrity, ReadCb, conn
  <2>1. t \in Session
    BY DEF IInv, TypeOK
  <2>2. CASE t = s
    <3>1. recvDataCash'[s] = Run(P, read[s] + n - P) /\ read'[s] = read[s] + n
      BY <1>5 DEF IInv, TypeOK
    <3>2. recvDataCash'[s] = Run(P, read'[s] - P)
      <4> HIDE DEF P
      <4> QED
        BY <3>1, <1>1
    <3> QED
      BY <2>2, <3>2
  <2>3. CASE t # s
    BY <2>1, <2>3, <1>5 DEF IInv, TypeOK, StreamIntegrity
  <2> QED
    BY <2>2, <2>3
<1> QED
  BY <1>6, <1>7, <1>8, <1>9 DEF IInv

\* Leaving onRecvData without a frame.
LEMMA LeaveIInv == ASSUME IInv, ReturnWaiting \/ ReturnLoopCap \/ Oversize PROVE IInv'
<1>1. /\ busy' = NoSession /\ turns' = 0 /\ cut' \in {cut, cut \cup {busy}} /\ busy # NoSession
      /\ UNCHANGED <<g_session, g_clientDataList, reading, writes, recvDataCash, done, read,
                     php, peer, lua>>
  BY DEF ReturnWaiting, ReturnLoopCap, Oversize, Says, conn
<1>2. RequestsOnly
  <2>1. CASE Oversize
    BY <2>1, <1>1, CloseConnType DEF Oversize
  <2>2. CASE ReturnWaiting \/ ReturnLoopCap
    BY <2>2 DEF RequestsOnly, ReturnWaiting, ReturnLoopCap, conn, IInv, TypeOK, TableIsLive
  <2> QED
    BY <2>1, <2>2
<1>3. TypeOK'
  <2>1. /\ turns' \in 0..MaxLoop /\ busy' \in Session \cup {NoSession} /\ cut' \subseteq Session
    BY <1>1, ClientAssumption DEF IInv, TypeOK
  <2>2. handle' \in [Session -> {"none", "open", "shut", "closing", "freed"}]
    BY <1>2 DEF RequestsOnly
  <2> QED
    BY <1>1, <2>1, <2>2 DEF IInv, TypeOK, php, peer
<1>4. LifeInv' /\ BusyInv'
  BY <1>1, <1>2 DEF RequestsOnly, IInv, LifeInv, BusyInv, php, peer
<1> QED
  BY <1>1, <1>2, <1>3, <1>4, SameStream DEF RequestsOnly, IInv, peer

\* A frame's handler: whatever it does to handles, writes and plans, no more than
\* turning open handles into shut ones matters to the invariant.
LEMMA FrameIInv ==
    ASSUME IInv, TakeFrame,
           UNCHANGED <<g_session, g_clientDataList, reading, read, peer, lua>>,
           RequestsOnly,
           writes' \in [Session -> Nat],
           plans' \in {plans, plans \cup {<<busy, Head1>>}},
           asks' \in {asks, asks \cup {<<busy, Head1>>}},
           NextTurn \/ (busy' = NoSession /\ turns' = 0 /\ cut' = cut \cup {busy})
    PROVE  IInv'
<1>1. /\ OrderInv' /\ StreamIntegrity'
      /\ recvDataCash' \in [Session -> Seq(Nat \ {0})]
      /\ done' \in [Session -> Seq(Nat \ {0})]
      /\ Head1 \in Nat \ {0}
      /\ \A s \in Session : s # busy => /\ recvDataCash'[s] = recvDataCash[s]
                                        /\ done'[s] = done[s]
  BY FrameStep DEF peer
<1>2. /\ busy \in Session /\ busy \in g_clientDataList /\ lua[busy] = "online"
      /\ turns \in 0..MaxLoop /\ turns < MaxLoop
  BY FrontPacket DEF TakeFrame, Says, IInv, TypeOK
<1>3. /\ turns' \in 0..MaxLoop /\ busy' \in {busy, NoSession} /\ cut' \in {cut, cut \cup {busy}}
  BY <1>2, ClientAssumption DEF NextTurn
<1>4. TypeOK'
  <2>1. plans' \subseteq Session \X (Nat \ {0}) /\ asks' \subseteq Session \X (Nat \ {0})
    BY <1>1, <1>2 DEF IInv, TypeOK
  <2>2. /\ turns' \in 0..MaxLoop /\ busy' \in Session \cup {NoSession} /\ cut' \subseteq Session
    BY <1>2, <1>3 DEF IInv, TypeOK
  <2>3. handle' \in [Session -> {"none", "open", "shut", "closing", "freed"}]
    BY DEF RequestsOnly
  <2>4. recvDataCash' \in [Session -> Seq(Nat \ {0})] /\ done' \in [Session -> Seq(Nat \ {0})]
    BY <1>1
  <2>5. writes' \in [Session -> Nat]
    OBVIOUS
  <2> QED
    BY <2>1, <2>2, <2>3, <2>4, <2>5 DEF IInv, TypeOK, peer
<1>5. NoOrphanCache' /\ BusyInv'
  <2>1. NoOrphanCache'
    BY <1>1, <1>2 DEF IInv, NoOrphanCache
  <2>2. BusyInv'
    BY <1>2, <1>3 DEF BusyInv
  <2> QED
    BY <2>1, <2>2
<1>6. LifeInv'
  <2> SUFFICES ASSUME NEW s \in Session PROVE LifeInv!(s)'
    BY DEF LifeInv
  <2>1. handle'[s] = handle[s] \/ (handle[s] = "open" /\ handle'[s] = "shut")
    BY DEF RequestsOnly
  <2>2. LifeInv!(s)
    BY DEF IInv, LifeInv
  <2>3. sent' = sent
    BY DEF peer
  <2>4. CASE s = busy
    BY <1>2, <2>1, <2>2, <2>3, <2>4
  <2>5. CASE s # busy
    BY <1>1, <2>1, <2>2, <2>3, <2>5
  <2> QED
    BY <2>4, <2>5
<1> QED
  BY <1>1, <1>4, <1>5, <1>6 DEF RequestsOnly, IInv

LEMMA SendType ==
    ASSUME IInv, NEW S, Send(S)
    PROVE  writes' \in [Session -> Nat]
BY DEF IInv, TypeOK, Send

LEMMA HandlersIInv ==
    ASSUME IInv,
           HandleCmd \/ HandlePhp \/ HandleAsk \/ HandleNoCmd \/ HandleBadKey \/ HandleRaise
    PROVE  IInv'
<1>1. CASE HandleCmd
  <2>1. PICK answered \in {{}, {busy}}, kicked \in {{}} \cup {{s} : s \in g_clientDataList} :
            Send(answered) /\ CloseConn(kicked)
    BY <1>1 DEF HandleCmd
  <2>2. TakeFrame /\ NextTurn
        /\ UNCHANGED <<g_session, g_clientDataList, reading, read, php, peer, lua>>
    BY <1>1 DEF HandleCmd
  <2>3. writes' \in [Session -> Nat]
    BY <2>1, SendType
  <2>4. RequestsOnly
    BY <2>1, <2>2, CloseConnType
  <2>5. plans' = plans /\ asks' = asks
    BY <2>2 DEF php
  <2> QED
    BY <2>2, <2>3, <2>4, <2>5, FrameIInv
<1>2. CASE HandlePhp
  <2>1. TakeFrame /\ NextTurn /\ Send({busy}) /\ plans' = plans \cup {<<busy, Head1>>}
        /\ UNCHANGED <<g_session, g_clientDataList, handle, reading, read, asks, peer, lua>>
    BY <1>2 DEF HandlePhp
  <2>2. writes' \in [Session -> Nat]
    BY <2>1, SendType
  <2>3. RequestsOnly
    BY <2>1 DEF RequestsOnly, IInv, TypeOK, TableIsLive
  <2> QED
    BY <2>1, <2>2, <2>3, FrameIInv
<1>3. CASE HandleAsk \/ HandleNoCmd \/ HandleRaise
  <2>1. /\ TakeFrame
        /\ UNCHANGED <<g_session, g_clientDataList, handle, reading, writes, read, peer, lua>>
        /\ plans' \in {plans, plans \cup {<<busy, Head1>>}}
        /\ asks' \in {asks, asks \cup {<<busy, Head1>>}}
        /\ NextTurn \/ (busy' = NoSession /\ turns' = 0 /\ cut' = cut \cup {busy})
    BY <1>3 DEF HandleAsk, HandleNoCmd, HandleRaise, conn, php
  <2>2. RequestsOnly /\ writes' \in [Session -> Nat]
    BY <2>1 DEF RequestsOnly, IInv, TypeOK, TableIsLive
  <2> QED
    BY <2>1, <2>2, FrameIInv
<1>4. CASE HandleBadKey
  <2>1. TakeFrame /\ NextTurn /\ CloseConn({busy})
        /\ UNCHANGED <<g_session, g_clientDataList, reading, writes, read, php, peer, lua>>
    BY <1>4 DEF HandleBadKey
  <2>2. RequestsOnly
    BY <2>1, CloseConnType
  <2>3. plans' = plans /\ asks' = asks /\ writes' \in [Session -> Nat]
    BY <2>1 DEF php, IInv, TypeOK
  <2> QED
    BY <2>1, <2>2, <2>3, FrameIInv
<1> QED
  BY <1>1, <1>2, <1>3, <1>4

LEMMA PhpSendIInv == ASSUME IInv, NEW a \in asks, PhpSend(a) PROVE IInv'
<1>1. writes' \in [Session -> Nat]
  BY SendType DEF PhpSend
<1>2. TypeOK' /\ TableIsLive' /\ LifeInv' /\ BusyInv'
  <2>1. TypeOK'
    BY <1>1 DEF IInv, TypeOK, PhpSend, recv, peer
  <2>2. TableIsLive' /\ LifeInv' /\ BusyInv'
    BY DEF IInv, TableIsLive, LifeInv, BusyInv, PhpSend, recv, peer
  <2> QED
    BY <2>1, <2>2
<1> QED
  BY <1>2, SameStream DEF IInv, PhpSend, recv, peer

LEMMA PlanIInv == ASSUME IInv, NEW p \in plans, PlanFires(p) PROVE IInv'
<1>1. RequestsOnly
  BY CloseConnType DEF PlanFires
<1>2. TypeOK' /\ LifeInv' /\ BusyInv'
  <2>1. /\ plans' \subseteq plans /\ busy = NoSession
        /\ UNCHANGED <<g_session, g_clientDataList, reading, writes, recvDataCash, busy, turns, cut,
                       done, read, asks, sent, peerGone, lua>>
    BY DEF PlanFires, recv, peer, Idle
  <2>2. TypeOK'
    <3>1. handle' \in [Session -> {"none", "open", "shut", "closing", "freed"}]
      BY <1>1 DEF RequestsOnly
    <3> QED
      BY <2>1, <3>1 DEF IInv, TypeOK
  <2>3. LifeInv' /\ BusyInv'
    BY <1>1, <2>1 DEF RequestsOnly, IInv, LifeInv, BusyInv
  <2> QED
    BY <2>2, <2>3
<1> QED
  BY <1>1, <1>2, SameStream DEF RequestsOnly, IInv, PlanFires, recv, peer

LEMMA PeerIInv ==
    ASSUME IInv, NEW s \in Session, (\E k \in Kinds : PeerSends(s, k)) \/ PeerCloses(s)
    PROVE  IInv'
<1>1. CASE \E k \in Kinds : PeerSends(s, k)
  <2>1. PICK k \in Kinds : PeerSends(s, k)
    BY <1>1
  <2>2. /\ sent' = [sent EXCEPT ![s] = Append(@, k)] /\ handle[s] # "none"
        /\ UNCHANGED <<conn, recv, php, lua, peerGone>>
    BY <2>1 DEF PeerSends
  <2>3. TypeOK'
    <3>1. sent' \in [Session -> Seq(Kinds)]
      BY <2>2 DEF IInv, TypeOK
    <3> QED
      BY <2>2, <3>1 DEF IInv, TypeOK, conn, recv, php
  <2>4. TableIsLive' /\ NoOrphanCache' /\ LifeInv' /\ BusyInv' /\ StreamIntegrity'
    BY <2>2 DEF IInv, TypeOK, TableIsLive, NoOrphanCache, LifeInv, BusyInv, StreamIntegrity,
       conn, recv, php
  <2>5. OrderInv'
    <3> SUFFICES ASSUME NEW t \in Session
                 PROVE  PktLen * Len(sent[t]) <= PktLen * Len(sent'[t])
      BY <2>2, FrameAssumption DEF IInv, TypeOK, OrderInv, recv
    <3>1. /\ Len(sent[t]) \in Nat /\ Len(sent'[t]) \in {Len(sent[t]), Len(sent[t]) + 1}
      BY <2>2 DEF IInv, TypeOK
    <3> QED
      BY <3>1, FrameAssumption
  <2> QED
    BY <2>3, <2>4, <2>5 DEF IInv
<1>2. CASE PeerCloses(s)
  <2>1. TypeOK' /\ TableIsLive' /\ LifeInv' /\ BusyInv'
    BY <1>2 DEF IInv, TypeOK, TableIsLive, LifeInv, BusyInv, PeerCloses, conn, recv, php
  <2> QED
    BY <1>2, <2>1, SameStream DEF IInv, PeerCloses, conn, recv
<1> QED
  BY <1>1, <1>2

LEMMA NextIInv == IInv /\ [Next]_vars => IInv'
<1> SUFFICES ASSUME IInv, [Next]_vars PROVE IInv'
  OBVIOUS
<1>1. CASE NewClientConnection
  BY <1>1, AcceptIInv
<1>2. ASSUME NEW s \in Session,
             AfterWrite(s) \/ ShutdownCb(s) \/ CloseCb(s) \/ ReadEof(s)
      PROVE  IInv'
  BY <1>2, AfterWriteIInv, ShutdownIInv, CloseIInv, EofIInv
<1>3. ASSUME NEW s \in Session, NEW n \in 0..MaxChunk, ReadCb(s, n)
      PROVE  IInv'
  BY <1>3, ReadIInv
<1>4. ASSUME NEW s \in Session, (\E k \in Kinds : PeerSends(s, k)) \/ PeerCloses(s)
      PROVE  IInv'
  BY <1>4, PeerIInv
<1>5. CASE Receive
  BY <1>5, LeaveIInv, HandlersIInv DEF Receive
<1>6. CASE \E a \in asks : PhpSend(a)
  BY <1>6, PhpSendIInv
<1>7. CASE \E p \in plans : PlanFires(p)
  BY <1>7, PlanIInv
<1>8. CASE UNCHANGED vars
  BY <1>8 DEF IInv, TypeOK, TableIsLive, NoOrphanCache, LifeInv, BusyInv, OrderInv,
     StreamIntegrity, vars, conn, recv, php, peer
<1> QED
  BY <1>1, <1>2, <1>3, <1>4, <1>5, <1>6, <1>7, <1>8 DEF Next

-------------------------------------------------------------------------------
(* The theorems.                                                               *)

\* The inductive invariant holds of every behaviour.
THEOREM Invariance == Spec => []IInv
BY InitIInv, NextIInv, PTL DEF Spec

\* Every variable stays within its type, for any number of sessions, any limits
\* and any framing lengths.
THEOREM TypeCorrect == Spec => []TypeOK
<1>1. IInv => TypeOK
  BY DEF IInv
<1> QED
  BY <1>1, Invariance, PTL

\* The table g_clientDataList holds exactly the live records.
THEOREM TableCorrect == Spec => []TableIsLive
<1>1. IInv => TableIsLive
  BY DEF IInv
<1> QED
  BY <1>1, Invariance, PTL

\* No receive cache outlives its connection.
THEOREM CacheCorrect == Spec => []NoOrphanCache
<1>1. IInv => NoOrphanCache
  BY DEF IInv
<1> QED
  BY <1>1, Invariance, PTL

\* The receive cache always is the part of the stream not handed over yet.
THEOREM StreamCorrect == Spec => []StreamIntegrity
<1>1. IInv => StreamIntegrity
  BY DEF IInv
<1> QED
  BY <1>1, Invariance, PTL

-------------------------------------------------------------------------------
(* Nothing is left stranded in the cache.                                      *)

\* The session's first cached packet is whole and would be handed over.
Strandable(s) ==
    /\ Len(recvDataCash[s]) >= PktLen /\ handle[s] = "open"
    /\ sent[s][PacketOf(recvDataCash[s][1])] # "zero"

\* NothingStranded, for every session but the one being received for.
StrandInv == \A s \in g_clientDataList \ cut : s # busy => ~Strandable(s)

\* Requests to close and steps of other sessions strand nothing.
LEMMA SameStrand ==
    ASSUME IInv, StrandInv, UNCHANGED <<recvDataCash, sent, cut>>, busy' = busy,
           g_clientDataList' \subseteq g_clientDataList,
           \A s \in Session : handle'[s] = "open" => handle[s] = "open"
    PROVE  StrandInv'
BY DEF IInv, TypeOK, StrandInv, Strandable

\* The first packet of a cache that holds a whole one is among those sent.
LEMMA FirstSent ==
    ASSUME IInv, NEW s \in g_clientDataList, Len(recvDataCash[s]) >= PktLen
    PROVE  PacketOf(recvDataCash[s][1]) \in 1..Len(sent[s])
<1> DEFINE d == Len(done[s])
           left == read[s] - PktLen * d
<1>1. /\ s \in Session /\ d \in Nat /\ PktLen * d \in Nat /\ left \in Nat
      /\ Len(sent[s]) \in Nat /\ read[s] \in Nat /\ PktLen \in Nat \ {0}
  <2>1. s \in Session /\ d \in Nat /\ read[s] \in Nat /\ Len(sent[s]) \in Nat
    BY DEF IInv, TypeOK
  <2>2. PktLen \in Nat \ {0} /\ PktLen * d \in Nat
    BY <2>1, FrameAssumption
  <2>3. PktLen * d <= read[s]
    BY <2>1 DEF IInv, OrderInv
  <2> QED
    BY <2>1, <2>2, <2>3
<1>2. recvDataCash[s] = Run(PktLen * d, left)
  BY DEF IInv, StreamIntegrity
<1>3. left >= PktLen /\ recvDataCash[s][1] = PktLen * d + 1
  <2> HIDE DEF left
  <2>1. /\ Len(Run(PktLen * d, left)) = left
        /\ \A j \in 1..left : Run(PktLen * d, left)[j] = PktLen * d + j
    BY <1>1, RunType
  <2>2. 1 \in 1..left
    BY <2>1, <1>1, <1>2
  <2> QED
    BY <2>1, <2>2, <1>2
<1>4. PacketOf(recvDataCash[s][1]) = d + 1
  BY <1>1, <1>3, PacketOfBoundary
<1>5. d < Len(sent[s])
  <2>1. PktLen * d + PktLen <= PktLen * Len(sent[s])
    BY <1>1, <1>3 DEF IInv, OrderInv
  <2> QED
    BY <2>1, <1>1, PacketsMonotone
<1> QED
  BY <1>1, <1>4, <1>5

LEMMA LeaveStrand ==
    ASSUME IInv, StrandInv, ReturnWaiting \/ ReturnLoopCap \/ Oversize
    PROVE  StrandInv'
<1>1. /\ busy \in Session /\ busy \in g_clientDataList
      /\ UNCHANGED <<g_clientDataList, recvDataCash, sent>>
      /\ cut \subseteq cut'
  BY DEF ReturnWaiting, ReturnLoopCap, Oversize, Says, IInv, TypeOK, BusyInv, conn, peer
<1>2. \A s \in Session : handle'[s] = "open" => handle[s] = "open"
  BY DEF ReturnWaiting, ReturnLoopCap, Oversize, conn, CloseConn, IInv, TypeOK
<1> PICK b \in Session : b = busy
  BY <1>1
<1>3. b \in cut' \/ ~Strandable(b)'
  <2>1. CASE ReturnLoopCap
    BY <2>1 DEF ReturnLoopCap
  <2>2. CASE Oversize
    <3>1. handle'[b] # "open"
      BY <1>1, <2>2 DEF Oversize, CloseConn, Writable, IInv, TypeOK
    <3> QED
      BY <3>1 DEF Strandable
  <2>3. CASE ReturnWaiting
    <3>1. Len(Cash) \in Nat
      BY <1>1 DEF IInv, TypeOK, Cash
    <3>2. Len(Cash) >= PktLen => FirstKind = "zero"
      BY <2>3, <3>1, FrameAssumption DEF ReturnWaiting, Says, Verdict
    <3>3. Len(Cash) >= PktLen => FirstKind = sent[busy][PacketOf(recvDataCash[busy][1])]
      BY <3>1, FrameAssumption DEF FirstKind, Head1, Cash
    <3>4. ~Strandable(b)
      BY <3>2, <3>3 DEF Strandable, Cash
    <3> QED
      BY <1>1, <1>2, <3>4 DEF Strandable
  <2> QED
    BY <2>1, <2>2, <2>3
<1>4. ASSUME NEW s \in g_clientDataList, s # busy, Strandable(s)' PROVE Strandable(s)
  BY <1>1, <1>2, <1>4 DEF Strandable, IInv, TypeOK
<1>5. busy' = NoSession /\ \A s \in g_clientDataList : s \in cut => s \in cut'
  BY <1>1 DEF ReturnWaiting, ReturnLoopCap, Oversize
<1> QED
  BY <1>1, <1>3, <1>4, <1>5 DEF StrandInv

LEMMA HandlersStrand ==
    ASSUME IInv, StrandInv,
           HandleCmd \/ HandlePhp \/ HandleAsk \/ HandleNoCmd \/ HandleBadKey \/ HandleRaise
    PROVE  StrandInv'
<1>1. /\ TakeFrame /\ UNCHANGED <<read, sent, g_clientDataList>>
      /\ NextTurn \/ cut' = cut \cup {busy}
  BY DEF HandleCmd, HandlePhp, HandleAsk, HandleNoCmd, HandleBadKey, HandleRaise, conn, peer
<1>2. \A s \in Session : handle'[s] = "open" => handle[s] = "open"
  BY DEF HandleCmd, HandlePhp, HandleAsk, HandleNoCmd, HandleBadKey, HandleRaise, conn, CloseConn,
     IInv, TypeOK
<1>3. \A s \in Session : s # busy => recvDataCash'[s] = recvDataCash[s]
  BY <1>1, FrameStep
<1>4. ASSUME NEW s \in g_clientDataList, s # busy, Strandable(s)' PROVE Strandable(s)
  BY <1>1, <1>2, <1>3, <1>4 DEF Strandable, IInv, TypeOK
<1>5. cut \subseteq cut' /\ (busy' = busy \/ busy \in cut')
  BY <1>1 DEF NextTurn
<1> QED
  BY <1>1, <1>4, <1>5 DEF StrandInv

LEMMA NextStrand == IInv /\ StrandInv /\ [Next]_vars => StrandInv'
<1> SUFFICES ASSUME IInv, StrandInv, [Next]_vars PROVE StrandInv'
  OBVIOUS
<1>1. CASE NewClientConnection
  <2> PICK g \in Session : g = g_session
    BY <1>1, ClientAssumption DEF IInv, TypeOK, NewClientConnection, MoreSessions, Session
  <2>1. recvDataCash[g] = <<>>
    BY <1>1 DEF IInv, LifeInv, TypeOK, NewClientConnection, MoreSessions, Session
  <2>2. ~Strandable(g)'
    BY <1>1, <2>1, FrameAssumption DEF Strandable, NewClientConnection, recv
  <2> QED
    BY <1>1, <2>1, <2>2 DEF StrandInv, Strandable, NewClientConnection, recv, peer, IInv, TypeOK
<1>2. ASSUME NEW s \in Session, AfterWrite(s) \/ ShutdownCb(s) \/ ReadEof(s) \/ PeerCloses(s)
      PROVE  StrandInv'
  <2>1. /\ UNCHANGED <<recvDataCash, sent, cut, g_clientDataList>> /\ busy' = busy
        /\ \A t \in Session : handle'[t] = "open" => handle[t] = "open"
    BY <1>2 DEF AfterWrite, ShutdownCb, LuaOnCloseConn, ReadEof, PeerCloses, recv, peer, conn, CloseConn, IInv,
       TypeOK
  <2> QED
    BY <2>1, SameStrand
<1>3. ASSUME NEW s \in Session, CloseCb(s) PROVE StrandInv'
  BY <1>3 DEF CloseCb, Unregister, ClearRecvDataCash, StrandInv, Strandable, IInv, TypeOK, peer
<1>4. ASSUME NEW s \in Session, NEW n \in 0..MaxChunk, ReadCb(s, n) PROVE StrandInv'
  BY <1>4 DEF ReadCb, StrandInv, Strandable, IInv, TypeOK, conn, peer, Idle, NoSession, Session
<1>5. ASSUME NEW s \in Session, NEW k \in Kinds, PeerSends(s, k) PROVE StrandInv'
  <2>1. ASSUME NEW t \in g_clientDataList, Strandable(t)' PROVE Strandable(t)
    <3>1. PacketOf(recvDataCash[t][1]) \in 1..Len(sent[t])
      BY <1>5, <2>1, FirstSent DEF Strandable, PeerSends, recv
    <3>2. sent'[t][PacketOf(recvDataCash[t][1])] = sent[t][PacketOf(recvDataCash[t][1])]
      BY <1>5, <3>1 DEF PeerSends, IInv, TypeOK
    <3> QED
      BY <1>5, <2>1, <3>2 DEF Strandable, PeerSends, recv, conn
  <2> QED
    BY <1>5, <2>1 DEF StrandInv, PeerSends, recv, conn
<1>6. CASE Receive
  BY <1>6, LeaveStrand, HandlersStrand DEF Receive
<1>7. CASE (\E a \in asks : PhpSend(a)) \/ (\E p \in plans : PlanFires(p))
  <2>1. /\ UNCHANGED <<recvDataCash, sent, cut, g_clientDataList>> /\ busy' = busy
        /\ \A t \in Session : handle'[t] = "open" => handle[t] = "open"
    BY <1>7 DEF PhpSend, PlanFires, recv, peer, CloseConn, IInv, TypeOK
  <2> QED
    BY <2>1, SameStrand
<1>8. CASE UNCHANGED vars
  BY <1>8 DEF StrandInv, Strandable, vars, conn, recv, peer
<1> QED
  BY <1>1, <1>2, <1>3, <1>4, <1>5, <1>6, <1>7, <1>8 DEF Next

\* Whatever is sent and however reads cut it up, onRecvData leaves no whole packet
\* behind, unless an error or its turn limit ended it.
THEOREM NothingIsStranded == Spec => []NothingStranded
<1>1. Init => StrandInv
  BY DEF Init, StrandInv
<1>2. IInv /\ StrandInv => NothingStranded
  BY DEF IInv, TypeOK, StrandInv, Strandable, NothingStranded, Idle, NoSession, Session
<1> QED
  BY <1>1, <1>2, NextStrand, Invariance, PTL DEF Spec

-------------------------------------------------------------------------------
(* ClientConn implements the safety part of ClientSession.                     *)

\* A handler's step hands over the next packet of an online client.
LEMMA FrameDelivers ==
    ASSUME IInv, TakeFrame, UNCHANGED <<lua, sent>>
    PROVE  Sessions!Next
<1>1. /\ busy \in Session /\ lua[busy] = "online"
      /\ Head1 = Len(done[busy]) + 1 /\ Len(done[busy]) < Len(sent[busy])
  BY FrontPacket DEF TakeFrame
<1>2. Sessions!Deliver(busy)
  BY <1>1 DEF TakeFrame, Sessions!Deliver
<1> QED
  BY <1>1, <1>2 DEF Sessions!Next

LEMMA SessionStep == IInv /\ [Next]_vars => [Sessions!Next]_<<lua, sent, done>>
<1> SUFFICES ASSUME IInv, [Next]_vars
             PROVE  Sessions!Next \/ UNCHANGED <<lua, sent, done>>
  OBVIOUS
<1>1. CASE NewClientConnection
  <2>1. g_session \in Session /\ lua[g_session] = "none"
    BY <1>1, ClientAssumption DEF IInv, TypeOK, LifeInv, NewClientConnection, MoreSessions, Session
  <2>2. Sessions!Connect(g_session)
    BY <1>1, <2>1 DEF NewClientConnection, recv, peer, Sessions!Connect
  <2> QED
    BY <2>1, <2>2 DEF Sessions!Next
<1>2. ASSUME NEW s \in Session, ReadEof(s) PROVE Sessions!Next
  <2>1. lua[s] = "online"
    BY <1>2 DEF IInv, LifeInv, ReadEof
  <2>2. Sessions!Leave(s)
    BY <1>2, <2>1 DEF LuaOnCloseConn, ReadEof, recv, peer, Sessions!Leave
  <2> QED
    BY <2>2 DEF Sessions!Next
<1>3. ASSUME NEW s \in Session, CloseCb(s) PROVE Sessions!Next
  <2>1. lua[s] \in {"online", "offline"}
    BY <1>3 DEF IInv, TypeOK, LifeInv, CloseCb
  <2>2. Sessions!Finish(s)
    BY <1>3, <2>1 DEF CloseCb, Unregister, ClearRecvDataCash, peer, Sessions!Finish
  <2> QED
    BY <2>2 DEF Sessions!Next
<1>4. ASSUME NEW s \in Session, NEW k \in Kinds, PeerSends(s, k) PROVE Sessions!Next
  <2>1. lua[s] \in {"online", "offline"}
    BY <1>4 DEF IInv, TypeOK, LifeInv, PeerSends
  <2>2. Sessions!Submit(s, k)
    BY <1>4, <2>1 DEF PeerSends, recv, Sessions!Submit
  <2> QED
    BY <2>2 DEF Sessions!Next
<1>5. CASE HandleCmd \/ HandlePhp \/ HandleAsk \/ HandleNoCmd \/ HandleBadKey \/ HandleRaise
  <2>1. TakeFrame /\ UNCHANGED <<lua, sent>>
    BY <1>5 DEF HandleCmd, HandlePhp, HandleAsk, HandleNoCmd, HandleBadKey, HandleRaise, peer
  <2> QED
    BY <2>1, FrameDelivers
<1>6. CASE ReturnWaiting \/ ReturnLoopCap \/ Oversize
  BY <1>6 DEF ReturnWaiting, ReturnLoopCap, Oversize, peer
<1>7. ASSUME NEW s \in Session, AfterWrite(s) \/ ShutdownCb(s) \/ PeerCloses(s)
      PROVE  UNCHANGED <<lua, sent, done>>
  BY <1>7 DEF AfterWrite, ShutdownCb, PeerCloses, recv, peer
<1>8. ASSUME NEW s \in Session, NEW n \in 0..MaxChunk, ReadCb(s, n)
      PROVE  UNCHANGED <<lua, sent, done>>
  BY <1>8 DEF ReadCb, peer
<1>9. ASSUME (\E a \in asks : PhpSend(a)) \/ (\E p \in plans : PlanFires(p))
      PROVE  UNCHANGED <<lua, sent, done>>
  BY <1>9 DEF PhpSend, PlanFires, recv, peer
<1>10. CASE UNCHANGED vars
  BY <1>10 DEF vars, recv, peer
<1> QED
  BY <1>1, <1>2, <1>3, <1>4, <1>5, <1>6, <1>7, <1>8, <1>9, <1>10 DEF Next, Receive

\* Whatever the order of reads, completions, kicks and plans, the scripts see a
\* ClientSession: packets in order, once, between lua_onconn and lua_oncloseconn.
THEOREM Refinement == Spec => Sessions!SafeSpec
<1>1. Init => Sessions!Init
  BY DEF Init, Sessions!Init
<1>2. IInv /\ [Next]_vars => [Sessions!Next]_Sessions!svars
  BY SessionStep DEF Sessions!svars
<1> QED
  BY <1>1, <1>2, Invariance, PTL DEF Spec, Sessions!SafeSpec
-------------------------------------------------------------------------------
(* Sessions as streams.                                                        *)

\* A step as the stream of session s sees it.
CacheStep(s) == [Stream(s)!Next]_(Stream(s)!stream)

LEMMA SessionFrame ==
    ASSUME NEW s \in Session, recvDataCash'[s] = recvDataCash[s], done'[s] = done[s],
           s \in g_clientDataList' <=> s \in g_clientDataList
    PROVE  CacheStep(s)
BY DEF CacheStep, Stream!stream

\* A connection starts with nothing of an earlier one.
LEMMA AcceptStreams ==
    ASSUME IInv, NewClientConnection, NEW s \in Session
    PROVE  CacheStep(s)
<1>1. /\ g_clientDataList' = g_clientDataList \cup {g_session}
      /\ UNCHANGED <<recvDataCash, done>>
  BY DEF NewClientConnection, recv
<1>2. CASE s # g_session
  BY <1>1, <1>2, SessionFrame
<1>3. CASE s = g_session
  <2>1. handle[s] = "none"
    BY <1>3, ClientAssumption DEF IInv, TypeOK, LifeInv, Session
  <2>2. s \notin g_clientDataList /\ recvDataCash[s] = << >> /\ done[s] = << >>
    BY <2>1 DEF IInv, LifeInv, TableIsLive
  <2>3. PktLen * Len(done'[s]) = 0
    BY <1>1, <2>2, FrameAssumption
  <2>4. Stream(s)!Open
    BY <1>1, <1>3, <2>2, <2>3 DEF Stream!Open
  <2> QED
    BY <2>4 DEF CacheStep, Stream!Next
<1> QED
  BY <1>2, <1>3

\* Nothing is left of it at its end.
LEMMA CloseStreams ==
    ASSUME IInv, NEW c \in Session, CloseCb(c), NEW s \in Session
    PROVE  CacheStep(s)
<1>1. /\ g_clientDataList' = g_clientDataList \ {c} /\ UNCHANGED done
      /\ recvDataCash' = [recvDataCash EXCEPT ![c] = << >>]
  BY DEF CloseCb, Unregister, ClearRecvDataCash
<1>2. CASE s # c
  BY <1>1, <1>2, SessionFrame DEF IInv, TypeOK
<1>3. CASE s = c
  <2>1. s \in g_clientDataList
    BY <1>3 DEF IInv, TableIsLive, CloseCb
  <2>2. recvDataCash'[s] = << >>
    BY <1>1, <1>3 DEF IInv, TypeOK
  <2>3. Stream(s)!End
    BY <1>1, <1>3, <2>1, <2>2 DEF Stream!End
  <2> QED
    BY <2>3 DEF CacheStep, Stream!Next
<1> QED
  BY <1>2, <1>3

\* A read adds the next cells, however many.
LEMMA ReadStreams ==
    ASSUME IInv, NEW c \in Session, NEW n \in 0..MaxChunk, ReadCb(c, n), NEW s \in Session
    PROVE  CacheStep(s)
<1>1. /\ recvDataCash' = [recvDataCash EXCEPT ![c] = recvDataCash[c] \o Run(read[c], n)]
      /\ UNCHANGED <<g_clientDataList, done>>
  BY DEF ReadCb, conn
<1>2. CASE s # c
  BY <1>1, <1>2, SessionFrame DEF IInv, TypeOK
<1>3. CASE s = c
  <2> DEFINE d == PktLen * Len(done[s])
  <2>1. s \in g_clientDataList
    BY <1>3 DEF IInv, LifeInv, TableIsLive, ReadCb
  <2>2. /\ n \in Nat /\ d \in Nat /\ read[s] \in Nat /\ d <= read[s]
        /\ recvDataCash[s] = Run(d, read[s] - d)
    BY <2>1, ClientAssumption, FrameAssumption DEF IInv, TypeOK, OrderInv, StreamIntegrity
  <2> HIDE DEF d
  <2>3. Len(recvDataCash[s]) = read[s] - d
    <3> DEFINE m == read[s] - d
    <3>1. m \in Nat
      BY <2>2
    <3> HIDE DEF m
    <3>2. Len(Run(d, m)) = m
      BY <2>2, <3>1, RunType
    <3> QED
      BY <2>2, <3>2 DEF m
  <2>4. Run(read[s], n) = [j \in 1..n |-> d + Len(recvDataCash[s]) + j]
    BY <2>2, <2>3 DEF Run
  <2>5. recvDataCash'[s] = recvDataCash[s] \o [j \in 1..n |-> d + Len(recvDataCash[s]) + j]
    BY <1>1, <1>3, <2>4 DEF IInv, TypeOK
  <2>6. n \in 0..Len(recvDataCash'[s])
    <3>1. /\ recvDataCash[s] \in Seq(Nat \ {0}) /\ Run(read[s], n) \in Seq(Nat \ {0})
          /\ Len(Run(read[s], n)) = n
      BY <2>2, RunType DEF IInv, TypeOK
    <3>2. recvDataCash'[s] = recvDataCash[s] \o Run(read[s], n)
      BY <1>1, <1>3 DEF IInv, TypeOK
    <3>3. Len(recvDataCash'[s]) = Len(recvDataCash[s]) + n /\ Len(recvDataCash[s]) \in Nat
      <4>1. \A c1 \in Seq(Nat \ {0}), c2 \in Seq(Nat \ {0}) :
              Len(c1) \in Nat /\ Len(c1 \o c2) = Len(c1) + Len(c2)
        OBVIOUS
      <4> QED
        BY <3>1, <3>2, <4>1
    <3> QED
      BY <2>2, <3>3
  <2>7. Stream(s)!Receive
    <3>1. \E m \in 0..Len(recvDataCash'[s]) :
            recvDataCash'[s] = recvDataCash[s] \o [j \in 1..m |-> d + Len(recvDataCash[s]) + j]
      BY <2>5, <2>6
    <3> QED
      BY <1>1, <2>1, <3>1 DEF Stream!Receive, d
  <2> QED
    BY <2>7 DEF CacheStep, Stream!Next
<1> QED
  BY <1>2, <1>3

\* A frame is the first packet of what waits.
LEMMA FrameStreams ==
    ASSUME IInv, TakeFrame, UNCHANGED <<read, sent, g_clientDataList>>, NEW s \in Session
    PROVE  CacheStep(s)
<1>1. /\ busy \in Session /\ busy \in g_clientDataList /\ Len(Cash) >= PktLen
      /\ Head1 = Len(done[busy]) + 1
  BY FrontPacket DEF TakeFrame
<1>2. CASE s # busy
  BY <1>2, SessionFrame, FrameStep
<1>3. CASE s = busy
  <2>1. recvDataCash'[s] = SubSeq(recvDataCash[s], PktLen + 1, Len(recvDataCash[s]))
    BY <1>3 DEF TakeFrame, LeftData, IInv, TypeOK
  <2>2. Len(done[s]) \in Nat /\ Len(done'[s]) = Len(done[s]) + 1
    <3>1. done[s] \in Seq(Nat \ {0}) /\ Head1 \in Nat \ {0}
      BY FrameStep DEF IInv, TypeOK
    <3>2. done'[s] = Append(done[s], Head1)
      BY <1>3 DEF TakeFrame, IInv, TypeOK
    <3> QED
      BY <3>1, <3>2
  <2>3. PktLen * Len(done'[s]) = PktLen * Len(done[s]) + PktLen
    BY <2>2, FrameAssumption
  <2>4. Stream(s)!HandOver
    BY <1>1, <1>3, <2>1, <2>3 DEF Stream!HandOver, Cash
  <2> QED
    BY <2>4 DEF CacheStep, Stream!Next
<1> QED
  BY <1>2, <1>3

\* The abstract view of the receive cache: whatever the order of reads, handlers and
\* completions, each session is a stream of whole packets, from the first one on, and
\* leaves nothing to a later connection (netlib.lua:47, GameServer.cpp:472).
THEOREM SessionStreams == Spec => SessionsAreStreams
<1>1. Init => \A s \in Session : Stream(s)!Init
  BY FrameAssumption DEF Init, Stream!Init
<1>2. ASSUME IInv, [Next]_vars, NEW s \in Session PROVE CacheStep(s)
  <2>1. CASE NewClientConnection
    BY <1>2, <2>1, AcceptStreams
  <2>2. CASE \E c \in Session : CloseCb(c)
    BY <1>2, <2>2, CloseStreams
  <2>3. CASE \E c \in Session : \E n \in 0..MaxChunk : ReadCb(c, n)
    BY <1>2, <2>3, ReadStreams
  <2>4. CASE TakeFrame /\ UNCHANGED <<read, sent, g_clientDataList>>
    BY <1>2, <2>4, FrameStreams
  <2>5. CASE UNCHANGED <<g_clientDataList, recvDataCash, done>>
    BY <1>2, <2>5, SessionFrame
  <2>6. CASE Receive
    <3>1. CASE ReturnWaiting \/ ReturnLoopCap \/ Oversize
      BY <2>5, <3>1 DEF ReturnWaiting, ReturnLoopCap, Oversize, conn
    <3>2. CASE HandleCmd \/ HandlePhp \/ HandleAsk \/ HandleNoCmd \/ HandleBadKey \/ HandleRaise
      BY <2>4, <3>2 DEF HandleCmd, HandlePhp, HandleAsk, HandleNoCmd, HandleBadKey, HandleRaise, conn, peer
    <3> QED
      BY <2>6, <3>1, <3>2 DEF Receive
  <2> QED
    BY <1>2, <2>1, <2>2, <2>3, <2>5, <2>6 DEF Next, vars, conn, recv, AfterWrite, ShutdownCb, ReadEof,
        PeerSends, PeerCloses, PhpSend, PlanFires
<1>3. IInv /\ [Next]_vars => [\A s \in Session : [Stream(s)!Next]_(Stream(s)!stream)]_vars
  BY <1>2 DEF CacheStep
<1> QED
  BY <1>1, <1>3, Invariance, PTL DEF Spec, SessionsAreStreams

===============================================================================
