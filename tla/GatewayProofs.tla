----------------------------- MODULE GatewayProofs -----------------------------
(* Theorems about the receive cache: where no client and link share a number    *)
(* and no link has ended within a packet, netlib hands over what was sent.      *)
EXTENDS Gateway, SequenceTheorems, TLAPS

-------------------------------------------------------------------------------
(* The inductive invariant.                                                    *)

\* A number with one stream in its cache.
Mine(k) == k \notin Shared /\ k \notin cutOff /\ (k \in Session => client[k] # "freed")

\* Its cells are in order, and what was handed over was whole packets.
Lined(k) ==
    /\ Len(cash[k]) = pos[<<SrcOf(k), k>>] - took[k]
    /\ took[k] % 2 = 0
    /\ \A x \in 1..Len(cash[k]) :
          /\ cash[k][x].src = SrcOf(k) /\ cash[k][x].gen = GenOf(k)
          /\ cash[k][x].i = took[k] + x

KeysInv == \A k \in Key : Mine(k) => Lined(k)

\* What ended without bytes in the cache has none.
EndedInv ==
    /\ \A n \in Sno \ (Session \cup cutOff) :
          link[n] \in {"none", "connecting", "closed"} => cash[n] = << >>
    /\ \A s \in Session \ Sno : client[s] = "freed" => cash[s] = << >>

GatewayInv == TypeOK /\ KeysInv /\ EndedInv /\ WholePackets

-------------------------------------------------------------------------------

\* The steps that leave the cache and the places read alone.
LEMMA CacheFrame ==
    ASSUME TypeOK, KeysInv, UNCHANGED <<cash, took, pos, gen>>, cutOff \subseteq cutOff',
           \A s \in Session : client[s] = "freed" => client'[s] = "freed"
    PROVE  KeysInv'
<1> SUFFICES ASSUME NEW k \in Key, Mine(k)' PROVE Lined(k)'
  BY DEF KeysInv
<1>1. Mine(k)
  BY DEF Mine
<1>2. Lined(k)
  BY <1>1 DEF KeysInv
<1> QED
  BY <1>2 DEF Lined, SrcOf, GenOf

\* connectTo, the close of a link, an end of file, accept, a client's shutdown: what
\* may end a link or a client but does not touch the cache.
LEMMA LifeStep ==
    ASSUME GatewayInv,
           \/ \E n \in Sno : \/ ConnectTo(n) \/ ReadServerEof(n) \/ CloseServerConn(n)
                            \/ ShutdownScCb(n) \/ CloseScCb(n)
           \/ \E s \in Session : Accept(s) \/ CloseClientConn(s) \/ ShutdownCb(s)
           \/ \E k \in Key : RecvWaits(k) \/ TooBig(k)
           \/ UNCHANGED vars
    PROVE  GatewayInv'
<1> USE DEF GatewayInv
<1>1. UNCHANGED <<cash, took, pos, gen, spoiled>> /\ cutOff \subseteq cutOff'
  BY DEF ConnectTo, ReadServerEof, CloseServerConn, ShutdownScCb, CloseScCb, Accept, EndsLink,
         CloseClientConn, ShutdownCb, RecvWaits, TooBig, vars, links, cache
<1>2. /\ \A s \in Session : client'[s] = "freed" <=> client[s] = "freed"
      /\ client' \in [Session -> {"none", "open", "shut", "closing", "freed"}]
  BY DEF ConnectTo, ReadServerEof, CloseServerConn, ShutdownScCb, CloseScCb, Accept, Closed,
         CloseClientConn, ShutdownCb, RecvWaits, TooBig, vars, links, cache, TypeOK
<1>3. TypeOK'
  <2>1. cutOff' \subseteq Sno /\ stale' \subseteq Sno
    BY DEF ConnectTo, ReadServerEof, CloseServerConn, ShutdownScCb, CloseScCb, Accept, EndsLink,
           CloseClientConn, ShutdownCb, RecvWaits, TooBig, vars, links, cache, TypeOK
  <2>2. link' \in [Sno -> {"none", "connecting", "connected", "shut", "closing", "closed"}]
    BY DEF ConnectTo, ReadServerEof, CloseServerConn, ShutdownScCb, CloseScCb, Accept,
           CloseClientConn, ShutdownCb, RecvWaits, TooBig, vars, links, cache, TypeOK
  <2>3. busy' \in Key \cup {NoKey} /\ crashed' = crashed
    BY DEF ConnectTo, ReadServerEof, CloseServerConn, ShutdownScCb, CloseScCb, Accept,
           CloseClientConn, ShutdownCb, RecvWaits, TooBig, vars, links, cache, TypeOK
  <2> QED
    BY <1>1, <1>2, <2>1, <2>2, <2>3 DEF TypeOK
<1>4. KeysInv'
  BY <1>1, <1>2, CacheFrame
<1>5. EndedInv'
  <2>1. ASSUME NEW n \in Sno \ (Session \cup cutOff'),
               link'[n] \in {"none", "connecting", "closed"}
        PROVE  cash'[n] = << >>
    <3>1. link[n] \in {"none", "connecting", "closed"} \/ n \in cutOff' \/ cash[n] = << >>
      BY <2>1 DEF ConnectTo, ReadServerEof, CloseServerConn, ShutdownScCb, CloseScCb, Accept, EndsLink,
             CloseClientConn, ShutdownCb, RecvWaits, TooBig, vars, links, cache, TypeOK
    <3> QED
      BY <1>1, <2>1, <3>1 DEF EndedInv
  <2>2. ASSUME NEW s \in Session \ Sno, client'[s] = "freed"
        PROVE  cash'[s] = << >>
    BY <1>1, <1>2, <2>2 DEF EndedInv
  <2> QED
    BY <2>1, <2>2 DEF EndedInv
<1>6. WholePackets'
  BY <1>1 DEF WholePackets
<1> QED
  BY <1>3, <1>4, <1>5, <1>6

LEMMA ConnectStep ==
    ASSUME GatewayInv, NEW n \in Sno, ConnectCb(n)
    PROVE  GatewayInv'
<1> USE DEF GatewayInv
<1>1. /\ UNCHANGED <<stale, client, cash, busy, spoiled, crashed, cutOff>>
      /\ link[n] = "connecting" /\ link' = [link EXCEPT ![n] = "connected"]
      /\ gen' = [gen EXCEPT ![n] = gen[n] + 1] /\ gen[n] < MaxGen
      /\ pos' = [pos EXCEPT ![<<Server, n>>] = 0]
      /\ took' = [took EXCEPT ![n] = IF n \in Session THEN took[n] ELSE 0]
  BY DEF ConnectCb
<1>2. <<Server, n>> \in Conn /\ n \in Key
  BY DEF Conn, Key
<1>3. TypeOK'
  <2>1. pos' \in [Conn -> 0..MaxCells]
    BY <1>1, <1>2, GatewayAssumption DEF TypeOK
  <2>2. took' \in [Key -> Nat]
    BY <1>1, <1>2 DEF TypeOK
  <2>3. gen' \in [Sno -> 0..MaxGen]
    BY <1>1, GatewayAssumption DEF TypeOK
  <2>4. link' \in [Sno -> {"none", "connecting", "connected", "shut", "closing", "closed"}]
    BY <1>1 DEF TypeOK
  <2> QED
    BY <1>1, <2>1, <2>2, <2>3, <2>4 DEF TypeOK
<1>4. KeysInv'
  <2> SUFFICES ASSUME NEW k \in Key, Mine(k)' PROVE Lined(k)'
    BY DEF KeysInv
  <2>1. Mine(k) /\ Lined(k)
    BY <1>1 DEF Mine, KeysInv
  <2>2. CASE k # n
    <3>1. <<SrcOf(k), k>> \in Conn /\ <<SrcOf(k), k>> # <<Server, n>>
      BY <2>2 DEF SrcOf, Conn, Key
    <3>2. pos'[<<SrcOf(k), k>>] = pos[<<SrcOf(k), k>>] /\ took'[k] = took[k]
      BY <1>1, <2>2, <3>1 DEF TypeOK
    <3>3. GenOf(k)' = GenOf(k) /\ SrcOf(k)' = SrcOf(k)
      BY <1>1, <2>2 DEF GenOf, SrcOf, TypeOK, Key
    <3> QED
      BY <1>1, <2>1, <3>2, <3>3 DEF Lined
  <2>3. CASE k = n
    <3>1. n \notin Session /\ n \notin cutOff
      BY <2>1, <2>3 DEF Mine, Shared
    <3>2. cash[n] = << >>
      BY <1>1, <3>1 DEF EndedInv
    <3>3. pos'[<<Server, n>>] = 0 /\ took'[n] = 0
      BY <1>1, <1>2, <3>1 DEF TypeOK
    <3> QED
      BY <1>1, <2>3, <3>1, <3>2, <3>3 DEF Lined, SrcOf
  <2> QED
    BY <2>2, <2>3
<1>5. EndedInv'
  BY <1>1 DEF EndedInv, TypeOK
<1>6. WholePackets'
  BY <1>1 DEF WholePackets
<1> QED
  BY <1>3, <1>4, <1>5, <1>6

LEMMA CloseStep ==
    ASSUME GatewayInv, NEW s \in Session, CloseCb(s)
    PROVE  GatewayInv'
<1> USE DEF GatewayInv
<1>1. /\ UNCHANGED <<link, gen, stale, pos, busy, took, spoiled, crashed, cutOff>>
      /\ client' = [client EXCEPT ![s] = "freed"] /\ cash' = [cash EXCEPT ![s] = << >>]
  BY DEF CloseCb, links
<1>2. s \in Key
  BY DEF Key
<1>3. TypeOK'
  <2>1. cash' \in [Key -> Seq(Cell)]
    BY <1>1, <1>2, EmptySeq DEF TypeOK
  <2>2. client' \in [Session -> {"none", "open", "shut", "closing", "freed"}]
    BY <1>1 DEF TypeOK
  <2>3. Cell' = Cell
    BY DEF Cell
  <2> QED
    BY <1>1, <2>1, <2>2, <2>3 DEF TypeOK
<1>4. KeysInv'
  <2> SUFFICES ASSUME NEW k \in Key, Mine(k)' PROVE Lined(k)'
    BY DEF KeysInv
  <2>1. k # s
    BY <1>1 DEF Mine, TypeOK
  <2>2. Mine(k) /\ cash'[k] = cash[k]
    BY <1>1, <2>1 DEF Mine, TypeOK
  <2> QED
    BY <1>1, <2>2 DEF KeysInv, Lined, SrcOf, GenOf
<1>5. EndedInv'
  BY <1>1, <1>2 DEF EndedInv, TypeOK, Key
<1>6. WholePackets'
  BY <1>1 DEF WholePackets
<1> QED
  BY <1>3, <1>4, <1>5, <1>6

\* A process that has met no one is in order.
FreshState ==
    /\ link = Fresh.link /\ gen = Fresh.gen /\ stale = {} /\ client = Fresh.client
    /\ pos = Fresh.pos /\ cash = Fresh.cash /\ busy = NoKey /\ took = Fresh.took
    /\ crashed \in BOOLEAN /\ spoiled = {} /\ cutOff = {}

LEMMA FreshInv == FreshState => GatewayInv
<1> SUFFICES ASSUME FreshState PROVE GatewayInv
  OBVIOUS
<1> USE DEF FreshState
<1>1. TypeOK
  <2>1. cash \in [Key -> Seq(Cell)]
    BY EmptySeq DEF Fresh
  <2>2. /\ link \in [Sno -> {"none", "connecting", "connected", "shut", "closing", "closed"}]
        /\ client \in [Session -> {"none", "open", "shut", "closing", "freed"}]
    BY DEF Fresh
  <2>3. /\ gen \in [Sno -> 0..MaxGen] /\ pos \in [Conn -> 0..MaxCells]
        /\ took \in [Key -> Nat]
    BY GatewayAssumption DEF Fresh
  <2> QED
    BY <2>1, <2>2, <2>3 DEF TypeOK
<1>2. KeysInv
  <2> SUFFICES ASSUME NEW k \in Key PROVE Lined(k)
    BY DEF KeysInv
  <2>1. cash[k] = << >> /\ took[k] = 0
    BY DEF Fresh
  <2>2. <<SrcOf(k), k>> \in Conn
    BY DEF SrcOf, Conn, Key
  <2>3. pos[<<SrcOf(k), k>>] = 0
    BY <2>2 DEF Fresh
  <2> QED
    BY <2>1, <2>3 DEF Lined
<1>3. EndedInv
  BY DEF EndedInv, Fresh, Key
<1> QED
  BY <1>1, <1>2, <1>3 DEF GatewayInv, WholePackets

\* The connection a source has now under a number.
Now(g, src, k) == IF src = Client THEN 0 ELSE g[k]

\* What libuv reads now follows what waits: the next cells of the connection.
LEMMA ReadAdds ==
    ASSUME TypeOK, NEW src \in {Client, Server}, NEW k \in Key, ReadCb(src, k)
    PROVE  /\ <<src, k>> \in Conn /\ (src = Client => k \in Session) /\ (src # Client => k \in Sno)
           /\ \E j \in pos[<<src, k>>] + 1..MaxCells :
                 /\ pos' = [pos EXCEPT ![<<src, k>>] = j]
                 /\ Len(cash'[k]) = Len(cash[k]) + (j - pos[<<src, k>>])
                 /\ \A x \in 1..Len(cash[k]) : cash'[k][x] = cash[k][x]
                 /\ \A x \in 1..Len(cash'[k]) : x > Len(cash[k]) =>
                       /\ cash'[k][x].src = src /\ cash'[k][x].gen = Now(gen, src, k)
                       /\ cash'[k][x].i = pos[<<src, k>>] + (x - Len(cash[k]))
           /\ cash' \in [Key -> Seq(Cell)]
           /\ \A m \in Key : m # k => cash'[m] = cash[m]
<1>1. PICK j \in pos[<<src, k>>] + 1..MaxCells, big \in BOOLEAN :
        /\ cash' = [cash EXCEPT ![k] =
                      cash[k] \o Chunk(src, k, pos[<<src, k>>] + 1, j, big)]
        /\ pos' = [pos EXCEPT ![<<src, k>>] = j]
  BY DEF ReadCb, Joined
<1>2. /\ UNCHANGED <<link, gen, stale, client, took, spoiled, crashed, cutOff>>
      /\ busy' = k /\ Readable(src, k)
  BY DEF ReadCb, links
<1>g. (IF src = Client THEN 0 ELSE gen[k]) \in 0..MaxGen
  <2>1. k \in Sno => gen[k] \in 0..MaxGen
    BY DEF TypeOK
  <2>2. 0 \in 0..MaxGen
    BY GatewayAssumption
  <2> QED
    BY <1>2, <2>1, <2>2 DEF Readable, Client, Server
<1> DEFINE p == pos[<<src, k>>]
           data == Chunk(src, k, p + 1, j, big)
<1>3. <<src, k>> \in Conn /\ (src = Client => k \in Session) /\ (src # Client => k \in Sno)
  BY <1>2 DEF Conn, Readable, Client, Server
<1>4. p \in 0..MaxCells /\ j \in p + 1..MaxCells /\ MaxCells \in Nat
  BY <1>3, GatewayAssumption DEF TypeOK
<1>5. /\ data \in Seq(Cell) /\ Len(data) = j - p
      /\ \A x \in 1..(j - p) :
            /\ data[x].src = src /\ data[x].gen = (IF src = Client THEN 0 ELSE gen[k])
            /\ data[x].i = p + x
  <2> DEFINE d(x) == [src |-> src, gen |-> IF src = Client THEN 0 ELSE gen[k],
                      i |-> (p + 1) + x - 1, big |-> big /\ (p + 1) + x - 1 = j /\ j % 2 = 1]
  <2>1. data = [x \in 1..(j - p) |-> d(x)]
    <3>1. j - (p + 1) + 1 = j - p
      BY <1>4
    <3> QED
      BY <3>1 DEF Chunk
  <2>2. ASSUME NEW x \in 1..(j - p) PROVE d(x) \in Cell
    <3>1. (IF src = Client THEN 0 ELSE gen[k]) \in 0..MaxGen
      BY <1>g
    <3>2. (p + 1) + x - 1 \in 1..MaxCells
      BY <1>4
    <3>3. (big /\ (p + 1) + x - 1 = j /\ j % 2 = 1) \in BOOLEAN
      OBVIOUS
    <3>4. d(x).big => IsHead(d(x))
      BY DEF IsHead
    <3>5. d(x) \in [src : {Client, Server}, gen : 0..MaxGen, i : 1..MaxCells, big : BOOLEAN]
      BY <3>1, <3>2, <3>3
    <3> QED
      BY <3>4, <3>5 DEF Cell
  <2>3. j - p \in Nat
    BY <1>4
  <2>4. data \in Seq(Cell) /\ Len(data) = j - p
    <3> HIDE DEF d
    <3> QED
      BY <2>1, <2>2, <2>3
  <2>5. ASSUME NEW x \in 1..(j - p)
        PROVE  /\ data[x].src = src /\ data[x].gen = (IF src = Client THEN 0 ELSE gen[k])
               /\ data[x].i = p + x
    <3>1. data[x] = d(x)
      <4> HIDE DEF d, data
      <4> QED
        BY <2>1
    <3>2. (p + 1) + x - 1 = p + x
      BY <1>4
    <3> HIDE DEF data
    <3> QED
      BY <3>1, <3>2
  <2> QED
    BY <2>4, <2>5
<1> HIDE DEF data
<1>6. cash[k] \in Seq(Cell)
  BY DEF TypeOK
<1>7. /\ cash'[k] = cash[k] \o data /\ cash'[k] \in Seq(Cell)
      /\ Len(cash'[k]) = Len(cash[k]) + (j - p)
      /\ \A x \in 1..Len(cash'[k]) :
            cash'[k][x] = IF x <= Len(cash[k]) THEN cash[k][x] ELSE data[x - Len(cash[k])]
  <2>1. cash'[k] = cash[k] \o data
    BY <1>1 DEF TypeOK, data
  <2>2. /\ cash[k] \o data \in Seq(Cell)
        /\ Len(cash[k] \o data) = Len(cash[k]) + Len(data)
        /\ \A x \in 1..Len(cash[k]) + Len(data) :
              (cash[k] \o data)[x] = IF x <= Len(cash[k]) THEN cash[k][x] ELSE data[x - Len(cash[k])]
    <3> HIDE DEF data
    <3> QED
      BY <1>5, <1>6, ConcatProperties
  <2> HIDE DEF data
  <2> QED
    BY <2>1, <2>2, <1>5
<1>8. ASSUME NEW x \in 1..Len(cash'[k]), x > Len(cash[k])
      PROVE  /\ cash'[k][x].src = src /\ cash'[k][x].gen = Now(gen, src, k)
             /\ cash'[k][x].i = p + (x - Len(cash[k]))
  <2>1. Len(cash[k]) \in Nat
    BY <1>6
  <2>2. x - Len(cash[k]) \in 1..(j - p)
    <3>1. x \in Int /\ x <= Len(cash[k]) + (j - p)
      BY <1>7, <1>8
    <3> HIDE DEF p
    <3> QED
      BY <1>4, <1>8, <2>1, <3>1
  <2>3. cash'[k][x] = data[x - Len(cash[k])]
    BY <1>7, <1>8, <2>1
  <2> QED
    BY <1>5, <2>2, <2>3 DEF Now
<1>9. \A x \in 1..Len(cash[k]) : cash'[k][x] = cash[k][x]
  <2>1. Len(cash[k]) \in Nat /\ j - p \in Nat
    BY <1>4, <1>6
  <2> QED
    BY <1>7, <2>1
<1>10. cash' \in [Key -> Seq(Cell)] /\ \A m \in Key : m # k => cash'[m] = cash[m]
  BY <1>1, <1>7 DEF TypeOK
<1> QED
  BY <1>1, <1>3, <1>7, <1>8, <1>9, <1>10

LEMMA NowType ==
    ASSUME TypeOK, NEW src \in {Client, Server}, NEW k \in Key, ReadCb(src, k)
    PROVE  Now(gen, src, k) \in Int
<1>1. src # Client => k \in Sno
  BY ReadAdds
<1>2. k \in Sno => gen[k] \in Int
  BY GatewayAssumption DEF TypeOK
<1> QED
  BY <1>1, <1>2 DEF Now

LEMMA ReadStep ==
    ASSUME GatewayInv, NEW src \in {Client, Server}, NEW k \in Key, ReadCb(src, k)
    PROVE  GatewayInv'
<1> USE DEF GatewayInv
<1>1. /\ <<src, k>> \in Conn /\ (src = Client => k \in Session) /\ (src # Client => k \in Sno)
      /\ cash' \in [Key -> Seq(Cell)]
      /\ \A m \in Key : m # k => cash'[m] = cash[m]
  BY ReadAdds
<1>2. /\ UNCHANGED <<link, gen, stale, client, took, spoiled, crashed, cutOff>>
      /\ busy' = k /\ Readable(src, k)
  BY DEF ReadCb, links
<1> DEFINE p == pos[<<src, k>>]
<1>3. PICK j \in p + 1..MaxCells :
        /\ pos' = [pos EXCEPT ![<<src, k>>] = j]
        /\ Len(cash'[k]) = Len(cash[k]) + (j - p)
        /\ \A x \in 1..Len(cash[k]) : cash'[k][x] = cash[k][x]
        /\ \A x \in 1..Len(cash'[k]) : x > Len(cash[k]) =>
              /\ cash'[k][x].src = src /\ cash'[k][x].gen = Now(gen, src, k)
              /\ cash'[k][x].i = p + (x - Len(cash[k]))
  BY ReadAdds
<1>4. p \in 0..MaxCells /\ j \in p + 1..MaxCells /\ MaxCells \in Nat /\ cash[k] \in Seq(Cell)
  BY <1>1, GatewayAssumption DEF TypeOK
<1>5. TypeOK'
  <2>1. pos' \in [Conn -> 0..MaxCells]
    BY <1>1, <1>3, <1>4 DEF TypeOK
  <2> QED
    BY <1>1, <1>2, <2>1 DEF TypeOK
<1>6. KeysInv'
  <2> SUFFICES ASSUME NEW m \in Key, Mine(m)' PROVE Lined(m)'
    BY DEF KeysInv
  <2>1. Mine(m) /\ Lined(m)
    BY <1>2 DEF Mine, KeysInv
  <2>2. CASE m # k
    <3>1. cash'[m] = cash[m]
      BY <1>1, <2>2
    <3>2. <<SrcOf(m), m>> \in Conn
      BY DEF SrcOf, Conn, Key
    <3>3. pos'[<<SrcOf(m), m>>] = pos[<<SrcOf(m), m>>]
      BY <1>3, <2>2, <3>2 DEF TypeOK
    <3> QED
      BY <1>2, <2>1, <3>1, <3>3 DEF Lined, SrcOf, GenOf
  <2>3. CASE m = k
    <3>1. SrcOf(k) = src /\ GenOf(k) = Now(gen, src, k)
      BY <1>1, <2>1, <2>3 DEF SrcOf, GenOf, Now, Mine, Shared, Client, Server
    <3>2. /\ Len(cash[k]) = p - took[k] /\ took[k] % 2 = 0
          /\ \A x \in 1..Len(cash[k]) :
                /\ cash[k][x].src = src /\ cash[k][x].gen = GenOf(k)
                /\ cash[k][x].i = took[k] + x
      BY <2>1, <2>3, <3>1 DEF Lined
    <3>3. took[k] \in Nat /\ Len(cash[k]) \in Nat
      BY <1>4 DEF TypeOK
    <3>4. Len(cash'[k]) = j - took[k]
      BY <1>3, <1>4, <3>2, <3>3
    <3>5. pos'[<<src, k>>] = j
      BY <1>1, <1>3 DEF TypeOK
    <3>6. ASSUME NEW x \in 1..Len(cash'[k])
          PROVE  /\ cash'[k][x].src = src /\ cash'[k][x].gen = GenOf(k)
                 /\ cash'[k][x].i = took[k] + x
      <4>1. CASE x <= Len(cash[k])
        <5>1. x \in 1..Len(cash[k])
          BY <3>3, <4>1
        <5> QED
          BY <1>3, <3>2, <5>1
      <4>2. CASE x > Len(cash[k])
        <5>1. p + (x - Len(cash[k])) = took[k] + x
          BY <1>4, <3>2, <3>3
        <5> QED
          BY <1>3, <3>1, <4>2, <5>1
      <4> QED
        BY <3>3, <4>1, <4>2
    <3>7. SrcOf(k)' = src /\ GenOf(k)' = GenOf(k) /\ took' = took
      BY <1>2, <3>1 DEF SrcOf, GenOf
    <3> QED
      BY <2>3, <3>2, <3>4, <3>5, <3>6, <3>7 DEF Lined
  <2> QED
    BY <2>2, <2>3
<1>7. EndedInv'
  <2>1. ASSUME NEW n \in Sno \ (Session \cup cutOff),
               link[n] \in {"none", "connecting", "closed"}
        PROVE  n # k
    BY <1>2, <2>1 DEF Readable, Client, Server
  <2>2. ASSUME NEW s \in Session \ Sno, client[s] = "freed"
        PROVE  s # k
    BY <1>2, <2>2 DEF Readable, Client, Server
  <2>3. \A m \in Key : m # k => cash'[m] = cash[m]
    BY <1>1
  <2> QED
    BY <1>2, <2>1, <2>2, <2>3 DEF EndedInv, Key
<1>8. WholePackets'
  BY <1>2 DEF WholePackets
<1> QED
  BY <1>5, <1>6, <1>7, <1>8

\* A packet is cut off the front of the cache.
LEMMA PacketCuts ==
    ASSUME TypeOK, NEW k \in Key, Packet(k)
    PROVE  /\ cash' \in [Key -> Seq(Cell)]
           /\ \A m \in Key : m # k => cash'[m] = cash[m] /\ took'[m] = took[m]
           /\ \E n \in Lengths(k) :
                 /\ n \in Nat \ {0} /\ n <= Len(cash[k])
                 /\ Len(cash'[k]) = Len(cash[k]) - n
                 /\ \A x \in 1..(Len(cash[k]) - n) : cash'[k][x] = cash[k][n + x]
                 /\ spoiled' = IF n = 2 /\ Whole(cash[k]) THEN spoiled ELSE spoiled \cup {k}
                 /\ took' = [took EXCEPT ![k] = took[k] + n]
<1>1. PICK n \in Lengths(k) :
        /\ n <= Len(cash[k])
        /\ cash' = [cash EXCEPT ![k] = SubSeq(cash[k], n + 1, Len(cash[k]))]
        /\ spoiled' = IF n = 2 /\ Whole(cash[k]) THEN spoiled ELSE spoiled \cup {k}
        /\ took' = [took EXCEPT ![k] = took[k] + n]
  BY DEF Packet, Left
<1> DEFINE c == cash[k]
<1>3. c \in Seq(Cell) /\ Len(c) \in Nat /\ took[k] \in Nat
  BY DEF TypeOK
<1>4. n \in Nat \ {0}
  BY <1>1, GatewayAssumption DEF Lengths
<1>5. /\ cash'[k] \in Seq(Cell) /\ Len(cash'[k]) = Len(c) - n
      /\ \A x \in 1..(Len(c) - n) : cash'[k][x] = c[n + x]
  <2>1. \A x \in n + 1..Len(c) : c[x] \in Cell
    BY <1>3, <1>4
  <2>2. n + 1 \in Int /\ Len(c) \in Int
    BY <1>3, <1>4
  <2>3. /\ SubSeq(c, n + 1, Len(c)) \in Seq(Cell)
        /\ Len(SubSeq(c, n + 1, Len(c))) = (IF n + 1 <= Len(c) THEN Len(c) - (n + 1) + 1 ELSE 0)
        /\ \A x \in 1..(Len(c) - (n + 1) + 1) : SubSeq(c, n + 1, Len(c))[x] = c[(n + 1) + x - 1]
    <3> HIDE DEF c
    <3> QED
      BY <2>1, <2>2, SubSeqProperties
  <2>4. cash'[k] = SubSeq(c, n + 1, Len(c))
    BY <1>1 DEF TypeOK
  <2> HIDE DEF c
  <2>5. Len(cash'[k]) = Len(c) - n
    BY <1>1, <1>3, <1>4, <2>3, <2>4 DEF c
  <2>6. ASSUME NEW x \in 1..(Len(c) - n) PROVE cash'[k][x] = c[n + x]
    <3>1. x \in 1..(Len(c) - (n + 1) + 1) /\ (n + 1) + x - 1 = n + x
      BY <1>3, <1>4 DEF c
    <3> QED
      BY <2>3, <2>4, <3>1
  <2> QED
    BY <2>3, <2>4, <2>5, <2>6
<1>6. cash' \in [Key -> Seq(Cell)] /\ \A m \in Key : m # k => cash'[m] = cash[m] /\ took'[m] = took[m]
  BY <1>1, <1>5 DEF TypeOK
<1> QED
  BY <1>1, <1>4, <1>5, <1>6

\* What is handed over under a number of one stream is a head and its tail.
LEMMA PacketStep ==
    ASSUME GatewayInv, NEW k \in Key, Packet(k)
    PROVE  GatewayInv'
<1> USE DEF GatewayInv
<1> DEFINE c == cash[k]
<1>1. PICK n \in Lengths(k) :
        /\ n \in Nat \ {0} /\ n <= Len(c)
        /\ Len(cash'[k]) = Len(c) - n
        /\ \A x \in 1..(Len(c) - n) : cash'[k][x] = c[n + x]
        /\ spoiled' = IF n = 2 /\ Whole(c) THEN spoiled ELSE spoiled \cup {k}
        /\ took' = [took EXCEPT ![k] = took[k] + n]
  BY PacketCuts
<1>2. /\ UNCHANGED <<link, gen, stale, client, pos, crashed, cutOff>>
      /\ busy' \in {k, NoKey} /\ cash[k] # << >> /\ ~Front(k).big
  BY DEF Packet, links
<1>3. c \in Seq(Cell) /\ Len(c) \in Nat /\ took[k] \in Nat
  BY DEF TypeOK
<1>4. n \in Nat \ {0}
  BY <1>1
<1>5. /\ Len(cash'[k]) = Len(c) - n
      /\ \A x \in 1..(Len(c) - n) : cash'[k][x] = c[n + x]
  BY <1>1
<1>6. /\ cash' \in [Key -> Seq(Cell)]
      /\ \A m \in Key : m # k => cash'[m] = cash[m] /\ took'[m] = took[m]
      /\ took'[k] = took[k] + n
  BY <1>1, PacketCuts DEF TypeOK
<1>7. TypeOK'
  <2>1. cash' \in [Key -> Seq(Cell)]
    BY <1>6
  <2>2. took' \in [Key -> Nat]
    BY <1>1, <1>3, <1>4 DEF TypeOK
  <2>3. spoiled' \subseteq Key
    BY <1>1 DEF TypeOK
  <2> QED
    BY <1>2, <2>1, <2>2, <2>3 DEF TypeOK
\* Of a number with one stream, what is at the front is the head of a packet.
<1>8. ASSUME Mine(k) PROVE n = 2 /\ Whole(c)
  <2>1. /\ \A x \in 1..Len(c) :
              c[x].src = SrcOf(k) /\ c[x].gen = GenOf(k) /\ c[x].i = took[k] + x
        /\ took[k] % 2 = 0
    BY <1>8 DEF KeysInv, Lined
  <2>2. Len(c) >= 1
    BY <1>2, <1>3
  <2>3. (took[k] + 1) % 2 = 1 /\ (took[k] + 2) % 2 = 0
    BY <1>3, <2>1
  <2>4. c[1].i = took[k] + 1 /\ IsHead(c[1])
    BY <1>3, <2>1, <2>2, <2>3 DEF IsHead
  <2>5. n = 2
    BY <1>1, <2>4 DEF Lengths, Front
  <2>6. Len(c) >= 2
    BY <1>1, <2>5
  <2>7. c[2].i = took[k] + 2 /\ c[2].src = c[1].src /\ c[2].gen = c[1].gen
    BY <1>3, <2>1, <2>6
  <2>8. c[1] \in Cell /\ c[2] \in Cell
    BY <1>3, <2>6
  <2>9. c[2].big = FALSE /\ c[1].big = FALSE
    BY <1>2, <2>3, <2>7, <2>8 DEF Cell, IsHead, Front
  <2>10. c[2].i = c[1].i + 1
    BY <1>3, <2>4, <2>7
  <2>11. c[2] = [c[1] EXCEPT !.i = c[1].i + 1]
    BY <2>7, <2>8, <2>9, <2>10 DEF Cell
  <2> QED
    BY <2>4, <2>5, <2>6, <2>11 DEF Whole
<1>9. KeysInv'
  <2> SUFFICES ASSUME NEW m \in Key, Mine(m)' PROVE Lined(m)'
    BY DEF KeysInv
  <2>1. Mine(m) /\ Lined(m)
    BY <1>2 DEF Mine, KeysInv
  <2>2. CASE m # k
    BY <1>2, <1>6, <2>1, <2>2 DEF Lined, SrcOf, GenOf
  <2>3. CASE m = k
    <3>1. n = 2
      BY <1>8, <2>1, <2>3
    <3>2. /\ Len(c) = pos[<<SrcOf(k), k>>] - took[k] /\ took[k] % 2 = 0
          /\ \A x \in 1..Len(c) :
                c[x].src = SrcOf(k) /\ c[x].gen = GenOf(k) /\ c[x].i = took[k] + x
      BY <2>1, <2>3 DEF Lined
    <3>3. <<SrcOf(k), k>> \in Conn
      BY DEF SrcOf, Conn, Key
    <3>4. pos[<<SrcOf(k), k>>] \in Nat
      BY <3>3 DEF TypeOK
    <3>5. Len(cash'[k]) = pos[<<SrcOf(k), k>>] - took'[k] /\ took'[k] % 2 = 0
      <4>1. took'[k] = took[k] + 2
        BY <1>6, <3>1
      <4> QED
        BY <1>3, <1>5, <3>1, <3>2, <3>4, <4>1
    <3>6. ASSUME NEW x \in 1..Len(cash'[k])
          PROVE  /\ cash'[k][x].src = SrcOf(k) /\ cash'[k][x].gen = GenOf(k)
                 /\ cash'[k][x].i = took'[k] + x
      <4>1. x \in 1..(Len(c) - n) /\ n + x \in 1..Len(c)
        BY <1>3, <1>5, <3>1
      <4>2. cash'[k][x] = c[n + x]
        BY <1>5, <4>1
      <4>3. took[k] + (n + x) = took'[k] + x
        <5>1. took'[k] = took[k] + 2
          BY <1>6, <3>1
        <5> QED
          BY <1>3, <3>1, <4>1, <5>1
      <4> QED
        BY <3>2, <4>1, <4>2, <4>3
    <3>7. SrcOf(k)' = SrcOf(k) /\ GenOf(k)' = GenOf(k)
      BY <1>2 DEF SrcOf, GenOf
    <3> QED
      BY <1>2, <2>3, <3>5, <3>6, <3>7 DEF Lined
  <2> QED
    BY <2>2, <2>3
<1>10. EndedInv'
  <2>1. \A m \in Key : cash[m] = << >> => m # k
    BY <1>2
  <2> QED
    BY <1>2, <1>6, <2>1 DEF EndedInv, Key
<1>11. WholePackets'
  <2>1. CASE Mine(k)
    BY <1>1, <1>2, <1>8, <2>1 DEF WholePackets
  <2>2. CASE ~Mine(k)
    <3>1. k \in Shared \cup cutOff
      <4>1. ASSUME k \in Session, client[k] = "freed", k \notin Shared PROVE FALSE
        BY <1>2, <4>1 DEF EndedInv, Shared
      <4> QED
        BY <2>2, <4>1 DEF Mine
    <3> QED
      BY <1>1, <1>2, <3>1 DEF WholePackets
  <2> QED
    BY <2>1, <2>2
<1> QED
  BY <1>7, <1>9, <1>10, <1>11

-------------------------------------------------------------------------------
(* The order of the cells of a source, under any number.                       *)

\* A cell was read of the connection its source has now, or of an earlier one.
SeenInv ==
    \A k \in Key : \A x \in 1..Len(cash[k]) :
        LET c == cash[k][x] IN
            /\ <<c.src, k>> \in Conn /\ c.gen <= Now(gen, c.src, k)
            /\ c.gen = Now(gen, c.src, k) => c.i <= pos[<<c.src, k>>]

\* No more is known of the cache than before, and no connection has gone back.
LEMMA SeenFrame ==
    ASSUME TypeOK, SeenInv, SourceOrder, NEW k \in Key,
           NEW off \in Nat, Len(cash'[k]) \in Nat, Len(cash'[k]) + off <= Len(cash[k]),
           \A x \in 1..Len(cash'[k]) : cash'[k][x] = cash[k][x + off],
           UNCHANGED <<gen, pos>>
    PROVE  /\ \A x \in 1..Len(cash'[k]) :
                 LET c == cash'[k][x] IN
                     /\ <<c.src, k>> \in Conn /\ c.gen <= Now(gen', c.src, k)
                     /\ c.gen = Now(gen', c.src, k) => c.i <= pos'[<<c.src, k>>]
           /\ \A y \in 1..Len(cash'[k]) : \A x \in 1..(y - 1) :
                 cash'[k][x].src = cash'[k][y].src => Later(cash'[k][x], cash'[k][y])
<1>1. Len(cash[k]) \in Nat
  BY DEF TypeOK
<1>2. ASSUME NEW x \in 1..Len(cash'[k])
      PROVE  x + off \in 1..Len(cash[k])
  BY <1>1
<1>3. ASSUME NEW y \in 1..Len(cash'[k]), NEW x \in 1..(y - 1),
             cash'[k][x].src = cash'[k][y].src
      PROVE  Later(cash'[k][x], cash'[k][y])
  <2>1. x \in 1..Len(cash'[k]) /\ x + off \in 1..((y + off) - 1)
    BY <1>3
  <2> QED
    BY <1>2, <1>3, <2>1 DEF SourceOrder
<1> QED
  BY <1>2, <1>3 DEF SeenInv, Now

LEMMA OrderStep ==
    ASSUME GatewayInv, SeenInv, SourceOrder, [Next]_vars
    PROVE  SeenInv' /\ SourceOrder'
<1> USE DEF GatewayInv
<1>l. \A k \in Key : cash[k] \in Seq(Cell) /\ Len(cash[k]) \in Nat
  BY DEF TypeOK
\* A cache that is cut at its front, or not touched.
<1>1. ASSUME UNCHANGED <<gen, pos>>,
             \A k \in Key : \E off \in Nat :
                 /\ Len(cash'[k]) \in Nat /\ Len(cash'[k]) + off <= Len(cash[k])
                 /\ \A x \in 1..Len(cash'[k]) : cash'[k][x] = cash[k][x + off]
      PROVE  SeenInv' /\ SourceOrder'
  BY <1>1, SeenFrame DEF SeenInv, SourceOrder
<1>2. ASSUME UNCHANGED <<gen, pos, cash>> PROVE SeenInv' /\ SourceOrder'
  BY <1>2 DEF SeenInv, SourceOrder, Now
<1>3. CASE \/ \E n \in Sno : \/ ConnectTo(n) \/ ReadServerEof(n) \/ CloseServerConn(n)
                              \/ ShutdownScCb(n) \/ CloseScCb(n)
           \/ \E s \in Session : Accept(s) \/ CloseClientConn(s) \/ ShutdownCb(s)
           \/ \E k \in Key : RecvWaits(k) \/ TooBig(k)
           \/ UNCHANGED vars
  <2>1. UNCHANGED <<gen, pos, cash>>
    BY <1>3 DEF ConnectTo, ReadServerEof, CloseServerConn, ShutdownScCb, CloseScCb, Accept,
         CloseClientConn, ShutdownCb, RecvWaits, TooBig, vars, links, cache
  <2> QED
    BY <1>2, <2>1
\* The next connection: cells of the last one are of an earlier one from now on.
<1>4. ASSUME NEW n \in Sno, ConnectCb(n) PROVE SeenInv' /\ SourceOrder'
  <2>1. /\ UNCHANGED cash /\ gen' = [gen EXCEPT ![n] = gen[n] + 1]
        /\ pos' = [pos EXCEPT ![<<Server, n>>] = 0]
    BY <1>4 DEF ConnectCb
  <2>2. SourceOrder'
    BY <2>1 DEF SourceOrder
  <2>3. ASSUME NEW k \in Key, NEW x \in 1..Len(cash[k])
        PROVE  /\ <<cash[k][x].src, k>> \in Conn
               /\ cash[k][x].gen <= Now(gen', cash[k][x].src, k)
               /\ cash[k][x].gen = Now(gen', cash[k][x].src, k) => cash[k][x].i <= pos'[<<cash[k][x].src, k>>]
    <3> DEFINE c == cash[k][x]
    <3>1. /\ <<c.src, k>> \in Conn /\ c.gen <= Now(gen, c.src, k)
          /\ c.gen = Now(gen, c.src, k) => c.i <= pos[<<c.src, k>>]
      BY DEF SeenInv
    <3>2. c \in Cell /\ c.gen \in Nat /\ c.src \in {Client, Server}
      <4>1. c \in Cell
        BY <1>l
      <4> HIDE DEF c
      <4> QED
        BY <4>1, GatewayAssumption DEF Cell
    <3>3. CASE c.src = Server /\ k = n
      <4>1. Now(gen, c.src, k) = gen[n] /\ Now(gen', c.src, k) = gen[n] + 1 /\ gen[n] \in Nat
        BY <2>1, <3>3, GatewayAssumption DEF Now, TypeOK, Client, Server
      <4> HIDE DEF c
      <4>2. c.gen <= gen[n] + 1 /\ c.gen # gen[n] + 1
        BY <3>1, <3>2, <4>1
      <4> QED
        BY <3>1, <4>1, <4>2 DEF c
    <3>4. CASE ~(c.src = Server /\ k = n)
      <4>1. <<c.src, k>> # <<Server, n>>
        BY <3>4
      <4>2. pos'[<<c.src, k>>] = pos[<<c.src, k>>]
        BY <2>1, <3>1, <4>1 DEF TypeOK
      <4>3. k \in Sno \/ c.src = Client
        BY <3>1, <3>2 DEF Conn, Client, Server
      <4>4. Now(gen', c.src, k) = Now(gen, c.src, k)
        BY <2>1, <3>2, <3>4, <4>3 DEF Now, TypeOK
      <4> QED
        BY <3>1, <4>2, <4>4
    <3> QED
      BY <3>3, <3>4
  <2> QED
    BY <2>1, <2>2, <2>3 DEF SeenInv
<1>5. ASSUME NEW s \in Session, CloseCb(s) PROVE SeenInv' /\ SourceOrder'
  <2>1. UNCHANGED <<gen, pos>> /\ cash' = [cash EXCEPT ![s] = << >>]
    BY <1>5 DEF CloseCb, links
  <2>2. ASSUME NEW k \in Key
        PROVE  \E off \in Nat :
                 /\ Len(cash'[k]) \in Nat /\ Len(cash'[k]) + off <= Len(cash[k])
                 /\ \A x \in 1..Len(cash'[k]) : cash'[k][x] = cash[k][x + off]
    <3>1. Len(cash'[k]) = 0 \/ cash'[k] = cash[k]
      BY <2>1 DEF TypeOK
    <3>2. Len(cash'[k]) + 0 <= Len(cash[k]) /\ \A x \in 1..Len(cash'[k]) : cash'[k][x] = cash[k][x + 0]
      BY <1>l, <3>1
    <3>3. Len(cash'[k]) \in Nat
      BY <1>l, <3>1
    <3> WITNESS 0 \in Nat
    <3> QED
      BY <3>2, <3>3
  <2> QED
    BY <1>1, <2>1, <2>2
<1>6. ASSUME NEW k \in Key, Packet(k) PROVE SeenInv' /\ SourceOrder'
  <2>1. PICK n \in Nat \ {0} :
          /\ n <= Len(cash[k]) /\ Len(cash'[k]) = Len(cash[k]) - n
          /\ \A x \in 1..(Len(cash[k]) - n) : cash'[k][x] = cash[k][n + x]
    BY <1>6, PacketCuts
  <2>2. UNCHANGED <<gen, pos>> /\ \A m \in Key : m # k => cash'[m] = cash[m]
    BY <1>6, PacketCuts DEF Packet, links
  <2>3. /\ Len(cash'[k]) \in Nat /\ Len(cash'[k]) + n <= Len(cash[k])
        /\ \A x \in 1..Len(cash'[k]) : cash'[k][x] = cash[k][x + n]
    <3>1. \A x \in 1..Len(cash'[k]) : n + x = x + n
      BY <1>l, <2>1
    <3> QED
      BY <1>l, <2>1, <3>1
  <2>4. ASSUME NEW m \in Key, m # k
        PROVE  /\ Len(cash'[m]) \in Nat /\ Len(cash'[m]) + 0 <= Len(cash[m])
               /\ \A x \in 1..Len(cash'[m]) : cash'[m][x] = cash[m][x + 0]
    BY <1>l, <2>2, <2>4
  <2> QED
    BY <1>1, <2>2, <2>3, <2>4
\* What is read now is later than all that was read of its source.
<1>7. ASSUME NEW src \in {Client, Server}, NEW k \in Key, ReadCb(src, k)
      PROVE  SeenInv' /\ SourceOrder'
  <2> DEFINE p == pos[<<src, k>>]
             n == Len(cash[k])
  <2>1. /\ <<src, k>> \in Conn /\ cash' \in [Key -> Seq(Cell)] /\ UNCHANGED gen
        /\ \A m \in Key : m # k => cash'[m] = cash[m]
    BY <1>7, ReadAdds DEF ReadCb, links
  <2>2. PICK j \in p + 1..MaxCells :
          /\ pos' = [pos EXCEPT ![<<src, k>>] = j]
          /\ Len(cash'[k]) = n + (j - p)
          /\ \A x \in 1..n : cash'[k][x] = cash[k][x]
          /\ \A x \in 1..Len(cash'[k]) : x > n =>
                /\ cash'[k][x].src = src /\ cash'[k][x].gen = Now(gen, src, k)
                /\ cash'[k][x].i = p + (x - n)
    BY <1>7, ReadAdds
  <2>3. p \in Nat /\ n \in Nat /\ j \in Nat /\ p < j
    BY <1>l, <2>1, GatewayAssumption DEF TypeOK
  <2>4. pos'[<<src, k>>] = j /\ \A w \in Conn : w # <<src, k>> => pos'[w] = pos[w]
    BY <2>1, <2>2 DEF TypeOK
  <2>5. \A c, m : Now(gen', c, m) = Now(gen, c, m)
    BY <2>1 DEF Now
  <2>6. \A x \in 1..Len(cash'[k]) : x \in 1..n \/ (x > n /\ x \in Int /\ x - n <= j - p)
    BY <2>2, <2>3
  <2>7. \A m \in Key : \A x \in 1..Len(cash[m]) : cash[m][x] \in Cell /\ cash[m][x].i \in Nat
    <3>1. \A c \in Cell : c.i \in Nat
      BY GatewayAssumption DEF Cell
    <3> QED
      BY <1>l, <3>1
  <2> HIDE DEF p, n
  <2>8. ASSUME NEW m \in Key, NEW x \in 1..Len(cash[m])
        PROVE  /\ <<cash[m][x].src, m>> \in Conn /\ cash[m][x].gen <= Now(gen', cash[m][x].src, m)
               /\ cash[m][x].gen = Now(gen', cash[m][x].src, m) => cash[m][x].i <= pos'[<<cash[m][x].src, m>>]
    <3> DEFINE c == cash[m][x]
    <3>1. /\ <<c.src, m>> \in Conn /\ c.gen <= Now(gen, c.src, m)
          /\ c.gen = Now(gen, c.src, m) => c.i <= pos[<<c.src, m>>]
      BY DEF SeenInv
    <3>2. pos[<<c.src, m>>] \in Nat /\ pos[<<c.src, m>>] <= pos'[<<c.src, m>>] /\ pos'[<<c.src, m>>] \in Nat
      <4>1. pos[<<c.src, m>>] \in Nat
        BY <3>1, GatewayAssumption DEF TypeOK
      <4>2. CASE <<c.src, m>> = <<src, k>>
        BY <2>3, <2>4, <4>1, <4>2 DEF p
      <4>3. CASE <<c.src, m>> # <<src, k>>
        BY <2>4, <3>1, <4>1, <4>3
      <4> QED
        BY <4>2, <4>3
    <3>3. c.i \in Nat
      BY <2>7
    <3> HIDE DEF c
    <3>4. c.gen = Now(gen, c.src, m) => c.i <= pos'[<<c.src, m>>]
      BY <3>1, <3>2, <3>3
    <3> QED
      BY <2>5, <3>1, <3>4 DEF c
  <2>9. ASSUME NEW x \in 1..Len(cash'[k]), x > n
        PROVE  /\ <<cash'[k][x].src, k>> \in Conn /\ cash'[k][x].gen <= Now(gen', cash'[k][x].src, k)
               /\ cash'[k][x].i <= pos'[<<cash'[k][x].src, k>>]
    <3>1. cash'[k][x].src = src /\ cash'[k][x].gen = Now(gen, src, k) /\ cash'[k][x].i = p + (x - n)
      BY <2>2, <2>9
    <3>2. Now(gen, src, k) \in Int
      BY <1>7, NowType
    <3>3. p + (x - n) <= j
      BY <2>3, <2>6, <2>9
    <3> QED
      BY <2>1, <2>4, <2>5, <3>1, <3>2, <3>3
  <2>10. SeenInv'
    <3> SUFFICES ASSUME NEW m \in Key, NEW x \in 1..Len(cash'[m])
                 PROVE  /\ <<cash'[m][x].src, m>> \in Conn /\ cash'[m][x].gen <= Now(gen', cash'[m][x].src, m)
                        /\ cash'[m][x].gen = Now(gen', cash'[m][x].src, m) =>
                               cash'[m][x].i <= pos'[<<cash'[m][x].src, m>>]
      BY DEF SeenInv, Conn
    <3>1. CASE m # k
      BY <2>1, <2>8, <3>1
    <3>2. CASE m = k /\ x \in 1..n
      BY <2>2, <2>8, <3>2 DEF n
    <3>3. CASE m = k /\ x > n
      BY <2>9, <3>3
    <3> QED
      BY <2>6, <3>1, <3>2, <3>3
  <2>11. SourceOrder'
    <3> SUFFICES ASSUME NEW m \in Key, NEW y \in 1..Len(cash'[m]), NEW x \in 1..(y - 1),
                        cash'[m][x].src = cash'[m][y].src
                 PROVE  Later(cash'[m][x], cash'[m][y])
      BY DEF SourceOrder, Later
    <3>1. CASE m # k
      BY <2>1, <3>1 DEF SourceOrder
    <3>2. CASE m = k /\ y \in 1..n
      <4>1. x \in 1..n
        BY <2>3, <3>2
      <4> QED
        BY <2>2, <3>2, <4>1 DEF SourceOrder, n
    <3>3. CASE m = k /\ y > n /\ x \in 1..n
      <4>1. cash'[k][x] = cash[k][x] /\ cash'[k][y].src = src
            /\ cash'[k][y].gen = Now(gen, src, k) /\ cash'[k][y].i = p + (y - n)
        BY <2>2, <3>3
      <4>2. /\ cash[k][x].gen <= Now(gen, src, k)
            /\ cash[k][x].gen = Now(gen, src, k) => cash[k][x].i <= p
        BY <3>3, <4>1 DEF SeenInv, p, n
      <4>3. cash[k][x].gen \in Int /\ cash[k][x].i \in Int /\ Now(gen, src, k) \in Int
        <5>1. cash[k][x] \in Cell
          BY <2>7, <3>3 DEF n
        <5>2. Now(gen, src, k) \in Int
          BY <1>7, NowType
        <5> QED
          BY <5>1, <5>2 DEF Cell
      <4>4. p < p + (y - n)
        BY <2>3, <3>3
      <4>5. cash[k][x].gen = Now(gen, src, k) => cash[k][x].i < p + (y - n)
        BY <2>3, <4>2, <4>3, <4>4
      <4> QED
        BY <3>3, <4>1, <4>2, <4>3, <4>5 DEF Later
    <3>4. CASE m = k /\ y > n /\ x > n
      <4>1. x \in 1..Len(cash'[k]) /\ x < y
        BY <2>2, <2>3, <3>4
      <4>2. /\ cash'[k][x].gen = Now(gen, src, k) /\ cash'[k][x].i = p + (x - n)
            /\ cash'[k][y].gen = Now(gen, src, k) /\ cash'[k][y].i = p + (y - n)
        BY <2>2, <3>4, <4>1
      <4>3. p + (x - n) < p + (y - n)
        BY <2>3, <4>1
      <4> QED
        BY <3>4, <4>2, <4>3 DEF Later
    <3> QED
      BY <2>3, <2>6, <3>1, <3>2, <3>3, <3>4
  <2> QED
    BY <2>10, <2>11
<1>8. CASE \E n \in Sno : FreedUsed(n)
  <2>1. \A k \in Key : Len(cash'[k]) = 0
    BY <1>8 DEF FreedUsed, Fresh
  <2> QED
    BY <2>1 DEF SeenInv, SourceOrder
<1> QED
  BY <1>3, <1>4, <1>5, <1>6, <1>7, <1>8 DEF Next, RecvStep, Key

-------------------------------------------------------------------------------
(* The theorems.                                                               *)

\* The invariant holds in every state: it relates what waits in the cache to what
\* libuv has read and netlib has handed over.
THEOREM GatewayInvariance == Spec => []GatewayInv
<1>1. Init => GatewayInv
  BY FreshInv DEF Init, FreshState
<1>2. GatewayInv /\ [Next]_vars => GatewayInv'
  <2> SUFFICES ASSUME GatewayInv, [Next]_vars PROVE GatewayInv'
    OBVIOUS
  <2>1. CASE \E n \in Sno : FreedUsed(n)
    <3>1. FreshState'
      BY <2>1 DEF FreedUsed, Idle, FreshState, Fresh, Conn, Key
    <3> QED
      BY <3>1, FreshInv, PTL
  <2>2. CASE \E n \in Sno : ConnectCb(n)
    BY <2>2, ConnectStep
  <2>3. CASE \E s \in Session : CloseCb(s)
    BY <2>3, CloseStep
  <2>4. CASE \E n \in Sno : ReadCb(Server, n)
    BY <2>4, ReadStep DEF Key
  <2>5. CASE \E s \in Session : ReadCb(Client, s)
    BY <2>5, ReadStep DEF Key
  <2>6. CASE \E k \in Key : Packet(k)
    BY <2>6, PacketStep
  <2> QED
    BY <2>1, <2>2, <2>3, <2>4, <2>5, <2>6, LifeStep DEF Next, RecvStep
<1> QED
  BY <1>1, <1>2, PTL DEF Spec

\* Every variable keeps its type, for all sessions, server numbers and bounds.
THEOREM GatewayTypeCorrect == Spec => []TypeOK
BY GatewayInvariance, PTL DEF GatewayInv

\* netlib.onRecvData hands over whole packets of one connection, but for a number
\* that is a session and a server number, or a link that ended within a packet.
THEOREM PacketsAreWhole == Spec => []WholePackets
BY GatewayInvariance, PTL DEF GatewayInv

\* What waits in the cache under a number of one stream is what libuv has read of
\* its connection and netlib not handed over, in order.
THEOREM CacheInOrder == Spec => []InOrder
<1>1. GatewayInv => InOrder
  <2> SUFFICES ASSUME GatewayInv, NEW k \in Key \ (Shared \cup cutOff),
                      k \in Session => client[k] # "freed"
               PROVE  Lined(k)
    BY DEF InOrder, Lined, SrcOf, GenOf, Own
  <2> QED
    BY DEF GatewayInv, KeysInv, Mine
<1> QED
  BY <1>1, GatewayInvariance, PTL

\* Under any number, shared or not, no cell waits before one its source sent earlier, or
\* twice: whatever ends and comes back between the reads (netlib.lua:34-41).
THEOREM SourcesInOrder == Spec => []SourceOrder
<1>1. Init => SeenInv /\ SourceOrder
  <2> SUFFICES ASSUME Init PROVE SeenInv /\ SourceOrder
    OBVIOUS
  <2>1. \A k \in Key : Len(cash[k]) = 0
    BY DEF Init, Fresh
  <2> QED
    BY <2>1 DEF SeenInv, SourceOrder
<1> QED
  BY <1>1, OrderStep, GatewayInvariance, PTL DEF Spec

-------------------------------------------------------------------------------
(* Numbers as streams.                                                         *)

\* A step as the stream of number k sees it.
StreamStep(k) == [Stream(k)!Next]_(Stream(k)!stream)

\* What a connection finds when it starts, and the end of the process.
StartInv ==
    /\ \A s \in Session \ Sno : client[s] = "none" => took[s] = 0 /\ cash[s] = << >>
    /\ crashed => busy = NoKey

\* Nothing waits under a number that has no connection, unless a link was cut off.
LEMMA OnlyDelivered ==
    ASSUME GatewayInv, StartInv, NEW k \in Key \ (Shared \cup cutOff), ~Delivers(k)
    PROVE  cash[k] = << >>
<1>1. CASE k \in Session
  <2>1. k \in Session \ Sno /\ client[k] \in {"none", "freed"}
    BY <1>1 DEF Shared, Delivers, GatewayInv, TypeOK
  <2> QED
    BY <2>1 DEF StartInv, GatewayInv, EndedInv
<1>2. CASE k \notin Session
  <2>1. k \in Sno \ (Session \cup cutOff) /\ link[k] \in {"none", "connecting", "closed"}
    BY <1>2 DEF Key, Delivers, GatewayInv, TypeOK
  <2> QED
    BY <2>1 DEF GatewayInv, EndedInv
<1> QED
  BY <1>1, <1>2

\* What a stream is made of is not touched.
LEMMA StreamFrame ==
    ASSUME NEW k \in Key, cash'[k] = cash[k], took'[k] = took[k], GenOf(k)' = GenOf(k),
           Delivers(k)' = Delivers(k), UNCHANGED crashed, (k \in cutOff)' = (k \in cutOff)
    PROVE  StreamStep(k)
<1>1. Kept(k)' = Kept(k)
  BY DEF Kept, Own, SrcOf
<1> QED
  BY <1>1 DEF StreamStep, Stream!stream

\* The kept places are as many as the cells that wait; the primed form is for the step.
LEMMA KeptIs ==
    ASSUME TypeOK, NEW k \in Key
    PROVE  /\ Kept(k) \in Seq(Nat) /\ Len(Kept(k)) = Len(cash[k]) /\ Len(cash[k]) \in Nat
           /\ \A x \in 1..Len(cash[k]) :
                 Kept(k)[x] = IF Own(k, cash[k][x]) THEN cash[k][x].i ELSE 0
<1>1. cash[k] \in Seq(Cell) /\ Len(cash[k]) \in Nat
  BY DEF TypeOK
<1>2. \A x \in 1..Len(cash[k]) : (IF Own(k, cash[k][x]) THEN cash[k][x].i ELSE 0) \in Nat
  <2>1. \A c \in Cell : c.i \in Nat
    BY GatewayAssumption DEF Cell
  <2> QED
    BY <1>1, <2>1
<1> QED
  BY <1>1, <1>2 DEF Kept

LEMMA KeptIsNext ==
    ASSUME TypeOK', NEW k \in Key
    PROVE  /\ Kept(k)' \in Seq(Nat) /\ Len(Kept(k)') = Len(cash'[k]) /\ Len(cash'[k]) \in Nat
           /\ \A x \in 1..Len(cash'[k]) :
                 Kept(k)'[x] = IF Own(k, cash[k][x])' THEN cash'[k][x].i ELSE 0
<1>1. cash'[k] \in Seq(Cell) /\ Len(cash'[k]) \in Nat
  BY DEF TypeOK, Cell
<1>2. \A x \in 1..Len(cash'[k]) : (IF Own(k, cash[k][x])' THEN cash'[k][x].i ELSE 0) \in Nat
  <2>1. \A c \in Cell : c.i \in Nat
    BY GatewayAssumption DEF Cell
  <2> QED
    BY <1>1, <2>1
<1> QED
  BY <1>1, <1>2 DEF Kept

\* A cut link's number: nothing is promised.
LEMMA StreamVoid ==
    ASSUME NEW k \in Key, k \in cutOff, k \in cutOff', ~crashed'
    PROVE  StreamStep(k)
BY DEF StreamStep, Stream!Next, Stream!Void

\* The steps that leave the receive cache alone: a connection starts, ends, or does neither.
LEMMA LinkStreams ==
    ASSUME GatewayInv, StartInv, NEW k \in Key \ Shared, ~crashed, UNCHANGED <<cash, crashed>>,
           NEW n \in Sno, \/ ConnectTo(n) \/ ConnectCb(n) \/ ReadServerEof(n)
                          \/ CloseServerConn(n) \/ ShutdownScCb(n) \/ CloseScCb(n)
    PROVE  StreamStep(k)
<1>t. TypeOK
  BY DEF GatewayInv
<1>c. UNCHANGED client /\ cutOff \subseteq cutOff' /\ cutOff' \subseteq cutOff \cup {n}
  BY DEF ConnectTo, ConnectCb, ReadServerEof, CloseServerConn, ShutdownScCb, CloseScCb, EndsLink
<1>1. CASE k \in cutOff
  BY <1>1, <1>c, StreamVoid
<1>2. CASE k # n \/ k \in Session
  <2>1. k # n
    BY <1>2 DEF Shared
  <2>2. took'[k] = took[k] /\ (k \notin Session => gen'[k] = gen[k] /\ link'[k] = link[k])
    BY <1>t, <2>1 DEF ConnectTo, ConnectCb, ReadServerEof, CloseServerConn, ShutdownScCb, CloseScCb,
                      TypeOK, cache, Key
  <2>3. GenOf(k)' = GenOf(k) /\ Delivers(k)' = Delivers(k)
    BY <1>c, <2>2 DEF GenOf, Delivers
  <2> QED
    BY <1>c, <2>1, <2>2, <2>3, StreamFrame
<1>3. CASE k = n /\ k \notin Session /\ k \notin cutOff
  <2>1. CASE ConnectTo(n) \/ CloseServerConn(n) \/ ShutdownScCb(n)
    <3>1. UNCHANGED <<gen, took, cutOff>>
      BY <2>1 DEF ConnectTo, CloseServerConn, ShutdownScCb, cache
    <3>2. Delivers(k)' = Delivers(k)
      BY <1>t, <1>3, <2>1 DEF ConnectTo, CloseServerConn, ShutdownScCb, Delivers, TypeOK
    <3>3. GenOf(k)' = GenOf(k)
      BY <3>1 DEF GenOf
    <3> QED
      BY <3>1, <3>2, <3>3, StreamFrame
  <2>2. CASE ConnectCb(n)
    <3>1. ~Delivers(k) /\ Delivers(k)' /\ UNCHANGED cutOff
      BY <1>t, <1>3, <2>2 DEF ConnectCb, Delivers, TypeOK
    <3>2. cash'[k] = << >>
      BY <1>3, <3>1, OnlyDelivered
    <3>3. Kept(k)' = << >>
      BY <3>2 DEF Kept
    <3>4. took'[k] = 0
      BY <1>t, <1>3, <2>2 DEF ConnectCb, TypeOK
    <3>5. (~crashed)' = ~crashed /\ (k \in cutOff)' = (k \in cutOff)
      BY <3>1
    <3> QED
      BY <3>1, <3>3, <3>4, <3>5 DEF StreamStep, Stream!Next, Stream!Open
  <2>3. CASE ReadServerEof(n) \/ CloseScCb(n)
    <3>1. Delivers(k) /\ ~Delivers(k)'
      BY <1>t, <1>3, <2>3 DEF ReadServerEof, CloseScCb, Delivers, TypeOK
    <3>2. cutOff' = (IF cash[k] = << >> THEN cutOff ELSE cutOff \cup {k}) /\ UNCHANGED took
      BY <1>3, <2>3 DEF ReadServerEof, CloseScCb, EndsLink, cache
    <3>3. CASE cash[k] = << >>
      <4>1. Kept(k)' = << >>
        BY <3>3 DEF Kept
      <4> QED
        BY <3>1, <3>2, <3>3, <4>1 DEF StreamStep, Stream!Next, Stream!End
    <3>4. CASE cash[k] # << >>
      <4>1. Kept(k) # << >>
        <5>1. cash[k] \in Seq(Cell)
          BY <1>t DEF TypeOK
        <5>2. Len(cash[k]) # 0
          BY <3>4, <5>1
        <5> QED
          BY <1>t, <5>2, KeptIs
      <4>2. k \in cutOff'
        BY <3>2, <3>4
      <4> QED
        BY <3>1, <4>1, <4>2 DEF StreamStep, Stream!Next, Stream!Void, Stream!Cut
    <3> QED
      BY <3>3, <3>4
  <2> QED
    BY <2>1, <2>2, <2>3
<1> QED
  BY <1>1, <1>2, <1>3

LEMMA ClientStreams ==
    ASSUME GatewayInv, StartInv, NEW k \in Key \ Shared, ~crashed,
           \/ \E s \in Session : Accept(s) \/ CloseClientConn(s) \/ ShutdownCb(s) \/ CloseCb(s)
           \/ \E m \in Key : RecvWaits(m) \/ TooBig(m)
    PROVE  StreamStep(k)
<1>t. TypeOK
  BY DEF GatewayInv
<1>c. UNCHANGED <<links, took, crashed, cutOff>>
  BY DEF Accept, CloseClientConn, ShutdownCb, CloseCb, RecvWaits, TooBig, cache
<1>g. GenOf(k)' = GenOf(k)
  BY <1>c DEF GenOf, links
<1>1. CASE k \in cutOff
  BY <1>1, <1>c, StreamVoid
<1>2. CASE k \notin Session
  <2>1. cash'[k] = cash[k]
    BY <1>t, <1>2 DEF Accept, CloseClientConn, ShutdownCb, CloseCb, RecvWaits, TooBig, cache, TypeOK
  <2>2. Delivers(k)' = Delivers(k)
    BY <1>c, <1>2 DEF Delivers, links
  <2> QED
    BY <1>c, <1>g, <2>1, <2>2, StreamFrame
<1>3. CASE k \in Session /\ k \notin cutOff
  <2>1. CASE Accept(k)
    <3>1. ~Delivers(k) /\ Delivers(k)' /\ UNCHANGED cash
      BY <1>t, <1>3, <2>1 DEF Accept, Delivers, TypeOK, cache
    <3>2. took'[k] = 0 /\ cash'[k] = << >>
      BY <1>c, <1>3, <2>1, <3>1 DEF Accept, StartInv, Shared
    <3>3. Kept(k)' = << >>
      BY <3>2 DEF Kept
    <3> QED
      BY <1>c, <3>1, <3>2, <3>3 DEF StreamStep, Stream!Next, Stream!Open
  <2>2. CASE CloseCb(k)
    <3>1. Delivers(k) /\ ~Delivers(k)' /\ cash'[k] = << >>
      BY <1>t, <1>3, <2>2 DEF CloseCb, Delivers, TypeOK
    <3>2. Kept(k)' = << >>
      BY <3>1 DEF Kept
    <3> QED
      BY <1>c, <3>1, <3>2 DEF StreamStep, Stream!Next, Stream!End
  <2>3. CASE ~Accept(k) /\ ~CloseCb(k)
    <3>1. cash'[k] = cash[k]
      BY <1>t, <1>3, <2>3 DEF Accept, CloseClientConn, ShutdownCb, CloseCb, RecvWaits, TooBig,
                              cache, TypeOK
    <3>2. Delivers(k)' = Delivers(k)
      BY <1>t, <1>3, <2>3 DEF Accept, CloseClientConn, ShutdownCb, CloseCb, RecvWaits, TooBig, Closed,
                              Delivers, TypeOK
    <3> QED
      BY <1>c, <1>g, <3>1, <3>2, StreamFrame
  <2> QED
    BY <2>1, <2>2, <2>3
<1> QED
  BY <1>1, <1>2, <1>3

\* Cells are read: the next places of the connection follow those kept.
LEMMA ReadStreams ==
    ASSUME GatewayInv, GatewayInv', NEW k \in Key \ Shared, ~crashed,
           NEW src \in {Client, Server}, NEW m \in Key, ReadCb(src, m)
    PROVE  StreamStep(k)
<1>t. TypeOK /\ TypeOK'
  BY DEF GatewayInv
<1>c. UNCHANGED <<links, client, took, crashed, cutOff>> /\ Readable(src, m)
  BY DEF ReadCb
<1>d. GenOf(k)' = GenOf(k) /\ Delivers(k)' = Delivers(k)
  BY <1>c DEF GenOf, Delivers, links
<1>1. CASE k \in cutOff
  BY <1>1, <1>c, StreamVoid
<1>2. CASE m # k
  <2>1. cash'[k] = cash[k]
    BY <1>t, <1>2, ReadAdds
  <2> QED
    BY <1>c, <1>d, <2>1, StreamFrame
<1>3. CASE m = k /\ k \notin cutOff
  <2>1. Delivers(k) /\ (k \in Session => client[k] # "freed")
    BY <1>c, <1>3 DEF Readable, Delivers, Shared, Key
  <2>2. Mine(k) /\ Mine(k)'
    BY <1>c, <1>3, <2>1 DEF Mine
  <2>3. Lined(k) /\ Lined(k)'
    BY <2>2 DEF GatewayInv, KeysInv
  <2>4. PICK n \in Nat : Len(cash'[k]) = Len(cash[k]) + n
    <3>1. <<src, k>> \in Conn
      BY <1>t, <1>3, ReadAdds
    <3>2. PICK j \in pos[<<src, k>>] + 1..MaxCells : Len(cash'[k]) = Len(cash[k]) + (j - pos[<<src, k>>])
      BY <1>t, <1>3, ReadAdds
    <3>3. j - pos[<<src, k>>] \in Nat
      <4>1. pos[<<src, k>>] \in Nat /\ MaxCells \in Nat
        BY <1>t, <3>1, GatewayAssumption DEF TypeOK
      <4> DEFINE p == pos[<<src, k>>]
      <4>2. p \in Nat /\ j \in p + 1..MaxCells
        BY <3>2, <4>1
      <4> HIDE DEF p
      <4>3. j - p \in Nat
        BY <4>1, <4>2
      <4> QED
        BY <4>3 DEF p
    <3> QED
      BY <3>2, <3>3
  <2> DEFINE new == [j \in 1..n |-> took[k] + Len(Kept(k)) + j]
  <2>5. /\ Len(Kept(k)) \in Nat /\ Len(Kept(k)') = Len(Kept(k)) + n /\ took[k] \in Nat
        /\ Kept(k) \in Seq(Nat) /\ Kept(k)' \in Seq(Nat)
    <3>1. Kept(k)' \in Seq(Nat) /\ Len(Kept(k)') = Len(cash'[k])
      BY <1>t, KeptIs, KeptIsNext
    <3> QED
      BY <1>t, <2>4, <3>1, KeptIs DEF TypeOK
  <2>6. \A x \in 1..Len(Kept(k)) : Kept(k)[x] = took[k] + x
    BY <1>t, <2>3, KeptIs DEF Lined, Own
  <2>7. \A x \in 1..Len(Kept(k)') : Kept(k)'[x] = took[k] + x
    BY <1>t, <1>c, <2>3, KeptIsNext DEF Lined, Own
  <2>8. new \in Seq(Nat) /\ Len(new) = n /\ \A j \in 1..n : new[j] = took[k] + Len(Kept(k)) + j
    BY <2>5
  <2>9. Kept(k)' = Kept(k) \o new
    <3> HIDE DEF new
    <3>1. /\ Kept(k) \o new \in Seq(Nat) /\ Len(Kept(k) \o new) = Len(Kept(k)) + n
          /\ \A x \in 1..Len(Kept(k)) + n :
                (Kept(k) \o new)[x] = IF x <= Len(Kept(k)) THEN Kept(k)[x] ELSE new[x - Len(Kept(k))]
      BY <2>5, <2>8, ConcatProperties
    <3>2. ASSUME NEW x \in 1..Len(Kept(k)) + n
          PROVE  Kept(k)'[x] = (Kept(k) \o new)[x]
      <4>1. CASE x <= Len(Kept(k))
        BY <2>5, <2>6, <2>7, <3>1, <4>1
      <4>2. CASE ~(x <= Len(Kept(k)))
        <5>1. x - Len(Kept(k)) \in 1..n /\ took[k] + Len(Kept(k)) + (x - Len(Kept(k))) = took[k] + x
          BY <2>5, <4>2
        <5> QED
          BY <2>5, <2>7, <2>8, <3>1, <4>2, <5>1
      <4> QED
        BY <4>1, <4>2
    <3> QED
      BY <2>5, <3>1, <3>2, SeqEqual
  <2>10. n \in 0..Len(Kept(k)')
    BY <2>5
  <2>11. Stream(k)!Receive
    <3> HIDE DEF new
    <3>1. \E y \in 0..Len(Kept(k)') :
             Kept(k)' = Kept(k) \o [j \in 1..y |-> took[k] + Len(Kept(k)) + j]
      BY <2>9, <2>10 DEF new
    <3> QED
      BY <1>c, <1>d, <2>1, <3>1 DEF Stream!Receive
  <2> QED
    BY <1>c, <2>11 DEF StreamStep, Stream!Next
<1> QED
  BY <1>1, <1>2, <1>3

\* What is left of a sequence behind its first packet.
LEMMA RestOf ==
    ASSUME NEW c \in Seq(Nat), Len(c) >= 2
    PROVE  LET rest == SubSeq(c, 2 + 1, Len(c)) IN
              /\ rest \in Seq(Nat) /\ Len(rest) = Len(c) - 2
              /\ \A x \in 1..(Len(c) - 2) : rest[x] = c[x + 2]
<1> DEFINE rest == SubSeq(c, 3, Len(c))
<1>1. Len(c) \in Nat /\ \A x \in 3..Len(c) : c[x] \in Nat
  OBVIOUS
<1>2. /\ rest \in Seq(Nat)
      /\ Len(rest) = (IF 3 <= Len(c) THEN Len(c) - 3 + 1 ELSE 0)
      /\ \A x \in 1..(Len(c) - 3 + 1) : rest[x] = c[3 + x - 1]
  BY <1>1, SubSeqProperties
<1>3. 2 + 1 = 3 /\ Len(c) - 3 + 1 = Len(c) - 2
  BY <1>1
<1> HIDE DEF rest
<1>4. Len(rest) = Len(c) - 2
  <2>1. \A l \in Nat : l >= 2 => (IF 3 <= l THEN l - 3 + 1 ELSE 0) = l - 2
    OBVIOUS
  <2> QED
    BY <1>1, <1>2, <2>1
<1>5. ASSUME NEW x \in 1..(Len(c) - 2) PROVE rest[x] = c[x + 2]
  <2>1. 3 + x - 1 = x + 2
    BY <1>1, <1>5
  <2> QED
    BY <1>2, <1>3, <1>5, <2>1
<1>6. SubSeq(c, 2 + 1, Len(c)) = rest
  BY <1>3 DEF rest
<1> QED
  BY <1>2, <1>4, <1>5, <1>6

\* A packet is handed over: the first PktLen places are gone.
LEMMA PacketStreams ==
    ASSUME GatewayInv, GatewayInv', StartInv, NEW k \in Key \ Shared, ~crashed, NEW m \in Key, Packet(m)
    PROVE  StreamStep(k)
<1>t. TypeOK /\ TypeOK'
  BY DEF GatewayInv
<1>c. UNCHANGED <<links, client, crashed, cutOff>> /\ cash[m] # << >>
  BY DEF Packet
<1>d. GenOf(k)' = GenOf(k) /\ Delivers(k)' = Delivers(k)
  BY <1>c DEF GenOf, Delivers, links
<1>1. CASE k \in cutOff
  BY <1>1, <1>c, StreamVoid
<1>2. CASE m # k
  <2>1. cash'[k] = cash[k] /\ took'[k] = took[k]
    BY <1>t, <1>2, PacketCuts
  <2> QED
    BY <1>c, <1>d, <2>1, StreamFrame
<1>3. CASE m = k /\ k \notin cutOff
  <2>1. Delivers(k)
    BY <1>c, <1>3, OnlyDelivered
  <2>2. Mine(k) /\ Mine(k)'
    BY <1>c, <1>3, <2>1 DEF Mine, Delivers
  <2>3. Lined(k) /\ Lined(k)'
    BY <2>2 DEF GatewayInv, KeysInv
  <2>4. Len(cash[k]) >= 2 /\ Len(cash'[k]) = Len(cash[k]) - 2 /\ took'[k] = took[k] + 2
    <3>1. PICK n \in Lengths(k) :
            /\ n \in Nat \ {0} /\ n <= Len(cash[k]) /\ Len(cash'[k]) = Len(cash[k]) - n
            /\ took' = [took EXCEPT ![k] = took[k] + n]
      BY <1>t, <1>3, PacketCuts
    <3>2. cash[k][1].i = took[k] + 1
      <4>1. 1 \in 1..Len(cash[k])
        BY <1>t, <3>1, KeptIs
      <4> QED
        BY <2>3, <4>1 DEF Lined
    <3>3. IsHead(Front(k))
      <4>1. took[k] % 2 = 0 /\ took[k] \in Nat
        BY <1>t, <2>3 DEF Lined, TypeOK
      <4>2. (took[k] + 1) % 2 = 1
        BY <4>1
      <4> QED
        BY <3>2, <4>2 DEF IsHead, Front
    <3>4. n = 2
      BY <3>3 DEF Lengths
    <3> QED
      BY <1>t, <3>1, <3>4 DEF TypeOK
  <2>5. /\ Len(Kept(k)) \in Nat /\ took[k] \in Nat /\ Kept(k) \in Seq(Nat) /\ Kept(k)' \in Seq(Nat)
        /\ Len(Kept(k)) >= 2 /\ Len(Kept(k)') = Len(Kept(k)) - 2
    BY <1>t, <2>4, KeptIs, KeptIsNext DEF TypeOK
  <2>6. \A x \in 1..Len(Kept(k)) : Kept(k)[x] = took[k] + x
    BY <1>t, <2>3, KeptIs DEF Lined, Own
  <2>7. \A x \in 1..Len(Kept(k)') : Kept(k)'[x] = took[k] + 2 + x
    BY <1>t, <2>3, <2>4, KeptIsNext DEF Lined, Own
  <2> DEFINE rest == SubSeq(Kept(k), 2 + 1, Len(Kept(k)))
  <2>8. /\ rest \in Seq(Nat) /\ Len(rest) = Len(Kept(k)) - 2
        /\ \A x \in 1..(Len(Kept(k)) - 2) : rest[x] = Kept(k)[x + 2]
    BY <2>5, RestOf
  <2>9. Kept(k)' = rest
    <3> HIDE DEF rest
    <3>1. ASSUME NEW x \in 1..(Len(Kept(k)) - 2) PROVE Kept(k)'[x] = rest[x]
      <4>1. x \in 1..Len(Kept(k)')
        BY <2>5, <3>1
      <4>n. x \in Nat /\ 1 <= x /\ x <= Len(Kept(k)) - 2
        BY <2>5, <3>1
      <4>2. x + 2 \in 1..Len(Kept(k)) /\ took[k] + 2 + x = took[k] + (x + 2)
        <5>1. \A l \in Nat, t \in Nat : x <= l - 2 => x + 2 \in 1..l /\ t + 2 + x = t + (x + 2)
          BY <4>n
        <5> QED
          BY <2>5, <4>n, <5>1
      <4> QED
        BY <2>6, <2>7, <2>8, <3>1, <4>1, <4>2
    <3> QED
      BY <2>5, <2>8, <3>1, SeqEqual
  <2>10. Stream(k)!HandOver
    BY <1>d, <2>1, <2>4, <2>5, <2>9 DEF Stream!HandOver
  <2> QED
    BY <1>c, <2>10 DEF StreamStep, Stream!Next
<1> QED
  BY <1>1, <1>2, <1>3

\* The start of a connection and the end of the process, kept.
LEMMA StartStep == GatewayInv /\ StartInv /\ [Next]_vars => StartInv'
<1> SUFFICES ASSUME GatewayInv, StartInv, [Next]_vars PROVE StartInv'
  OBVIOUS
<1>t. TypeOK
  BY DEF GatewayInv
<1>1. (crashed => busy = NoKey)'
  <2>1. ASSUME NEW m \in Key, RecvStep(m) PROVE ~crashed /\ ~crashed'
    <3>1. m # NoKey
      BY GatewayAssumption DEF Key, NoKey
    <3>2. busy = m
      BY <2>1 DEF RecvStep, RecvWaits, TooBig, Packet
    <3> QED
      BY <2>1, <3>1, <3>2 DEF StartInv, RecvStep, RecvWaits, TooBig, Packet
  <2>2. ASSUME ~\E m \in Key : RecvStep(m) PROVE busy' = busy \/ ~crashed'
    BY <2>2 DEF Next, vars, links, cache, ConnectTo, ConnectCb, ReadServerEof, FreedUsed, CloseServerConn,
            ShutdownScCb, CloseScCb, ReadCb, Accept, CloseClientConn, ShutdownCb, CloseCb, Idle
  <2>3. ASSUME ~\E m \in Key : RecvStep(m), crashed' PROVE busy = NoKey
    BY <2>3 DEF Next, vars, links, cache, ConnectTo, ConnectCb, ReadServerEof, FreedUsed, CloseServerConn,
            ShutdownScCb, CloseScCb, ReadCb, Accept, CloseClientConn, ShutdownCb, CloseCb, Idle, StartInv
  <2> QED
    BY <2>1, <2>2, <2>3
<1>2. ASSUME NEW s \in Session \ Sno, client'[s] = "none"
      PROVE  took'[s] = 0 /\ cash'[s] = << >>
  <2>k. s \in Key
    BY DEF Key
  <2>1. CASE \E n \in Sno : FreedUsed(n)
    BY <2>1, <2>k DEF FreedUsed, Fresh
  <2>2. CASE ~\E n \in Sno : FreedUsed(n)
    <3>1. client[s] = "none"
      BY <1>t, <1>2, <2>2 DEF Next, RecvStep, vars, links, cache, ConnectTo, ConnectCb, ReadServerEof,
            CloseServerConn, ShutdownScCb, CloseScCb, ReadCb, Accept, CloseClientConn, ShutdownCb, CloseCb,
            RecvWaits, TooBig, Packet, Closed, TypeOK
    <3>2. took[s] = 0 /\ cash[s] = << >>
      BY <3>1 DEF StartInv
    <3>3. CASE \E n \in Sno : ReadCb(Server, n)
      <4>1. PICK n \in Sno : ReadCb(Server, n)
        BY <3>3
      <4>2. n \in Key /\ n # s
        BY DEF Key
      <4> QED
        BY <1>t, <2>k, <3>2, <4>1, <4>2, ReadAdds DEF ReadCb
    <3>4. CASE \E r \in Session : ReadCb(Client, r)
      <4>1. PICK r \in Session : ReadCb(Client, r)
        BY <3>4
      <4>2. r \in Key /\ r # s
        BY <3>1, <4>1 DEF Key, ReadCb, Readable, Client
      <4> QED
        BY <1>t, <2>k, <3>2, <4>1, <4>2, ReadAdds DEF ReadCb
    <3>5. CASE \E m \in Key : Packet(m)
      <4>1. PICK m \in Key : Packet(m)
        BY <3>5
      <4>2. m # s
        BY <3>2, <4>1 DEF Packet
      <4> QED
        BY <1>t, <2>k, <3>2, <4>1, <4>2, PacketCuts
    <3>6. CASE \E r \in Session : CloseCb(r)
      BY <1>t, <2>k, <3>2, <3>6 DEF CloseCb, TypeOK
    <3>7. CASE \E n \in Sno : ConnectCb(n)
      BY <1>t, <2>k, <3>2, <3>7 DEF ConnectCb, TypeOK
    <3>8. CASE UNCHANGED <<cash, took>>
      BY <3>2, <3>8
    <3> QED
      BY <2>2, <3>3, <3>4, <3>5, <3>6, <3>7, <3>8 DEF Next, RecvStep, vars, links, cache, ConnectTo,
            ReadServerEof, CloseServerConn, ShutdownScCb, CloseScCb, Accept, CloseClientConn, ShutdownCb,
            RecvWaits, TooBig
  <2> QED
    BY <2>1, <2>2
<1> QED
  BY <1>1, <1>2 DEF StartInv

\* The abstract view: to the scripts each number but a shared one is a stream of whole
\* packets that starts afresh with each connection (netlib.lua:47, GameServer.cpp:472),
\* until a link of it ends within a packet.
THEOREM NumberStreams == Spec => NumbersAreStreams
<1>1. ASSUME Init PROVE StartInv /\ \A k \in Key \ Shared : Stream(k)!Init
  <2>1. StartInv
    BY <1>1 DEF Init, Fresh, StartInv, Key
  <2>2. ASSUME NEW k \in Key \ Shared PROVE Stream(k)!Init
    <3>1. cash[k] = << >> /\ took[k] = 0 /\ ~Delivers(k) /\ ~crashed /\ k \notin cutOff
      BY <1>1 DEF Init, Fresh, Delivers, Key
    <3>2. Kept(k) = << >>
      BY <3>1 DEF Kept
    <3> QED
      BY <3>1, <3>2 DEF Stream!Init
  <2> QED
    BY <2>1, <2>2
<1>2. ASSUME GatewayInv, GatewayInv', StartInv, [Next]_vars, NEW k \in Key \ Shared
      PROVE  StreamStep(k)
  <2>1. CASE crashed
    <3>1. busy = NoKey /\ NoKey \notin Key
      BY <1>2, <2>1, GatewayAssumption DEF StartInv, Key, NoKey
    <3>2. UNCHANGED vars
      BY <1>2, <2>1, <3>1 DEF Next, RecvStep, ConnectTo, ConnectCb, ReadServerEof, FreedUsed, CloseServerConn,
           ShutdownScCb, CloseScCb, ReadCb, Accept, CloseClientConn, ShutdownCb, CloseCb, Idle, RecvWaits,
           TooBig, Packet
    <3>3. GenOf(k)' = GenOf(k) /\ Delivers(k)' = Delivers(k)
      BY <3>2 DEF GenOf, Delivers, vars, links
    <3> QED
      BY <3>2, <3>3, StreamFrame DEF vars, cache
  <2>2. CASE ~crashed /\ UNCHANGED vars
    <3>1. GenOf(k)' = GenOf(k) /\ Delivers(k)' = Delivers(k)
      BY <2>2 DEF GenOf, Delivers, vars, links
    <3> QED
      BY <2>2, <3>1, StreamFrame DEF vars, cache
  <2>3. CASE \E n \in Sno : FreedUsed(n)
    <3>1. ~crashed /\ crashed'
      BY <2>3 DEF FreedUsed, Idle
    <3> QED
      BY <3>1 DEF StreamStep, Stream!Next, Stream!Gone
  <2>4. CASE ~crashed /\ \E n \in Sno : \/ ConnectTo(n) \/ ConnectCb(n) \/ ReadServerEof(n)
                                        \/ CloseServerConn(n) \/ ShutdownScCb(n) \/ CloseScCb(n)
    <3>1. UNCHANGED <<cash, crashed>>
      BY <2>4 DEF ConnectTo, ConnectCb, ReadServerEof, CloseServerConn, ShutdownScCb, CloseScCb, cache
    <3> QED
      BY <1>2, <2>4, <3>1, LinkStreams
  <2>5. CASE ~crashed /\ \E s \in Session : \/ Accept(s) \/ CloseClientConn(s) \/ ShutdownCb(s)
                                            \/ CloseCb(s)
    BY <1>2, <2>5, ClientStreams
  <2>6. CASE ~crashed /\ \E m \in Key : RecvWaits(m) \/ TooBig(m)
    BY <1>2, <2>6, ClientStreams
  <2>7. CASE ~crashed /\ \E m \in Key : Packet(m)
    BY <1>2, <2>7, PacketStreams
  <2>8. CASE ~crashed /\ \/ \E n \in Sno : ReadCb(Server, n)
                         \/ \E s \in Session : ReadCb(Client, s)
    BY <1>2, <2>8, ReadStreams DEF Key
  <2> QED
    BY <1>2, <2>1, <2>2, <2>3, <2>4, <2>5, <2>6, <2>7, <2>8 DEF Next, RecvStep
<1>3. GatewayInv /\ GatewayInv' /\ StartInv /\ [Next]_vars
         => [\A k \in Key \ Shared : [Stream(k)!Next]_(Stream(k)!stream)]_vars
  BY <1>2 DEF StreamStep
<1>4. Init => \A k \in Key \ Shared : Stream(k)!Init
  BY <1>1
<1>5. Init => StartInv
  BY <1>1
<1>6. Spec => []StartInv
  BY <1>5, StartStep, GatewayInvariance, PTL DEF Spec
<1> QED
  BY <1>3, <1>4, <1>6, GatewayInvariance, PTL DEF Spec, NumbersAreStreams

===============================================================================
