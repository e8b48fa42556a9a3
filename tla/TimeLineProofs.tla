----------------------------- MODULE TimeLineProofs ----------------------------
(* Proofs about the timers: what TimeLine states holds for every grid length,   *)
(* delays, keys and bounds.                                                     *)
EXTENDS TimeLine, TLAPS

-------------------------------------------------------------------------------
(* Rounding.                                                                    *)

\* What math.ceil(ms / gridlen) is between (timelib.lua:18, :37).
LEMMA CeilBounds ==
    ASSUME TimeAssumption, NEW ms \in Nat
    PROVE  /\ Ceil(ms) \in Nat
           /\ ms <= Ceil(ms) * GridLen
           /\ Ceil(ms) * GridLen < ms + GridLen
<1> DEFINE m == ms + GridLen - 1
           q == m \div GridLen
<1>1. GridLen \in Nat /\ GridLen > 0 /\ m \in Nat
  BY DEF TimeAssumption
<1>2. q \in Nat /\ m = q * GridLen + (m % GridLen) /\ (m % GridLen) \in 0..(GridLen - 1)
  <2> HIDE DEF m
  <2> QED BY <1>1
<1>3. q * GridLen \in Nat
  BY <1>1, <1>2
<1> QED BY <1>1, <1>2, <1>3 DEF Ceil

\* Rounding up keeps the order of two times (timelib.lua:18).
LEMMA CeilMonotone ==
    ASSUME TimeAssumption, NEW a \in Nat, NEW b \in Nat, a <= b
    PROVE  Ceil(a) <= Ceil(b)
<1>1. SUFFICES ASSUME Ceil(a) >= Ceil(b) + 1
               PROVE  FALSE
  BY CeilBounds
<1>2. GridLen \in Nat /\ Ceil(a) \in Nat /\ Ceil(b) \in Nat
  BY CeilBounds DEF TimeAssumption
<1>3. Ceil(a) * GridLen >= (Ceil(b) + 1) * GridLen
  BY <1>1, <1>2
<1>4. (Ceil(b) + 1) * GridLen = Ceil(b) * GridLen + GridLen
  BY <1>2
<1>5. Ceil(a) * GridLen \in Nat /\ Ceil(b) * GridLen \in Nat
  BY <1>2
<1> QED BY <1>2, <1>3, <1>4, <1>5, CeilBounds

\* A delay is at least one slot, and one counted from a check is in a slot late
\* enough (timelib.lua:37).
LEMMA CeilSum ==
    ASSUME TimeAssumption, NEW a \in Nat, NEW d \in Nat \ {0}
    PROVE  Ceil(d) >= 1 /\ Ceil(a + d) <= Ceil(a) + Ceil(d)
<1>1. GridLen \in Nat /\ GridLen > 0 /\ Ceil(a) \in Nat /\ Ceil(d) \in Nat /\ Ceil(a + d) \in Nat
  BY CeilBounds DEF TimeAssumption
<1>2. Ceil(d) >= 1
  BY <1>1, CeilBounds
<1>3. SUFFICES ASSUME Ceil(a + d) >= Ceil(a) + Ceil(d) + 1
               PROVE  FALSE
  BY <1>1, <1>2
<1>4. Ceil(a + d) * GridLen >= (Ceil(a) + Ceil(d) + 1) * GridLen
  BY <1>1, <1>3
<1>5. (Ceil(a) + Ceil(d) + 1) * GridLen = Ceil(a) * GridLen + Ceil(d) * GridLen + GridLen
  BY <1>1
<1>6. a <= Ceil(a) * GridLen /\ d <= Ceil(d) * GridLen /\ Ceil(a + d) * GridLen < a + d + GridLen
  BY CeilBounds
<1>7. Ceil(a) * GridLen \in Nat /\ Ceil(d) * GridLen \in Nat /\ Ceil(a + d) * GridLen \in Nat
  BY <1>1
<1> QED BY <1>1, <1>4, <1>5, <1>6, <1>7

\* A time whose slot is not past that of another is less than a grid after it.
LEMMA CeilEarly ==
    ASSUME TimeAssumption, NEW a \in Nat, NEW b \in Nat, Ceil(a) <= Ceil(b)
    PROVE  a < b + GridLen
<1>1. GridLen \in Nat /\ Ceil(a) \in Nat /\ Ceil(b) \in Nat
  BY CeilBounds DEF TimeAssumption
<1>2. Ceil(a) * GridLen <= Ceil(b) * GridLen /\ Ceil(a) * GridLen \in Nat /\ Ceil(b) * GridLen \in Nat
  BY <1>1
<1> QED BY <1>1, <1>2, CeilBounds

-------------------------------------------------------------------------------
(* Tables.                                                                      *)

\* A table without holes has one border, its last index.
LEMMA DenseBorder ==
    ASSUME NEW f, DOMAIN f \subseteq Nat \ {0}, \A x \in DOMAIN f : 1..x \subseteq DOMAIN f,
           NEW n \in Borders(f)
    PROVE  n \in Nat /\ \A x \in DOMAIN f : x <= n
<1>1. n \in Nat /\ n + 1 \notin DOMAIN f
  BY DEF Borders, IsBorder
<1>2. ASSUME NEW x \in DOMAIN f, n < x PROVE FALSE
  <2>1. n + 1 \in 1..x
    BY <1>1, <1>2
  <2> QED BY <1>1, <1>2, <2>1
<1> QED BY <1>1, <1>2

-------------------------------------------------------------------------------
(* The inductive invariant, in parts.                                           *)

\* Plans are numbered in order, and a table has no more indexes than there are
\* plans; the first is never empty.
IndexInv ==
    /\ \A p \in Made : 1..p \subseteq Made
    /\ \A s \in Slot : DOMAIN timeline[s] = {} \/ 1 \in DOMAIN timeline[s]

\* Where the scan is, by the clock.
ClockInv ==
    /\ time = IF checked = 0 THEN 0 ELSE Ceil(checked)
    /\ Scanning => 0 < lasttime /\ lasttime <= scan.at /\ scan.at <= time
    /\ ~Scanning => lasttime = time
    /\ lasttime = 0 \/ Ceil(Epoch) <= lasttime
    /\ backs = 0 => checked <= mstime

\* An entry is of a plan of that slot, at one index only, and of one that has run
\* only behind the scan.
PlaceInv ==
    \A s \in Slot : \A x \in DOMAIN timeline[s] : timeline[s][x] # NullFunc =>
        /\ plan[timeline[s][x]].raise = s
        /\ timeline[s][x] \in fired => Scanning /\ s = scan.at /\ x <= scan.j
        /\ \A y \in DOMAIN timeline[s] : timeline[s][y] = timeline[s][x] => x = y

\* A plan's slot is not before its time; a plan made before the first check is in
\* a slot before all scans.
DueInv ==
    \A p \in Made :
        /\ p \in fired => due[p] = 0
        /\ Ceil(due[p]) <= plan[p].raise
        /\ p \notin fired /\ due[p] = 0 => plan[p].raise < Ceil(Epoch)
        /\ due[p] > 0 => checked > 0

\* An item's plan deletes that item, and has not run or is running.
ItemInv ==
    \A k \in Key : data[k] # 0 =>
        /\ plan[data[k]].use = k
        /\ data[k] \notin stopped
        /\ data[k] \in fired => k \in expiring

\* While no reload has set the time back tables have no holes,
Dense == \A s \in Slot : \A x \in DOMAIN timeline[s] : 1..x \subseteq DOMAIN timeline[s]

\* the scan's number of callbacks covers its table,
Covered == Scanning => \A x \in DOMAIN timeline[scan.at] : x <= scan.n

\* a plan keeps its index until its slot has been run, and no other plan has it,
Kept(p) ==
    LET s == plan[p].raise x == plan[p].inx IN
    IF DOMAIN timeline[s] = {} THEN s <= time /\ p \in fired \cup stopped
    ELSE /\ x \in DOMAIN timeline[s] /\ timeline[s][x] \in {p, NullFunc}
         /\ p \in stopped => timeline[s][x] = NullFunc
         /\ p \notin fired \cup stopped => timeline[s][x] = p
OwnIndex == \A p, q \in Made : p # q /\ plan[p].raise = plan[q].raise => plan[p].inx # plan[q].inx
InxRight == \A s \in Slot : \A x \in DOMAIN timeline[s] :
    timeline[s][x] # NullFunc => plan[timeline[s][x]].inx = x

\* and a plan that waits is ahead of the scan.
Ahead(p) == /\ ~Reached(plan[p].raise)
            /\ Scanning /\ plan[p].raise = scan.at => scan.j < plan[p].inx

OrderInv ==
    /\ Dense /\ Covered /\ OwnIndex /\ InxRight
    /\ \A p \in Made : Kept(p)
    /\ \A p \in Made \ (fired \cup stopped) : due[p] > 0 => Ahead(p)

\* An item whose key was not taken over is the only one its plans can delete.
KeepInv ==
    /\ \A q \in Made \ (fired \cup stopped) :
        plan[q].use \in Key \ retaken => data[plan[q].use] = q
    /\ \A k \in expiring \ retaken : data[k] # 0 => data[k] \in fired

TimeInv ==
    /\ TypeOK /\ IndexInv /\ ClockInv /\ PlaceInv /\ DueInv /\ ItemInv
    /\ backs = 0 => OrderInv
    /\ backs = 0 => KeepInv
-------------------------------------------------------------------------------
(* The steps.                                                                   *)

LEMMA InitInv == ASSUME TimeAssumption, Init PROVE TimeInv
<1>1. Ceil(MaxTime) \in Nat /\ Ceil(Epoch) \in Nat
  BY CeilBounds DEF TimeAssumption
<1>2. ~Scanning /\ Made = {} /\ \A s \in Slot : DOMAIN timeline[s] = {}
  BY DEF Init, Scanning, Made, NoTable
<1>3. TypeOK
  BY <1>1, <1>2 DEF Init, TypeOK, Slot, Time, NoScan, TimeAssumption, Made
<1>4. IndexInv /\ PlaceInv /\ DueInv
  BY <1>2 DEF IndexInv, PlaceInv, DueInv
<1>5. ClockInv /\ ItemInv
  BY <1>2 DEF Init, ClockInv, ItemInv, TimeAssumption, Time
<1>6. OrderInv
  BY <1>2 DEF OrderInv, Dense, Covered, OwnIndex, InxRight
<1>7. KeepInv
  BY <1>2 DEF KeepInv, Init
<1> QED BY <1>3, <1>4, <1>5, <1>6, <1>7 DEF TimeInv

\* The facts about the numbers every step uses.
LEMMA Numbers ==
    ASSUME TimeAssumption, TypeOK
    PROVE  /\ Ceil(MaxTime) \in Nat /\ Slot \subseteq Nat /\ Plan \subseteq Nat \ {0}
           /\ Ceil(Epoch) \in Nat \ {0} /\ Time \subseteq Nat \ {0}
           /\ time \in Nat /\ lasttime \in Nat /\ checked \in Nat /\ mstime \in Nat \ {0}
           /\ scan.at \in Nat /\ scan.j \in Nat /\ scan.n \in Nat
           /\ \A t \in Time : Ceil(t) \in Slot /\ Ceil(Epoch) <= Ceil(t)
<1>1. Ceil(MaxTime) \in Nat /\ Ceil(Epoch) \in Nat /\ Time \subseteq Nat \ {0}
  BY CeilBounds DEF TimeAssumption, Time
<1>2. Ceil(Epoch) # 0
  BY CeilBounds, <1>1 DEF TimeAssumption
<1>3. \A t \in Time : Ceil(t) \in Slot /\ Ceil(Epoch) <= Ceil(t)
  <2> TAKE t \in Time
  <2>1. t \in Nat /\ Epoch \in Nat /\ MaxTime \in Nat /\ Epoch <= t /\ t <= MaxTime
    BY DEF Time, TimeAssumption
  <2>2. Ceil(t) \in Nat /\ Ceil(t) <= Ceil(MaxTime) /\ Ceil(Epoch) <= Ceil(t)
    BY <2>1, CeilBounds, CeilMonotone
  <2> QED BY <2>2, <1>1 DEF Slot
<1>4. Slot \subseteq Nat /\ Plan \subseteq Nat \ {0}
  BY <1>1 DEF Slot, Plan, TimeAssumption
<1>5. scan.at \in Slot /\ scan.j \in 0..MaxPlans /\ scan.n \in 0..MaxPlans
  BY DEF TypeOK
<1>6. time \in Slot /\ lasttime \in Slot /\ checked \in Time \cup {0} /\ mstime \in Time
  BY DEF TypeOK
<1>7. scan.at \in Nat /\ scan.j \in Nat /\ scan.n \in Nat
  <2>1. MaxPlans \in Nat
    BY DEF TimeAssumption
  <2>2. scan.at \in Nat
    BY <1>4, <1>5
  <2> QED BY <1>5, <2>1, <2>2
<1>8. time \in Nat /\ lasttime \in Nat /\ checked \in Nat /\ mstime \in Nat \ {0}
  BY <1>1, <1>4, <1>6
<1> QED BY <1>1, <1>2, <1>3, <1>4, <1>7, <1>8

LEMMA FrameInv ==
    ASSUME TimeAssumption, TimeInv, NEW t \in Time, Frame(t)
    PROVE  TimeInv'
<1> USE DEF TimeInv
<1>1. ~Scanning /\ lasttime = time /\ t >= mstime
  BY DEF Frame, ClockInv
<1>2. UNCHANGED <<timeline, plan, data, expiring, due, fired, stopped, backs, retaken>> /\ Made' = Made
  BY DEF Frame, ghosts, Made
<1>3. mstime' = t /\ checked' = t /\ time' = Ceil(t) /\ t \in Nat /\ t > 0 /\ Ceil(t) \in Slot
  BY Numbers DEF Frame
<1>4. Ceil(Epoch) <= Ceil(t)
  BY Numbers
<1>5. backs = 0 => time <= Ceil(t)
  <2>1. CASE checked = 0
    BY <2>1, <1>3, Numbers DEF ClockInv
  <2>2. CASE checked # 0 /\ backs = 0
    BY <2>2, <1>1, <1>3, Numbers, CeilMonotone DEF ClockInv
  <2> QED BY <2>1, <2>2
<1>6. \/ /\ Scanning' /\ lasttime # 0 /\ lasttime < Ceil(t) /\ lasttime' = lasttime
         /\ scan'.at = lasttime /\ scan'.j = 0 /\ scan'.n \in Borders(timeline[lasttime])
         /\ scan' = [at |-> lasttime, j |-> 0, n |-> scan'.n]
      \/ /\ ~Scanning' /\ lasttime' = Ceil(t) /\ scan' = scan
         /\ lasttime = 0 \/ Ceil(t) <= lasttime
  <2>1. CASE lasttime # 0 /\ lasttime < time'
    BY <2>1, <1>3, Numbers DEF Frame, Scanning, NoScan
  <2>2. CASE ~(lasttime # 0 /\ lasttime < time')
    BY <2>2, <1>1, <1>3, Numbers DEF Frame, Scanning, LastTime
  <2> QED BY <2>1, <2>2
<1>7. \A n \in Borders(timeline[lasttime]) : n \in 0..MaxPlans
  BY Numbers DEF Borders, TypeOK, Plan, TimeAssumption
<1>8. TypeOK'
  <2>1. mstime' \in Time /\ checked' \in Time /\ time' \in Slot /\ lasttime' \in Slot
    BY <1>3, <1>6 DEF TypeOK
  <2>2. scan' \in [at : Slot, j : 0..MaxPlans, n : 0..MaxPlans] /\ scan'.j <= scan'.n
    BY <1>6, <1>7, Numbers DEF TypeOK, TimeAssumption
  <2> QED BY <1>2, <2>1, <2>2 DEF TypeOK, Made
<1>9. IndexInv'
  BY <1>2 DEF IndexInv
<1>10. ClockInv'
  <2>1. lasttime' = 0 \/ Ceil(Epoch) <= lasttime'
    BY <1>4, <1>6 DEF ClockInv
  <2> QED BY <1>1, <1>2, <1>3, <1>6, <2>1, Numbers DEF ClockInv
<1>11. PlaceInv'
  <2>1. \A s \in Slot : \A x \in DOMAIN timeline[s] : timeline[s][x] # NullFunc => timeline[s][x] \notin fired
    BY <1>1 DEF PlaceInv
  <2> QED BY <1>2, <2>1 DEF PlaceInv
<1>12. DueInv' /\ ItemInv'
  BY <1>2, <1>3 DEF DueInv, ItemInv
<1>13. ASSUME backs = 0 PROVE OrderInv'
  <2>1. Dense' /\ OwnIndex' /\ InxRight'
    BY <1>2, <1>13 DEF OrderInv, Dense, OwnIndex, InxRight
  <2>2. Covered'
    <3>1. CASE ~Scanning'
      BY <3>1 DEF Covered
    <3>2. CASE Scanning'
      <4>1. DOMAIN timeline[lasttime] \subseteq Nat \ {0}
        BY Numbers DEF TypeOK
      <4>2. \A x \in DOMAIN timeline[lasttime] : 1..x \subseteq DOMAIN timeline[lasttime]
        BY <1>13 DEF OrderInv, Dense, TypeOK
      <4>3. \A x \in DOMAIN timeline[lasttime] : x <= scan'.n
        BY <3>2, <1>6, <4>1, <4>2, DenseBorder
      <4> QED BY <1>2, <1>6, <3>2, <4>3 DEF Covered
    <3> QED BY <3>1, <3>2
  <2>3. \A p \in Made : Kept(p)'
    <3> TAKE p \in Made
    <3>1. Kept(p) /\ plan[p].raise \in Nat
      BY <1>13, Numbers DEF OrderInv, TypeOK
    <3> QED BY <3>1, <1>2, <1>3, <1>5, <1>13, Numbers DEF Kept
  <2>4. ASSUME NEW p \in Made \ (fired \cup stopped), due[p] > 0
        PROVE  Ahead(p)'
    <3>1. Ahead(p) /\ plan[p].raise \in Nat
      BY <1>13, <2>4, Numbers DEF OrderInv, TypeOK
    <3>2. lasttime < plan[p].raise
      <4>1. lasttime \in Nat /\ ~(plan[p].raise <= lasttime)
        BY <1>1, <3>1, Numbers DEF Ahead, Reached
      <4> QED BY <3>1, <4>1
    <3>3. time # 0
      BY <2>4, Numbers DEF DueInv, ClockInv, TypeOK
    <3>4. CASE Scanning'
      BY <1>2, <1>6, <3>1, <3>2, <3>4, Numbers DEF Ahead, Reached
    <3>5. CASE ~Scanning'
      BY <1>1, <1>2, <1>3, <1>5, <1>6, <1>13, <3>1, <3>2, <3>3, <3>5, Numbers DEF Ahead, Reached
    <3> QED BY <3>4, <3>5
  <2> QED BY <1>2, <2>1, <2>2, <2>3, <2>4 DEF OrderInv
<1>14. backs = 0 => KeepInv'
  BY <1>2 DEF KeepInv
<1> QED BY <1>2, <1>8, <1>9, <1>10, <1>11, <1>12, <1>13, <1>14

LEMMA CallNextInv ==
    ASSUME TimeAssumption, TimeInv, CallNext
    PROVE  TimeInv'
<1> USE DEF TimeInv
<1> DEFINE j == scan.j + 1
           tbl == timeline[scan.at]
           p == IF j \in DOMAIN tbl THEN tbl[j] ELSE NullFunc
<1>1. /\ Scanning /\ expiring = {} /\ scan.j < scan.n
      /\ UNCHANGED <<mstime, time, lasttime, checked, timeline, plan, data, stopped, backs, retaken>>
      /\ Made' = Made
  BY DEF CallNext, clock, Made
<1>2. scan' = [scan EXCEPT !.j = j]
  BY DEF CallNext
<1>3. /\ scan'.at = scan.at /\ scan'.j = j /\ scan'.n = scan.n /\ Scanning'
      /\ scan' \in [at : Slot, j : 0..MaxPlans, n : 0..MaxPlans] /\ j <= scan.n /\ j \in Nat
  BY <1>1, <1>2, Numbers DEF TypeOK, Scanning, NoScan, TimeAssumption
<1>4. p \in Made \cup {NullFunc} /\ scan.at \in Slot
  BY <1>1 DEF TypeOK
<1>5. p # NullFunc => /\ p \in Made /\ j \in DOMAIN tbl /\ tbl[j] = p
                      /\ p \notin fired /\ plan[p].raise = scan.at
  BY <1>4, Numbers DEF PlaceInv
<1>6. \/ p = NullFunc /\ UNCHANGED <<fired, expiring, due>>
      \/ /\ p # NullFunc /\ expiring' = ItemOf(p)
         /\ fired' = fired \cup {p} /\ due' = [due EXCEPT ![p] = 0]
  BY DEF CallNext
<1> HIDE DEF j, tbl, p
<1>7. TypeOK'
  <2>1. fired' \subseteq Made
    BY <1>4, <1>5, <1>6 DEF TypeOK
  <2>2. due' \in [Made -> Nat]
    BY <1>4, <1>6 DEF TypeOK
  <2>3. expiring' \subseteq Key
    BY <1>5, <1>6 DEF TypeOK, ItemOf
  <2> QED BY <1>1, <1>3, <2>1, <2>2, <2>3 DEF TypeOK, Made
<1>8. IndexInv' /\ ClockInv'
  BY <1>1, <1>3 DEF IndexInv, ClockInv
<1>9. PlaceInv'
  <2> SUFFICES ASSUME NEW s \in Slot, NEW x \in DOMAIN timeline[s], timeline[s][x] # NullFunc,
                      timeline[s][x] \in fired'
               PROVE  s = scan.at /\ x <= j
    BY <1>1, <1>3 DEF PlaceInv
  <2>1. CASE timeline[s][x] \in fired
    <3>1. x \in Nat /\ s = scan.at /\ x <= scan.j
      BY <2>1, Numbers DEF PlaceInv, TypeOK
    <3>2. scan.j \in Nat
      BY Numbers
    <3> QED BY <3>1, <3>2 DEF j
  <2>2. CASE timeline[s][x] = p /\ p # NullFunc
    <3>1. s = scan.at
      BY <2>2, <1>5 DEF PlaceInv
    <3>2. x = j
      BY <2>2, <3>1, <1>5 DEF PlaceInv, tbl
    <3> QED BY <3>1, <3>2, <1>3
  <2> QED BY <2>1, <2>2, <1>6
<1>10. DueInv'
  <2> SUFFICES ASSUME NEW q \in Made
               PROVE  /\ q \in fired' => due'[q] = 0
                      /\ Ceil(due'[q]) <= plan[q].raise
                      /\ q \notin fired' /\ due'[q] = 0 => plan[q].raise < Ceil(Epoch)
                      /\ due'[q] > 0 => checked > 0
    BY <1>1 DEF DueInv
  <2>1. CASE due'[q] = due[q] /\ (q \in fired' <=> q \in fired)
    BY <2>1 DEF DueInv
  <2>2. CASE p # NullFunc /\ q = p
    <3>1. due'[q] = 0 /\ q \in fired'
      BY <2>2, <1>5, <1>6 DEF TypeOK
    <3>2. Ceil(0) = 0
      BY CeilBounds, CeilMonotone DEF Ceil, TimeAssumption
    <3>3. plan[q].raise \in Nat
      BY Numbers DEF TypeOK
    <3> QED BY <3>1, <3>2, <3>3
  <2> QED BY <2>1, <2>2, <1>6 DEF TypeOK
<1>11. ItemInv'
  <2> SUFFICES ASSUME NEW k \in Key, data[k] # 0, data[k] \in fired'
               PROVE  k \in expiring'
    BY <1>1 DEF ItemInv
  <2>1. data[k] \notin fired
    BY <1>1 DEF ItemInv
  <2>2. p # NullFunc /\ data[k] = p /\ plan[p].use = k
    BY <2>1, <1>6 DEF ItemInv
  <2> QED BY <2>2, <1>6 DEF ItemOf, TimeAssumption
<1>12. ASSUME backs = 0 PROVE OrderInv'
  <2>1. Dense' /\ Covered' /\ OwnIndex' /\ InxRight'
    BY <1>1, <1>3, <1>12 DEF OrderInv, Dense, Covered, OwnIndex, InxRight
  <2>2. \A q \in Made : Kept(q)'
    <3> TAKE q \in Made
    <3>1. Kept(q)
      BY <1>12 DEF OrderInv
    <3>2. fired \subseteq fired'
      BY <1>6
    <3> QED BY <1>1, <3>1, <3>2 DEF Kept
  <2>3. ASSUME NEW q \in Made \ (fired' \cup stopped), due'[q] > 0
        PROVE  Ahead(q)'
    <3>1. q \notin fired /\ due[q] > 0 /\ q # p
      <4>1. q # NullFunc
        BY <2>3, Numbers DEF TypeOK, NullFunc
      <4>2. q # p
        BY <2>3, <4>1, <1>6
      <4> QED BY <2>3, <4>2, <1>6 DEF TypeOK
    <3>2. Ahead(q) /\ Kept(q) /\ plan[q].inx \in Nat
      BY <2>3, <3>1, <1>12, Numbers DEF OrderInv, TypeOK
    <3>3. ASSUME plan[q].raise = scan.at PROVE j < plan[q].inx
      <4>1. plan[q].inx \in DOMAIN tbl /\ tbl[plan[q].inx] = q
        BY <3>2, <3>3, <2>3, <3>1 DEF Kept, tbl
      <4>2. plan[q].inx # j
        BY <4>1, <3>1 DEF p
      <4> QED BY <3>2, <3>3, <4>2, <1>1, Numbers DEF Ahead, j
    <3> QED BY <1>1, <1>3, <3>2, <3>3 DEF Ahead, Reached
  <2> QED BY <1>1, <2>1, <2>2, <2>3 DEF OrderInv
<1>13. ASSUME backs = 0 PROVE KeepInv'
  <2>1. KeepInv
    BY <1>13
  <2>2. \A q \in Made \ (fired' \cup stopped) : q \in Made \ (fired \cup stopped)
    BY <1>6
  <2>3. ASSUME p # NullFunc PROVE p \notin stopped
    <3>1. plan[p].inx = j /\ Kept(p) /\ p \in Made
      BY <1>4, <1>5, <1>13, <2>3 DEF OrderInv, InxRight, tbl
    <3> QED BY <1>5, <2>3, <3>1 DEF Kept, tbl
  <2>4. ASSUME NEW k \in expiring' \ retaken, data[k] # 0 PROVE data[k] \in fired'
    <3>1. p # NullFunc /\ plan[p].use = k
      BY <1>1, <1>6, <2>4 DEF ItemOf
    <3>2. k \in Key
      BY <1>7, <2>4 DEF TypeOK
    <3>3. data[k] = p
      BY <1>5, <2>1, <2>3, <2>4, <3>1, <3>2 DEF KeepInv
    <3> QED BY <1>6, <3>1, <3>3
  <2> QED BY <1>1, <2>1, <2>2, <2>4 DEF KeepInv
<1> QED BY <1>1, <1>7, <1>8, <1>9, <1>10, <1>11, <1>12, <1>13

LEMMA DeleteItemInv ==
    ASSUME TimeAssumption, TimeInv, DeleteItem
    PROVE  TimeInv'
<1> USE DEF TimeInv
<1>1. /\ UNCHANGED <<mstime, time, lasttime, checked, timeline, plan, scan>>
      /\ UNCHANGED <<due, fired, stopped, backs, retaken>> /\ Made' = Made /\ (Scanning' <=> Scanning)
      /\ expiring' = {} /\ data' = [k \in Key |-> IF k \in expiring THEN 0 ELSE data[k]]
  BY DEF DeleteItem, clock, ghosts, Made, Scanning
<1>2. TypeOK' /\ IndexInv' /\ ClockInv' /\ PlaceInv' /\ DueInv'
  BY <1>1 DEF TypeOK, IndexInv, ClockInv, PlaceInv, DueInv, Made
<1>3. ItemInv'
  BY <1>1 DEF ItemInv
<1>4. backs = 0 => OrderInv'
  BY <1>1 DEF OrderInv, Dense, Covered, OwnIndex, InxRight, Kept, Ahead, Reached
<1>5. ASSUME backs = 0 PROVE KeepInv'
  <2> SUFFICES ASSUME NEW q \in Made \ (fired \cup stopped), plan[q].use \in Key \ retaken
               PROVE  data'[plan[q].use] = q
    BY <1>1 DEF KeepInv
  <2>1. data[plan[q].use] = q /\ q # 0
    BY <1>5, Numbers DEF KeepInv, TypeOK
  <2>2. plan[q].use \notin expiring
    BY <1>5, <2>1 DEF KeepInv
  <2> QED BY <1>1, <2>1, <2>2
<1> QED BY <1>1, <1>2, <1>3, <1>4, <1>5

LEMMA SlotDoneInv ==
    ASSUME TimeAssumption, TimeInv, SlotDone
    PROVE  TimeInv'
<1> USE DEF TimeInv
<1>1. /\ Scanning /\ expiring = {} /\ scan.j = scan.n
      /\ UNCHANGED <<mstime, time, checked, plan, data, expiring, due, fired, stopped, backs, retaken>>
      /\ Made' = Made /\ scan.at \in Slot
  BY Numbers DEF SlotDone, ghosts, Made, TypeOK
<1>2. /\ DOMAIN timeline' = Slot /\ DOMAIN timeline'[scan.at] = {}
      /\ \A s \in Slot \ {scan.at} : timeline'[s] = timeline[s]
  BY <1>1 DEF SlotDone, SlotRun, TypeOK, NoTable
<1>3. scan.at \in Nat /\ time \in Nat /\ 0 < scan.at /\ scan.at <= time /\ lasttime <= scan.at
  BY <1>1, Numbers DEF ClockInv
<1>4. \/ /\ scan.at < time /\ Scanning' /\ lasttime' = lasttime
         /\ scan'.at = scan.at + 1 /\ scan'.j = 0 /\ scan'.n \in Borders(timeline[scan.at + 1])
         /\ scan' = [at |-> scan.at + 1, j |-> 0, n |-> scan'.n] /\ scan.at + 1 \in Slot
      \/ /\ scan.at = time /\ ~Scanning' /\ lasttime' = time /\ scan' = NoScan
  <2>1. CASE scan.at < time
    <3>1. scan.at + 1 \in Slot
      <4>1. time \in 0..Ceil(MaxTime) /\ Ceil(MaxTime) \in Nat
        BY Numbers DEF TypeOK, Slot
      <4> QED BY <2>1, <1>3, <4>1 DEF Slot
    <3>2. scan.at + 1 # 0
      BY <1>3
    <3> QED BY <2>1, <3>1, <3>2 DEF SlotDone, Scanning, NoScan
  <2>2. CASE ~(scan.at < time)
    BY <2>2, <1>3 DEF SlotDone, Scanning, LastTime
  <2> QED BY <2>1, <2>2
<1>5. TypeOK'
  <2>1. scan' \in [at : Slot, j : 0..MaxPlans, n : 0..MaxPlans] /\ scan'.j <= scan'.n
    <3>1. CASE scan.at < time
      <4>1. scan'.n \in 0..MaxPlans
        BY <3>1, <1>4, <1>3, Numbers DEF Borders, TypeOK, Plan, TimeAssumption
      <4> QED BY <3>1, <1>3, <1>4, <4>1 DEF TimeAssumption
    <3>2. CASE scan.at = time
      <4>1. 0 \in Slot /\ 0 \in 0..MaxPlans
        BY Numbers DEF Slot, TimeAssumption
      <4>2. scan' = [at |-> 0, j |-> 0, n |-> 0]
        BY <3>2, <1>3, <1>4 DEF NoScan
      <4> QED BY <4>1, <4>2
    <3> QED BY <3>1, <3>2, <1>3
  <2>2. lasttime' \in Slot
    BY <1>4 DEF TypeOK
  <2>3. \A s \in Slot : /\ DOMAIN timeline'[s] \subseteq Made
                        /\ \A x \in DOMAIN timeline'[s] : timeline'[s][x] \in Made \cup {NullFunc}
    BY <1>2 DEF TypeOK
  <2> QED BY <1>1, <1>2, <2>1, <2>2, <2>3 DEF TypeOK, Made
<1>6. IndexInv' /\ DueInv' /\ ItemInv'
  BY <1>1, <1>2 DEF IndexInv, DueInv, ItemInv
<1>7. ClockInv'
  <2>1. lasttime' = 0 \/ Ceil(Epoch) <= lasttime'
    BY <1>1, <1>3, <1>4, Numbers DEF ClockInv
  <2> QED BY <1>1, <1>3, <1>4, <2>1, Numbers DEF ClockInv
<1>8. PlaceInv'
  <2> SUFFICES ASSUME NEW s \in Slot, NEW x \in DOMAIN timeline'[s], timeline'[s][x] # NullFunc
               PROVE  /\ plan[timeline'[s][x]].raise = s
                      /\ timeline'[s][x] \notin fired
                      /\ \A y \in DOMAIN timeline'[s] : timeline'[s][y] = timeline'[s][x] => x = y
    BY <1>1 DEF PlaceInv
  <2>1. s # scan.at /\ timeline'[s] = timeline[s]
    BY <1>2
  <2> QED BY <2>1 DEF PlaceInv
<1>9. ASSUME backs = 0 PROVE OrderInv'
  <2>1. Dense' /\ InxRight' /\ OwnIndex'
    BY <1>1, <1>2, <1>9 DEF OrderInv, Dense, InxRight, OwnIndex
  <2>2. Covered'
    <3>1. CASE ~Scanning'
      BY <3>1 DEF Covered
    <3>2. CASE Scanning'
      <4> DEFINE f == timeline[scan.at + 1]
      <4>1. DOMAIN f \subseteq Nat \ {0} /\ \A x \in DOMAIN f : 1..x \subseteq DOMAIN f
        BY <1>4, <1>9, <3>2, Numbers DEF TypeOK, OrderInv, Dense
      <4>2. \A x \in DOMAIN f : x <= scan'.n
        BY <1>4, <3>2, <4>1, DenseBorder
      <4>3. timeline'[scan'.at] = f
        BY <1>2, <1>3, <1>4, <3>2
      <4> QED BY <4>2, <4>3 DEF Covered
    <3> QED BY <3>1, <3>2
  <2>3. ASSUME NEW p \in Made \ (fired \cup stopped)
        PROVE  plan[p].raise # scan.at
    <3>1. SUFFICES ASSUME plan[p].raise = scan.at PROVE FALSE
      OBVIOUS
    <3>2. Ceil(Epoch) <= scan.at
      BY <1>3, <1>1, Numbers DEF ClockInv
    <3>3. due[p] > 0
      BY <2>3, <3>1, <3>2, <1>3, Numbers DEF DueInv, TypeOK
    <3>4. plan[p].inx \in DOMAIN timeline[scan.at] /\ scan.j < plan[p].inx /\ plan[p].inx \in Nat
      BY <1>1, <1>9, <2>3, <3>1, <3>3, Numbers DEF OrderInv, Kept, Ahead, TypeOK
    <3>5. plan[p].inx <= scan.n
      BY <1>1, <1>9, <3>4 DEF OrderInv, Covered
    <3> QED BY <1>1, <3>4, <3>5, Numbers
  <2>4. \A p \in Made : Kept(p)'
    <3> TAKE p \in Made
    <3>1. Kept(p) /\ plan[p].raise \in Slot
      BY <1>9 DEF OrderInv, TypeOK
    <3>2. CASE plan[p].raise = scan.at
      BY <1>1, <1>2, <1>3, <2>3, <3>2 DEF Kept
    <3>3. CASE plan[p].raise # scan.at
      BY <1>1, <1>2, <3>1, <3>3 DEF Kept
    <3> QED BY <3>2, <3>3
  <2>5. ASSUME NEW p \in Made \ (fired \cup stopped), due[p] > 0
        PROVE  Ahead(p)'
    <3>1. Ahead(p) /\ plan[p].raise \in Nat /\ plan[p].raise # scan.at /\ plan[p].inx \in Nat \ {0}
      BY <1>9, <2>3, <2>5, Numbers DEF OrderInv, TypeOK
    <3>2. plan[p].raise > scan.at
      BY <1>1, <1>3, <3>1 DEF Ahead, Reached
    <3> QED BY <1>1, <1>3, <1>4, <3>1, <3>2 DEF Ahead, Reached
  <2> QED BY <1>1, <2>1, <2>2, <2>4, <2>5 DEF OrderInv
<1>10. backs = 0 => KeepInv'
  BY <1>1 DEF KeepInv
<1> QED BY <1>1, <1>5, <1>6, <1>7, <1>8, <1>9, <1>10

LEMMA ReloadInv ==
    ASSUME TimeAssumption, TimeInv, NEW t \in Time, Reload(t)
    PROVE  TimeInv'
<1> USE DEF TimeInv
<1>1. /\ UNCHANGED <<time, lasttime, checked, timeline, plan, data, scan, expiring, due, fired, stopped, retaken>>
      /\ mstime' = t /\ Made' = Made /\ (Scanning' <=> Scanning)
      /\ IF t < mstime THEN backs < MaxBack /\ backs' = backs + 1 ELSE backs' = backs
  BY DEF Reload, Made, Scanning
<1>2. backs \in Nat /\ backs' \in 0..MaxBack /\ t \in Nat /\ mstime \in Nat /\ checked \in Nat
  BY <1>1, Numbers DEF TypeOK, TimeAssumption
<1>3. backs' = 0 => backs = 0 /\ mstime <= t
  BY <1>1, <1>2
<1>4. TypeOK' /\ IndexInv' /\ PlaceInv' /\ DueInv' /\ ItemInv'
  BY <1>1, <1>2 DEF TypeOK, IndexInv, PlaceInv, DueInv, ItemInv, Made
<1>5. ClockInv'
  BY <1>1, <1>2, <1>3 DEF ClockInv
<1>6. backs' = 0 => OrderInv'
  BY <1>1, <1>3 DEF OrderInv, Dense, Covered, OwnIndex, InxRight, Kept, Ahead, Reached
<1>7. backs' = 0 => KeepInv'
  BY <1>1, <1>3 DEF KeepInv
<1> QED BY <1>4, <1>5, <1>6, <1>7

\* createplan keeps the parts that speak of the plans and their table, whoever
\* calls it; what is left are the items.
LEMMA CreateStep ==
    ASSUME TimeAssumption, TimeInv,
           NEW p \in Plan, NEW d \in Delays, NEW u \in Key \cup {Script}, Create(p, d, u), UNCHANGED stopped
    PROVE  /\ Made' = Made \cup {p} /\ p \notin Made
           /\ plan'[p].use = u /\ \A q \in Made : plan'[q] = plan[q]
           /\ plan' \in [Made' -> [raise : Slot, inx : Made', use : Key \cup {Script}]]
           /\ due' \in [Made' -> Nat] /\ DOMAIN timeline' = Slot
           /\ \A s \in Slot : /\ DOMAIN timeline'[s] \subseteq Made'
                              /\ \A x \in DOMAIN timeline'[s] : timeline'[s][x] \in Made' \cup {NullFunc}
           /\ IndexInv' /\ ClockInv' /\ PlaceInv' /\ DueInv'
           /\ backs = 0 => OrderInv'
<1> USE DEF TimeInv
<1> DEFINE s == time + Slots(d)
           f == timeline[s]
<1>1. /\ UNCHANGED <<mstime, time, lasttime, checked, scan, expiring, fired, stopped, backs>>
      /\ (Scanning' <=> Scanning) /\ p \notin Made /\ 1..(p - 1) \subseteq Made /\ s \in Slot
  BY DEF Create, clock, Scanning
<1>22. PICK b \in Borders(f) :
        /\ timeline' = [timeline EXCEPT ![s] = Put(f, b + 1, p)]
        /\ \E n \in Borders(Put(f, b + 1, p)) : plan' = Put(plan, p, [raise |-> s, inx |-> n, use |-> u])
  BY DEF Create
<1>23. PICK n \in Borders(Put(f, b + 1, p)) : plan' = Put(plan, p, [raise |-> s, inx |-> n, use |-> u])
  BY <1>22
<1>2. /\ b \in Borders(f) /\ n \in Borders(Put(f, b + 1, p))
      /\ timeline' = [timeline EXCEPT ![s] = Put(f, b + 1, p)]
      /\ plan' = Put(plan, p, [raise |-> s, inx |-> n, use |-> u])
  BY <1>22, <1>23
<1>3. d \in Nat \ {0} /\ Slots(d) \in Nat /\ Slots(d) >= 1 /\ s > time /\ time \in Nat /\ s \in Nat
  <2>1. d \in Nat \ {0}
    BY DEF TimeAssumption
  <2>2. Slots(d) \in Nat /\ Slots(d) >= 1
    BY <2>1, CeilBounds, CeilSum DEF Slots
  <2> QED BY <2>1, <2>2, Numbers
<1>4. Made' = Made \cup {p} /\ \A q \in Made : plan'[q] = plan[q]
  BY <1>1, <1>2 DEF Made, Put
<1>5. plan'[p] = [raise |-> s, inx |-> n, use |-> u]
  BY <1>2 DEF Put
<1>6. due' = Put(due, p, IF checked = 0 THEN 0 ELSE checked + d)
  BY DEF Create
<1> DEFINE g == Put(f, b + 1, p)
<1> HIDE DEF s
<1>7. /\ DOMAIN f \subseteq Made /\ Made \subseteq Plan /\ Plan \subseteq Nat \ {0} /\ p \in Nat \ {0}
      /\ \A q \in Made : 1..q \subseteq Made
  BY <1>1, Numbers DEF TypeOK, IndexInv
<1>8. /\ b \in Nat /\ b + 1 \notin DOMAIN f /\ b + 1 \in 1..p /\ (b = 0 \/ b \in DOMAIN f)
      /\ DOMAIN f = {} => b = 0
  <2>1. b \in Nat /\ b + 1 \notin DOMAIN f /\ (b = 0 \/ b \in DOMAIN f)
    <3>1. b \in {0} \cup DOMAIN f /\ b + 1 \notin DOMAIN f
      BY <1>2 DEF Borders, IsBorder
    <3>2. DOMAIN f \subseteq Nat
      BY <1>7
    <3> QED BY <3>1, <3>2
  <2>2. b <= p - 1
    <3>1. SUFFICES ASSUME b >= p PROVE FALSE
      BY <1>7, <2>1
    <3>2. b \in Made /\ p \in 1..b
      BY <1>7, <2>1, <3>1
    <3> QED BY <1>1, <1>7, <3>2
  <2> QED BY <1>7, <2>1, <2>2
<1>9. 1..p \subseteq Made'
  <2>1. \A x \in 1..p : x = p \/ x \in 1..(p - 1)
    BY <1>7
  <2> QED BY <1>1, <1>4, <2>1
<1>10. /\ DOMAIN g = DOMAIN f \cup {b + 1} /\ g[b + 1] = p
       /\ \A x \in DOMAIN f : x # b + 1 /\ g[x] = f[x]
  BY <1>8 DEF Put
<1>11. /\ DOMAIN timeline' = Slot /\ timeline'[s] = g /\ timeline[s] = f
       /\ \A r \in Slot \ {s} : timeline'[r] = timeline[r]
  BY <1>1, <1>2 DEF TypeOK
<1> HIDE DEF f, g
<1>12. 1 \in DOMAIN g
  <2>1. CASE DOMAIN f = {}
    BY <2>1, <1>8, <1>10
  <2>2. CASE 1 \in DOMAIN f
    BY <2>2, <1>10
  <2> QED BY <2>1, <2>2, <1>1 DEF IndexInv, f
<1>13. n \in DOMAIN g /\ n + 1 \notin DOMAIN g /\ DOMAIN g \subseteq Made' /\ n \in Nat \ {0}
  <2>1. n + 1 \notin DOMAIN g /\ (n = 0 \/ n \in DOMAIN g)
    BY <1>2 DEF Borders, IsBorder, g
  <2>2. n # 0
    BY <2>1, <1>12
  <2>3. DOMAIN g \subseteq Made'
    BY <1>4, <1>7, <1>8, <1>9, <1>10
  <2>4. Made' \subseteq Nat \ {0}
    BY <1>4, <1>7
  <2> QED BY <2>1, <2>2, <2>3, <2>4
<1>14. plan' \in [Made' -> [raise : Slot, inx : Made', use : Key \cup {Script}]]
  <2>1. \A q \in Made' : plan'[q] \in [raise : Slot, inx : Made', use : Key \cup {Script}]
    <3>1. [raise |-> s, inx |-> n, use |-> u] \in [raise : Slot, inx : Made', use : Key \cup {Script}]
      BY <1>1, <1>13
    <3>2. \A q \in Made : plan[q] \in [raise : Slot, inx : Made, use : Key \cup {Script}]
      BY DEF TypeOK
    <3>3. \A q \in Made : plan'[q] \in [raise : Slot, inx : Made', use : Key \cup {Script}]
      BY <1>4, <3>2
    <3> QED BY <1>4, <1>5, <3>1, <3>3
  <2>2. plan' = [q \in Made' |-> plan'[q]]
    BY <1>2, <1>4 DEF Put, Made
  <2> QED BY <2>1, <2>2
<1>15. due' \in [Made' -> Nat] /\ (\A q \in Made : due'[q] = due[q])
       /\ due'[p] = IF checked = 0 THEN 0 ELSE checked + d
  <2>1. DOMAIN due = Made /\ \A q \in Made : due[q] \in Nat
    BY DEF TypeOK
  <2> QED BY <1>1, <1>3, <1>4, <1>6, <2>1, Numbers DEF Put
<1>16. \A r \in Slot : /\ DOMAIN timeline'[r] \subseteq Made'
                       /\ \A x \in DOMAIN timeline'[r] : timeline'[r][x] \in Made' \cup {NullFunc}
  <2> TAKE r \in Slot
  <2>1. /\ DOMAIN timeline[r] \subseteq Made
        /\ \A x \in DOMAIN timeline[r] : timeline[r][x] \in Made \cup {NullFunc}
    BY DEF TypeOK
  <2>2. CASE r = s
    BY <2>1, <2>2, <1>4, <1>10, <1>11, <1>13
  <2>3. CASE r # s
    BY <2>1, <2>3, <1>4, <1>11
  <2> QED BY <2>2, <2>3
<1>17. IndexInv'
  BY <1>4, <1>7, <1>9, <1>11, <1>12 DEF IndexInv
<1>18. ClockInv'
  BY <1>1 DEF ClockInv
<1>19. PlaceInv'
  <2> SUFFICES ASSUME NEW r \in Slot, NEW x \in DOMAIN timeline'[r], timeline'[r][x] # NullFunc
               PROVE  /\ plan'[timeline'[r][x]].raise = r
                      /\ timeline'[r][x] \in fired => Scanning /\ r = scan.at /\ x <= scan.j
                      /\ \A y \in DOMAIN timeline'[r] : timeline'[r][y] = timeline'[r][x] => x = y
    BY <1>1 DEF PlaceInv
  <2>1. \A q \in Slot : \A y \in DOMAIN timeline[q] : timeline[q][y] # p
    BY <1>1, Numbers DEF TypeOK, NullFunc
  <2>2. p \notin fired
    BY <1>1 DEF TypeOK
  <2>3. CASE r = s /\ x = b + 1
    BY <2>1, <2>2, <2>3, <1>1, <1>5, <1>10, <1>11
  <2>4. CASE x \in DOMAIN timeline[r] /\ timeline'[r][x] = timeline[r][x]
    <3>1. timeline[r][x] \in Made
      BY <2>4 DEF TypeOK
    <3>2. \A y \in DOMAIN timeline'[r] : \/ y \in DOMAIN timeline[r] /\ timeline'[r][y] = timeline[r][y]
                                         \/ timeline'[r][y] = p
      BY <1>10, <1>11
    <3> QED BY <2>1, <2>4, <3>1, <3>2, <1>4 DEF PlaceInv
  <2> QED BY <2>3, <2>4, <1>10, <1>11
<1>20. DueInv'
  <2>1. \A q \in Made : /\ q \in fired => due'[q] = 0
                        /\ Ceil(due'[q]) <= plan'[q].raise
                        /\ q \notin fired /\ due'[q] = 0 => plan'[q].raise < Ceil(Epoch)
                        /\ due'[q] > 0 => checked > 0
    BY <1>4, <1>15 DEF DueInv
  <2>2. p \notin fired
    BY <1>1 DEF TypeOK
  <2>3. Ceil(due'[p]) <= s /\ (due'[p] = 0 => s < Ceil(Epoch)) /\ (due'[p] > 0 => checked > 0)
    <3>1. CASE checked = 0
      <4>1. due'[p] = 0 /\ s = Ceil(d) /\ Ceil(0) <= Ceil(d) /\ Ceil(d) < Ceil(Epoch)
        BY <3>1, <1>3, <1>15, CeilMonotone, Numbers DEF ClockInv, Slots, s, TimeAssumption
      <4> QED BY <4>1
    <3>2. CASE checked # 0
      <4>1. due'[p] = checked + d /\ s = Ceil(checked) + Ceil(d) /\ due'[p] > 0 /\ checked > 0
        BY <3>2, <1>3, <1>15, Numbers DEF ClockInv, Slots, s
      <4>2. Ceil(checked + d) <= Ceil(checked) + Ceil(d)
        BY <1>3, CeilSum, Numbers
      <4> QED BY <4>1, <4>2
    <3> QED BY <3>1, <3>2
  <2> QED BY <1>1, <1>4, <1>5, <2>1, <2>2, <2>3 DEF DueInv
<1>21. ASSUME backs = 0 PROVE OrderInv'
  <2>1. \A x \in DOMAIN f : 1..x \subseteq DOMAIN f
    BY <1>1, <1>11, <1>21 DEF OrderInv, Dense
  <2>2. \A x \in DOMAIN f : x <= b
    BY <1>2, <1>7, <2>1, DenseBorder
  <2>3. 1..(b + 1) \subseteq DOMAIN g
    <3>1. b = 0 \/ 1..b \subseteq DOMAIN f
      BY <1>8, <2>1
    <3>2. \A x \in 1..(b + 1) : x = b + 1 \/ (x \in 1..b /\ b # 0)
      BY <1>8
    <3> QED BY <1>10, <3>1, <3>2
  <2>4. n = b + 1
    <3>1. n <= b + 1
      BY <1>7, <1>8, <1>10, <1>13, <2>2
    <3>2. SUFFICES ASSUME n <= b PROVE FALSE
      BY <3>1, <1>8, <1>13
    <3>3. n + 1 \in 1..(b + 1)
      BY <3>2, <1>8, <1>13
    <3> QED BY <3>3, <2>3, <1>13
  <2>5. Dense'
    <3> SUFFICES ASSUME NEW r \in Slot, NEW x \in DOMAIN timeline'[r]
                 PROVE  1..x \subseteq DOMAIN timeline'[r]
      BY DEF Dense
    <3>1. CASE r # s
      BY <3>1, <1>11, <1>21 DEF OrderInv, Dense
    <3>2. CASE r = s /\ x = b + 1
      BY <3>2, <1>11, <2>3
    <3>3. CASE r = s /\ x \in DOMAIN f
      BY <3>3, <1>10, <1>11, <2>1
    <3> QED BY <3>1, <3>2, <3>3, <1>10, <1>11
  <2>6. Covered'
    <3>1. Scanning => scan.at # s /\ scan.at \in Slot
      BY <1>3, Numbers DEF ClockInv, TypeOK
    <3> QED BY <1>1, <1>11, <1>21, <3>1 DEF OrderInv, Covered
  <2>7. \A q \in Made : plan[q].raise = s => plan[q].inx \in DOMAIN f /\ plan[q].inx # n
    <3> SUFFICES ASSUME NEW q \in Made, plan[q].raise = s
                 PROVE  plan[q].inx \in DOMAIN f
      BY <1>10, <2>4
    <3>1. Kept(q)
      BY <1>21 DEF OrderInv
    <3> QED BY <3>1, <1>3, <1>11 DEF Kept
  <2>8. OwnIndex'
    BY <1>4, <1>5, <1>21, <2>7 DEF OrderInv, OwnIndex
  <2>9. InxRight'
    <3> SUFFICES ASSUME NEW r \in Slot, NEW x \in DOMAIN timeline'[r], timeline'[r][x] # NullFunc
                 PROVE  plan'[timeline'[r][x]].inx = x
      BY DEF InxRight
    <3>1. CASE r = s /\ x = b + 1
      BY <3>1, <1>5, <1>10, <1>11, <2>4
    <3>2. CASE x \in DOMAIN timeline[r] /\ timeline'[r][x] = timeline[r][x]
      <4>1. timeline[r][x] \in Made
        BY <3>2 DEF TypeOK
      <4> QED BY <3>2, <4>1, <1>4, <1>21 DEF OrderInv, InxRight
    <3> QED BY <3>1, <3>2, <1>10, <1>11
  <2>10. \A q \in Made' : Kept(q)'
    <3> TAKE q \in Made'
    <3>1. CASE q = p
      <4>1. p \notin fired \cup stopped
        BY <1>1 DEF TypeOK
      <4> QED BY <3>1, <4>1, <1>1, <1>5, <1>10, <1>11, <2>4 DEF Kept
    <3>2. CASE q \in Made
      <4>1. Kept(q) /\ plan'[q] = plan[q] /\ plan[q].raise \in Slot
        BY <3>2, <1>4, <1>21 DEF OrderInv, TypeOK
      <4>2. CASE plan[q].raise = s
        <5>1. plan[q].inx \in DOMAIN f /\ plan[q].inx \in DOMAIN g /\ g[plan[q].inx] = f[plan[q].inx]
          BY <3>2, <4>2, <2>7, <1>10
        <5> QED BY <4>1, <4>2, <5>1, <1>1, <1>11 DEF Kept
      <4>3. CASE plan[q].raise # s
        BY <4>1, <4>3, <1>1, <1>11 DEF Kept
      <4> QED BY <4>2, <4>3
    <3> QED BY <3>1, <3>2, <1>4
  <2>11. ASSUME NEW q \in Made' \ (fired \cup stopped), due'[q] > 0
         PROVE  Ahead(q)'
    <3>1. CASE q = p
      <4>1. Scanning => scan.at <= time
        BY DEF ClockInv
      <4> QED BY <3>1, <4>1, <1>1, <1>3, <1>5, Numbers DEF Ahead, Reached
    <3>2. CASE q \in Made
      BY <3>2, <2>11, <1>1, <1>4, <1>15, <1>21 DEF OrderInv, Ahead, Reached
    <3> QED BY <3>1, <3>2, <1>4
  <2> QED BY <1>1, <2>5, <2>6, <2>8, <2>9, <2>10, <2>11 DEF OrderInv
<1> QED BY <1>1, <1>4, <1>5, <1>11, <1>14, <1>15, <1>16, <1>17, <1>18, <1>19, <1>20, <1>21

\* cancel keeps the same parts, whoever holds the plan.
LEMMA CancelStep ==
    ASSUME TimeAssumption, TimeInv, NEW p \in Made, Cancel(p)
    PROVE  /\ Made' = Made /\ DOMAIN timeline' = Slot
           /\ \A s \in Slot : /\ DOMAIN timeline'[s] \subseteq Made
                              /\ \A x \in DOMAIN timeline'[s] : timeline'[s][x] \in Made \cup {NullFunc}
           /\ IndexInv' /\ ClockInv' /\ PlaceInv' /\ DueInv'
           /\ backs = 0 => OrderInv'
<1> USE DEF TimeInv
<1> DEFINE s == plan[p].raise
           i == plan[p].inx
           f == timeline[s]
<1>1. /\ UNCHANGED <<mstime, time, lasttime, checked, plan, scan, expiring, due, fired, backs>>
      /\ Made' = Made /\ (Scanning' <=> Scanning)
      /\ stopped' = stopped \cup ({p} \ fired)
      /\ timeline' = Cancelled(p)
  BY DEF Cancel, clock, Scanning, Made
<1>2. s \in Slot /\ i \in Made /\ Made \subseteq Nat \ {0} /\ DOMAIN f \subseteq Made
  BY Numbers DEF TypeOK
<1>3. \/ DOMAIN f = {} /\ timeline' = timeline
      \/ /\ DOMAIN f # {} /\ DOMAIN timeline' = Slot
         /\ DOMAIN timeline'[s] = DOMAIN f \cup {i} /\ timeline'[s][i] = NullFunc
         /\ \A x \in DOMAIN f \ {i} : timeline'[s][x] = f[x]
         /\ \A r \in Slot \ {s} : timeline'[r] = timeline[r]
  <2>1. CASE DOMAIN f = {}
    BY <2>1, <1>1 DEF Cancelled
  <2>2. CASE DOMAIN f # {}
    <3>1. timeline' = [timeline EXCEPT ![s] = Put(f, i, NullFunc)]
      BY <2>2, <1>1 DEF Cancelled
    <3>2. /\ DOMAIN Put(f, i, NullFunc) = DOMAIN f \cup {i} /\ Put(f, i, NullFunc)[i] = NullFunc
          /\ \A x \in DOMAIN f \ {i} : Put(f, i, NullFunc)[x] = f[x]
      BY DEF Put
    <3> HIDE DEF f, s, i
    <3> QED BY <2>2, <3>1, <3>2, <1>2 DEF TypeOK
  <2> QED BY <2>1, <2>2
<1> HIDE DEF s, i, f
<1>4. \A r \in Slot : /\ DOMAIN timeline[r] \subseteq DOMAIN timeline'[r]
                      /\ \A x \in DOMAIN timeline'[r] : timeline'[r][x] # NullFunc =>
                            x \in DOMAIN timeline[r] /\ timeline'[r][x] = timeline[r][x]
  BY <1>2, <1>3 DEF f
<1>5. \A r \in Slot : /\ DOMAIN timeline'[r] \subseteq Made
                      /\ \A x \in DOMAIN timeline'[r] : timeline'[r][x] \in Made \cup {NullFunc}
  <2> TAKE r \in Slot
  <2>1. DOMAIN timeline'[r] \subseteq DOMAIN timeline[r] \cup {i}
    BY <1>3 DEF f
  <2> QED BY <1>2, <1>4, <2>1 DEF TypeOK
<1>6. DOMAIN timeline' = Slot
  BY <1>3 DEF TypeOK
<1>7. IndexInv'
  <2>1. \A r \in Slot : DOMAIN timeline'[r] = {} \/ 1 \in DOMAIN timeline'[r]
    BY <1>3, <1>4 DEF IndexInv, f
  <2> QED BY <1>1, <2>1 DEF IndexInv
<1>8. ClockInv' /\ DueInv'
  BY <1>1 DEF ClockInv, DueInv
<1>9. PlaceInv'
  <2> SUFFICES ASSUME NEW r \in Slot, NEW x \in DOMAIN timeline'[r], timeline'[r][x] # NullFunc
               PROVE  /\ plan[timeline'[r][x]].raise = r
                      /\ timeline'[r][x] \in fired => Scanning /\ r = scan.at /\ x <= scan.j
                      /\ \A y \in DOMAIN timeline'[r] : timeline'[r][y] = timeline'[r][x] => x = y
    BY <1>1 DEF PlaceInv
  <2>1. x \in DOMAIN timeline[r] /\ timeline'[r][x] = timeline[r][x]
    BY <1>4
  <2>2. \A y \in DOMAIN timeline'[r] : timeline'[r][y] = timeline'[r][x] =>
           y \in DOMAIN timeline[r] /\ timeline[r][y] = timeline[r][x]
    BY <1>4, <2>1
  <2> QED BY <2>1, <2>2 DEF PlaceInv
<1>10. ASSUME backs = 0 PROVE OrderInv'
  <2>1. Kept(p)
    BY <1>10 DEF OrderInv
  <2>2. DOMAIN f = {} \/ i \in DOMAIN f
    BY <2>1 DEF Kept, f, s, i
  <2>3. \A r \in Slot : DOMAIN timeline'[r] = DOMAIN timeline[r]
    BY <2>2, <1>3 DEF f
  <2>4. Dense' /\ Covered'
    <3>1. Scanning => scan.at \in Slot
      BY DEF TypeOK
    <3> QED BY <1>1, <1>10, <2>3, <3>1 DEF OrderInv, Dense, Covered
  <2>5. OwnIndex' /\ InxRight'
    BY <1>1, <1>4, <1>10 DEF OrderInv, OwnIndex, InxRight
  <2>6. \A q \in Made : Kept(q)'
    <3> TAKE q \in Made
    <3>1. Kept(q) /\ plan[q].raise \in Slot
      BY <1>10 DEF OrderInv, TypeOK
    <3>2. CASE q = p
      <4>1. CASE DOMAIN f = {}
        BY <1>1, <1>3, <3>1, <3>2, <4>1 DEF Kept, f, s
      <4>2. CASE DOMAIN f # {}
        BY <1>1, <1>3, <2>2, <3>1, <3>2, <4>2 DEF Kept, f, s, i
      <4> QED BY <4>1, <4>2
    <3>3. CASE q # p
      <4>1. q \in stopped' <=> q \in stopped
        BY <1>1, <3>3
      <4>2. CASE plan[q].raise = s
        <5>1. plan[q].inx # i
          BY <3>3, <4>2, <1>10 DEF OrderInv, OwnIndex, s, i
        <5>2. CASE DOMAIN f = {}
          BY <1>1, <1>3, <3>1, <4>1, <4>2, <5>2 DEF Kept, f
        <5>3. CASE DOMAIN f # {}
          <6>1. plan[q].inx \in DOMAIN f /\ timeline'[s][plan[q].inx] = f[plan[q].inx] /\ DOMAIN timeline'[s] # {}
            BY <1>3, <3>1, <4>2, <5>1, <5>3 DEF Kept, f
          <6> QED BY <1>1, <2>3, <1>2, <3>1, <4>1, <4>2, <5>3, <6>1 DEF Kept, f
        <5> QED BY <5>2, <5>3
      <4>3. CASE plan[q].raise # s
        <5>1. timeline'[plan[q].raise] = timeline[plan[q].raise]
          BY <1>3, <3>1, <4>3
        <5> QED BY <1>1, <3>1, <4>1, <5>1 DEF Kept
      <4> QED BY <4>2, <4>3
    <3> QED BY <3>2, <3>3
  <2>7. ASSUME NEW q \in Made \ (fired \cup stopped'), due[q] > 0 PROVE Ahead(q)'
    BY <1>1, <1>10, <2>7 DEF OrderInv, Ahead, Reached
  <2> QED BY <1>1, <2>4, <2>5, <2>6, <2>7 DEF OrderInv
<1> QED BY <1>1, <1>5, <1>6, <1>7, <1>8, <1>9, <1>10

LEMMA CreatePlanInv ==
    ASSUME TimeAssumption, TimeInv, CreatePlan
    PROVE  TimeInv'
<1>1. PICK p \in Plan, d \in Delays : Create(p, d, Script)
  BY DEF CreatePlan
<1>2. UNCHANGED <<mstime, time, lasttime, checked, scan, expiring, fired, backs, data, stopped, retaken>>
  BY <1>1 DEF CreatePlan, Create, clock
<1>3. /\ Made' = Made \cup {p} /\ p \notin Made /\ \A q \in Made : plan'[q] = plan[q]
      /\ plan' \in [Made' -> [raise : Slot, inx : Made', use : Key \cup {Script}]]
      /\ due' \in [Made' -> Nat] /\ DOMAIN timeline' = Slot
      /\ \A s \in Slot : /\ DOMAIN timeline'[s] \subseteq Made'
                         /\ \A x \in DOMAIN timeline'[s] : timeline'[s][x] \in Made' \cup {NullFunc}
      /\ IndexInv' /\ ClockInv' /\ PlaceInv' /\ DueInv' /\ (backs = 0 => OrderInv')
  BY <1>1, <1>2, CreateStep
<1>4. TypeOK'
  BY <1>2, <1>3 DEF TimeInv, TypeOK
<1>5. ItemInv'
  BY <1>2, <1>3 DEF TimeInv, TypeOK, ItemInv
<1>6. plan'[p].use = Script
  BY <1>1, <1>2, CreateStep
<1>7. backs = 0 => KeepInv'
  BY <1>2, <1>3, <1>6, TimeAssumption DEF TimeInv, TypeOK, KeepInv, TimeAssumption
<1> QED BY <1>2, <1>3, <1>4, <1>5, <1>7 DEF TimeInv

LEMMA AssignItemInv ==
    ASSUME TimeAssumption, TimeInv, NEW k \in Key, AssignItem(k)
    PROVE  TimeInv'
<1>1. PICK p \in Plan, d \in Delays : Create(p, d, k) /\ data' = [data EXCEPT ![k] = p]
  BY DEF AssignItem
<1>2. UNCHANGED <<mstime, time, lasttime, checked, scan, expiring, fired, backs, stopped>>
  BY <1>1 DEF AssignItem, Create, clock
<1>3. retaken' \subseteq Key
  BY DEF AssignItem, TimeInv, TypeOK
<1>4. /\ Made' = Made \cup {p} /\ p \notin Made /\ (\A q \in Made : plan'[q] = plan[q]) /\ plan'[p].use = k
      /\ plan' \in [Made' -> [raise : Slot, inx : Made', use : Key \cup {Script}]]
      /\ due' \in [Made' -> Nat] /\ DOMAIN timeline' = Slot
      /\ \A s \in Slot : /\ DOMAIN timeline'[s] \subseteq Made'
                         /\ \A x \in DOMAIN timeline'[s] : timeline'[s][x] \in Made' \cup {NullFunc}
      /\ IndexInv' /\ ClockInv' /\ PlaceInv' /\ DueInv' /\ (backs = 0 => OrderInv')
  BY <1>1, <1>2, CreateStep
<1>5. data' \in [Key -> Made' \cup {0}] /\ data'[k] = p /\ \A l \in Key \ {k} : data'[l] = data[l]
  BY <1>1, <1>4 DEF TimeInv, TypeOK
<1>6. TypeOK'
  BY <1>2, <1>3, <1>4, <1>5 DEF TimeInv, TypeOK
<1>7. ItemInv'
  <2> SUFFICES ASSUME NEW l \in Key, data'[l] # 0
               PROVE  /\ plan'[data'[l]].use = l /\ data'[l] \notin stopped
                      /\ data'[l] \in fired => l \in expiring
    BY <1>2 DEF ItemInv
  <2>1. CASE l = k
    BY <2>1, <1>4, <1>5 DEF TimeInv, TypeOK
  <2>2. CASE l # k
    BY <2>2, <1>4, <1>5 DEF TimeInv, TypeOK, ItemInv
  <2> QED BY <2>1, <2>2
<1>8. ASSUME backs = 0 PROVE KeepInv'
  <2>1. KeepInv
    BY <1>8 DEF TimeInv
  <2>2. retaken \subseteq retaken' /\ (k \notin retaken' => data[k] = 0 /\ k \notin expiring)
    BY DEF AssignItem
  <2>3. p \notin fired \cup stopped /\ p # 0
    BY <1>4, TimeAssumption, Numbers DEF TimeInv, TypeOK
  <2>4. ASSUME NEW q \in Made' \ (fired \cup stopped), plan'[q].use \in Key \ retaken'
        PROVE  data'[plan'[q].use] = q
    <3>1. CASE q = p
      BY <3>1, <1>4, <1>5
    <3>2. CASE q \in Made
      <4>1. data[plan[q].use] = q /\ plan'[q] = plan[q] /\ q # 0
        BY <1>4, <2>1, <2>2, <2>4, <3>2, TimeAssumption, Numbers DEF KeepInv, TimeInv, TypeOK
      <4>2. plan[q].use # k
        BY <2>2, <2>4, <4>1
      <4> QED BY <1>5, <2>4, <4>1, <4>2
    <3> QED BY <3>1, <3>2, <1>4
  <2>5. ASSUME NEW l \in expiring \ retaken', data'[l] # 0 PROVE data'[l] \in fired
    <3>1. l # k /\ l \in Key
      BY <2>2, <2>5 DEF TimeInv, TypeOK
    <3> QED BY <1>5, <2>1, <2>2, <2>5, <3>1 DEF KeepInv
  <2> QED BY <1>2, <2>4, <2>5 DEF KeepInv
<1> QED BY <1>2, <1>4, <1>6, <1>7, <1>8 DEF TimeInv

LEMMA CancelPlanInv ==
    ASSUME TimeAssumption, TimeInv, CancelPlan
    PROVE  TimeInv'
<1>1. PICK p \in Made : plan[p].use = Script /\ Cancel(p)
  BY DEF CancelPlan
<1>2. /\ UNCHANGED <<mstime, time, lasttime, checked, plan, scan, expiring, due, fired, backs, data, retaken>>
      /\ stopped' = stopped \cup ({p} \ fired)
  BY <1>1 DEF CancelPlan, Cancel, clock
<1>3. TypeOK'
  BY <1>1, <1>2, CancelStep DEF TimeInv, TypeOK, Made
<1>4. ItemInv'
  BY <1>1, <1>2, TimeAssumption DEF TimeInv, ItemInv, TimeAssumption
<1>5. backs = 0 => KeepInv'
  BY <1>1, <1>2, CancelStep DEF TimeInv, KeepInv
<1> QED BY <1>1, <1>2, <1>3, <1>4, <1>5, CancelStep DEF TimeInv

LEMMA DeleteByScriptInv ==
    ASSUME TimeAssumption, TimeInv, NEW k \in Key, DeleteByScript(k)
    PROVE  TimeInv'
<1>1. data[k] \in Made /\ data[k] # 0 /\ Cancel(data[k]) /\ data' = [data EXCEPT ![k] = 0] /\ retaken' = retaken
  BY DEF DeleteByScript, DelItem, TimeInv, TypeOK
<1>2. /\ UNCHANGED <<mstime, time, lasttime, checked, plan, scan, expiring, due, fired, backs>>
      /\ stopped' = stopped \cup ({data[k]} \ fired)
  BY <1>1 DEF Cancel, clock
<1>3. data' \in [Key -> Made \cup {0}] /\ data'[k] = 0 /\ \A l \in Key \ {k} : data'[l] = data[l]
  BY <1>1 DEF TimeInv, TypeOK
<1>4. TypeOK'
  BY <1>1, <1>2, <1>3, CancelStep DEF TimeInv, TypeOK, Made
<1>5. ItemInv'
  <2> SUFFICES ASSUME NEW l \in Key, data'[l] # 0
               PROVE  /\ plan[data'[l]].use = l /\ data'[l] \notin stopped'
                      /\ data'[l] \in fired => l \in expiring
    BY <1>2 DEF ItemInv
  <2>1. l # k /\ data'[l] = data[l]
    BY <1>3
  <2>2. data[l] # data[k]
    BY <1>1, <2>1 DEF TimeInv, ItemInv
  <2> QED BY <1>2, <2>1, <2>2 DEF TimeInv, ItemInv
<1>6. ASSUME backs = 0 PROVE KeepInv'
  <2>1. KeepInv /\ Made' = Made
    BY <1>1, <1>6, CancelStep DEF TimeInv
  <2>2. ASSUME NEW q \in Made \ (fired \cup stopped'), plan[q].use \in Key \ retaken
        PROVE  data'[plan[q].use] = q
    <3>1. data[plan[q].use] = q /\ q # data[k]
      BY <1>2, <2>1, <2>2 DEF KeepInv
    <3> QED BY <1>3, <2>2, <3>1
  <2>3. ASSUME NEW l \in expiring \ retaken, data'[l] # 0 PROVE data'[l] \in fired
    <3>1. l # k /\ l \in Key
      BY <1>3, <2>3 DEF TimeInv, TypeOK
    <3> QED BY <1>3, <2>1, <2>3, <3>1 DEF KeepInv
  <2> QED BY <1>1, <1>2, <2>1, <2>2, <2>3 DEF KeepInv
<1> QED BY <1>1, <1>2, <1>4, <1>5, <1>6, CancelStep DEF TimeInv

-------------------------------------------------------------------------------
(* The theorems.                                                                *)

LEMMA StepInv ==
    ASSUME TimeAssumption, TimeInv, [Next]_vars
    PROVE  TimeInv'
<1>1. CASE UNCHANGED vars
  BY <1>1 DEF vars, clock, ghosts, TimeInv, TypeOK, IndexInv, ClockInv, PlaceInv, DueInv, ItemInv,
     OrderInv, Dense, Covered, OwnIndex, InxRight, Kept, Ahead, Reached, Scanning, Made, KeepInv
<1>2. CASE \E t \in Time : Frame(t) \/ Reload(t)
  BY <1>2, FrameInv, ReloadInv
<1>3. CASE Check
  BY <1>3, CallNextInv, DeleteItemInv, SlotDoneInv DEF Check
<1>4. CASE CreatePlan \/ CancelPlan
  BY <1>4, CreatePlanInv, CancelPlanInv
<1>5. CASE \E k \in Key : AssignItem(k) \/ DeleteByScript(k)
  BY <1>5, AssignItemInv, DeleteByScriptInv
<1> QED BY <1>1, <1>2, <1>3, <1>4, <1>5 DEF Next

\* The inductive invariant holds for every grid length, delays and bounds.
THEOREM TimeInvariance == Spec => []TimeInv
  BY InitInv, StepInv, TimeAssumption, PTL DEF Spec

\* Types of all variables, and timelib's tables hold plans only.
THEOREM TimeTypeCorrect == Spec => []TypeOK
  BY TimeInvariance, PTL DEF TimeInv

\* What the scan calls has neither run nor, without a clock set back, been cancelled.
LEMMA CalledOnce ==
    ASSUME TimeInv, NEW p \in Made, Calls(p)
    PROVE  p \notin fired /\ (p \in stopped => backs > 0)
<1>1. /\ scan.at \in Slot /\ scan.j + 1 \in DOMAIN timeline[scan.at]
      /\ timeline[scan.at][scan.j + 1] = p /\ p # NullFunc /\ p \in Nat
  BY TimeAssumption, Numbers DEF Calls, TimeInv, TypeOK, NullFunc
<1>2. p \notin fired
  BY <1>1, TimeAssumption, Numbers DEF TimeInv, PlaceInv
<1>3. ASSUME p \in stopped, backs = 0 PROVE FALSE
  <2>1. plan[p].raise = scan.at /\ plan[p].inx = scan.j + 1
    BY <1>1, <1>3 DEF TimeInv, PlaceInv, OrderInv, InxRight
  <2>2. Kept(p)
    BY <1>3 DEF TimeInv, OrderInv
  <2> QED BY <1>1, <1>3, <2>1, <2>2 DEF Kept
<1>4. backs \in Nat
  BY TimeAssumption DEF TimeInv, TypeOK, TimeAssumption
<1> QED BY <1>2, <1>3, <1>4

\* It is due within a grid length, and was not made before the first check.
LEMMA CalledInTime ==
    ASSUME TimeInv, NEW p \in Made, Calls(p)
    PROVE  due[p] > 0 /\ checked + GridLen > due[p]
<1>1. /\ scan.at \in Slot /\ scan.j + 1 \in DOMAIN timeline[scan.at] /\ Scanning
      /\ timeline[scan.at][scan.j + 1] = p /\ p # NullFunc /\ due[p] \in Nat
  BY TimeAssumption, Numbers DEF Calls, CallNext, TimeInv, TypeOK, NullFunc
<1>2. plan[p].raise = scan.at /\ p \notin fired
  BY <1>1, TimeAssumption, Numbers DEF TimeInv, PlaceInv
<1>3. Ceil(Epoch) <= lasttime /\ lasttime <= scan.at /\ scan.at <= time
  BY <1>1 DEF TimeInv, ClockInv
<1>4. due[p] > 0
  BY <1>1, <1>2, <1>3, TimeAssumption, Numbers DEF TimeInv, DueInv
<1>5. checked \in Nat /\ time = Ceil(checked) /\ Ceil(due[p]) <= scan.at
  BY <1>2, <1>4, TimeAssumption, Numbers DEF TimeInv, DueInv, ClockInv
<1>6. Ceil(due[p]) <= Ceil(checked)
  BY <1>1, <1>3, <1>5, CeilBounds, TimeAssumption, Numbers DEF TimeInv
<1> QED BY <1>1, <1>4, <1>5, <1>6, CeilEarly, TimeAssumption

\* The scan runs no plan twice and none that was cancelled, whatever scripts do
\* in its callbacks (timelib.lua:22, :47).
THEOREM PlansRunOnce == Spec => RunsOnce
<1>1. TimeInv => [\A p \in Made : Calls(p) => p \notin fired /\ (p \in stopped => backs > 0)]_vars
  BY CalledOnce
<1> QED BY <1>1, TimeInvariance, PTL DEF RunsOnce

\* A plan runs less than one grid early, and one made before the first check never
\* (timelib.lua:18, :37).
THEOREM PlansNotEarly == Spec => NotEarly
<1>1. TimeInv => [\A p \in Made : Calls(p) => due[p] > 0 /\ checked + GridLen > due[p]]_vars
  BY CalledInTime
<1> QED BY <1>1, TimeInvariance, PTL DEF NotEarly

\* No plan is forgotten: it waits ahead of the scan until it is run or cancelled.
THEOREM NoPlanLost == Spec => []NoneLost
<1>1. TimeInv => NoneLost
  <2> SUFFICES ASSUME TimeInv, backs = 0, NEW p \in Made \ (fired \cup stopped)
               PROVE  /\ plan[p].inx \in DOMAIN timeline[plan[p].raise]
                      /\ timeline[plan[p].raise][plan[p].inx] = p
                      /\ due[p] > 0 =>
                          /\ ~Reached(plan[p].raise)
                          /\ Scanning /\ plan[p].raise = scan.at => scan.j < plan[p].inx /\ plan[p].inx <= scan.n
    BY DEF NoneLost
  <2>1. OrderInv
    BY DEF TimeInv
  <2>2. plan[p].inx \in DOMAIN timeline[plan[p].raise] /\ timeline[plan[p].raise][plan[p].inx] = p
    BY <2>1 DEF OrderInv, Kept
  <2>3. due[p] > 0 => Ahead(p)
    BY <2>1 DEF OrderInv
  <2> QED BY <2>1, <2>2, <2>3 DEF OrderInv, Covered, Ahead
<1> QED BY <1>1, TimeInvariance, PTL

\* An item's deletion is still to come: no item is forgotten in a timeout table.
THEOREM ItemsExpire == Spec => []ItemsWillExpire
<1>1. TimeInv => ItemsWillExpire
  <2> SUFFICES ASSUME TimeInv, backs = 0, NEW k \in Key, data[k] # 0, k \notin expiring
               PROVE  \E x \in DOMAIN timeline[plan[data[k]].raise] :
                         timeline[plan[data[k]].raise][x] = data[k]
    BY DEF ItemsWillExpire
  <2>1. data[k] \in Made /\ data[k] \notin fired \cup stopped
    BY DEF TimeInv, TypeOK, ItemInv
  <2>2. Kept(data[k])
    BY <2>1 DEF TimeInv, OrderInv
  <2> QED BY <2>1, <2>2 DEF Kept
<1> QED BY <1>1, TimeInvariance, PTL

\* An item goes before its time only if its key was taken over (timelib.lua:94).
THEOREM ItemsKept == Spec => ItemKept
<1>1. ASSUME TimeInv
      PROVE  \A k \in Key \ retaken :
                backs = 0 /\ DeleteItem /\ k \in expiring /\ data[k] # 0 => data[k] \in fired
  BY <1>1 DEF TimeInv, KeepInv
<1>2. TimeInv => [\A k \in Key \ retaken :
             backs = 0 /\ DeleteItem /\ k \in expiring /\ data[k] # 0 => data[k] \in fired]_vars
  BY <1>1
<1> QED BY <1>2, TimeInvariance, PTL DEF ItemKept

-------------------------------------------------------------------------------
(* TimeLine implements Timers.                                                  *)

\* The plans that have not run, with their times.
ToCome == [p \in Made \ fired |-> due[p]]
TimerStep == [Timer!Next]_Timer!timers

\* The steps that neither check the time nor make, run or cancel a plan.
LEMMA TimerFrame ==
    ASSUME UNCHANGED <<checked, Made, due, fired, stopped>>, backs' = backs
    PROVE  TimerStep
BY DEF TimerStep, Timer!timers

\* The clock goes on from the last check, but for one that was set back.
LEMMA TimerChecks ==
    ASSUME TimeAssumption, TimeInv, NEW t \in Time, Frame(t)
    PROVE  TimerStep
<1>1. /\ checked' = t /\ t >= mstime /\ UNCHANGED <<Made, due, fired, stopped, backs>>
  BY DEF Frame, ghosts, Made
<1>2. /\ checked \in Nat /\ mstime \in Nat /\ t \in Nat /\ t > 0 /\ backs \in Nat
  BY TimeAssumption, Numbers DEF TimeInv, TypeOK, TimeAssumption
<1>3. checked <= checked' \/ backs > 0
  BY <1>1, <1>2 DEF TimeInv, ClockInv
<1>4. Timer!Check
  BY <1>1, <1>2, <1>3 DEF Timer!Check
<1> QED BY <1>4 DEF TimerStep, Timer!Next

\* A plan is made: it was not there, and its time is after the last check.
LEMMA TimerPlans ==
    ASSUME TimeAssumption, TimeInv, NEW p \in Plan, NEW d \in Delays, NEW u \in Key \cup {Script},
           Create(p, d, u), UNCHANGED stopped
    PROVE  TimerStep
<1>1. /\ Made' = Made \cup {p} /\ p \notin Made /\ UNCHANGED <<checked, fired, backs>>
      /\ due' = Put(due, p, IF checked = 0 THEN 0 ELSE checked + d)
  BY CreateStep DEF Create, clock
<1>2. /\ fired \subseteq Made /\ DOMAIN due = Made
      /\ checked \in Nat /\ d \in Nat \ {0}
  BY TimeAssumption, Numbers DEF TimeInv, TypeOK, TimeAssumption
<1>3. DOMAIN ToCome = Made \ fired /\ DOMAIN ToCome' = (DOMAIN ToCome) \cup {p}
  BY <1>1, <1>2 DEF ToCome
<1>4. /\ due'[p] = (IF checked = 0 THEN 0 ELSE checked + d)
      /\ \A q \in Made : due'[q] = due[q]
  BY <1>1, <1>2 DEF Put
<1>5. ToCome' = [q \in (DOMAIN ToCome) \cup {p} |-> IF q = p THEN ToCome'[p] ELSE ToCome[q]]
  <2>1. ToCome' = [q \in (DOMAIN ToCome) \cup {p} |-> due'[q]]
    BY <1>1, <1>3 DEF ToCome
  <2>2. \A q \in (DOMAIN ToCome) \cup {p} : due'[q] = IF q = p THEN ToCome'[p] ELSE ToCome[q]
    BY <1>1, <1>3, <1>4, <2>1 DEF ToCome
  <2> QED BY <2>1, <2>2
<1>6. ToCome'[p] = due'[p] /\ p \in DOMAIN ToCome'
  BY <1>1, <1>2, <1>3 DEF ToCome
<1>7. Timer!Plan(p)
  <2>1. p \notin (DOMAIN ToCome) \cup fired
    BY <1>1, <1>2, <1>3
  <2>2. IF checked = 0 THEN ToCome'[p] = 0 ELSE ToCome'[p] > checked
    BY <1>2, <1>4, <1>6
  <2>3. UNCHANGED <<checked, fired, stopped>> /\ (backs > 0)' = (backs > 0)
    BY <1>1
  <2> QED BY <1>5, <2>1, <2>2, <2>3 DEF Timer!Plan, ToCome
<1> QED BY <1>6, <1>7 DEF TimerStep, Timer!Next, ToCome

\* The scan calls a plan that has not run, in its time, and not a cancelled one but
\* for a clock set back.
LEMMA TimerRuns ==
    ASSUME TimeAssumption, TimeInv, CallNext
    PROVE  TimerStep
<1> DEFINE j == scan.j + 1
           tbl == timeline[scan.at]
           p == IF j \in DOMAIN tbl THEN tbl[j] ELSE NullFunc
<1>1. UNCHANGED <<checked, stopped, backs, plan>> /\ Made' = Made /\ scan.at \in Slot
  BY TimeAssumption DEF CallNext, clock, Made, TimeInv, TypeOK
<1>2. CASE p = NullFunc
  <2>1. UNCHANGED <<due, fired>>
    BY <1>2 DEF CallNext
  <2> QED BY <1>1, <2>1, TimerFrame
<1>3. CASE p # NullFunc
  <2>a. j \in DOMAIN tbl /\ tbl[j] = p /\ p \in Made
    BY <1>1, <1>3 DEF TimeInv, TypeOK
  <2> PICK q \in Made : q = p
    BY <2>a
  <2>1. j \in DOMAIN tbl /\ tbl[j] = q
    BY <2>a
  <2>2. fired' = fired \cup {q} /\ due' = [due EXCEPT ![q] = 0]
    BY <1>3 DEF CallNext
  <2> HIDE DEF p
  <2>3. Calls(q)
    BY <2>1 DEF Calls
  <2>4. /\ q \notin fired /\ (q \notin stopped \/ backs > 0)
        /\ due[q] > 0 /\ checked + GridLen > due[q]
    BY <2>3, CalledOnce, CalledInTime
  <2>5. DOMAIN due = Made
    BY DEF TimeInv, TypeOK
  <2>6. q \in DOMAIN ToCome /\ ToCome[q] = due[q]
    BY <2>4 DEF ToCome
  <2>7. ToCome' = [r \in (DOMAIN ToCome) \ {q} |-> ToCome[r]]
    <3>1. Made' \ fired' = (DOMAIN ToCome) \ {q}
      BY <1>1, <2>2 DEF ToCome
    <3>2. \A r \in (DOMAIN ToCome) \ {q} : due'[r] = ToCome[r]
      BY <2>2, <2>5 DEF ToCome
    <3>3. ToCome' = [r \in (DOMAIN ToCome) \ {q} |-> due'[r]]
      BY <3>1 DEF ToCome
    <3> QED BY <3>2, <3>3
  <2>8. Timer!Run(q)
    <3>1. 0 < ToCome[q] /\ ToCome[q] < checked + GridLen
      <4>1. checked + GridLen > due[q] => due[q] < checked + GridLen
        OBVIOUS
      <4>2. due[q] > 0 => 0 < due[q]
        OBVIOUS
      <4> QED BY <2>4, <2>6, <4>1, <4>2
    <3>2. UNCHANGED <<checked, stopped>> /\ (backs > 0)' = (backs > 0)
      BY <1>1
    <3> QED BY <2>2, <2>4, <2>7, <3>1, <3>2 DEF Timer!Run, ToCome
  <2>9. \E r \in DOMAIN ToCome : Timer!Run(r)
    BY <2>6, <2>8
  <2>10. Timer!Next
    BY <2>9 DEF Timer!Next, ToCome
  <2> QED BY <2>10 DEF TimerStep
<1> QED BY <1>2, <1>3

\* A handle's cancel stops a plan that has not run, and does nothing to one that has.
LEMMA TimerStops ==
    ASSUME TimeInv, NEW p \in Made, Cancel(p)
    PROVE  TimerStep
<1>1. /\ UNCHANGED <<checked, due, fired, backs>> /\ Made' = Made
      /\ stopped' = stopped \cup ({p} \ fired)
  BY DEF Cancel, clock, Made
<1>2. CASE p \in fired
  <2>1. stopped' = stopped
    BY <1>1, <1>2
  <2> QED BY <1>1, <2>1, TimerFrame
<1>3. CASE p \notin fired
  <2>1. stopped' = stopped \cup {p} /\ p \in DOMAIN ToCome /\ ToCome' = ToCome
    BY <1>1, <1>3 DEF ToCome
  <2>2. Timer!Stop(p)
    BY <1>1, <2>1 DEF Timer!Stop, ToCome
  <2> QED BY <2>1, <2>2 DEF TimerStep, Timer!Next, ToCome
<1> QED BY <1>2, <1>3

\* To the scripts timelib is Timers: what is planned runs once at most and in its time,
\* whatever the callbacks plan and cancel, and, until a reload finds the clock set back,
\* not after it was cancelled (timelib.lua:18, :22, :47).
THEOREM TimersKept == Spec => ImplementsTimers
<1>1. ASSUME Init PROVE Timer!Init
  <2>1. ToCome = [p \in {} |-> 0]
    BY <1>1 DEF Init, ToCome, Made
  <2> QED BY <1>1, <2>1 DEF Init, Timer!Init, ToCome
<1>2. ASSUME TimeInv, [Next]_vars PROVE TimerStep
  <2>1. CASE \E t \in Time : Frame(t)
    BY <1>2, <2>1, TimerChecks, TimeAssumption
  <2>2. CASE \E t \in Time : Reload(t)
    <3>1. PICK t \in Time : Reload(t)
      BY <2>2
    <3>2. UNCHANGED <<checked, due, fired, stopped, Made>> /\ backs \in Nat
      BY <1>2, <3>1 DEF Reload, Made, TimeInv, TypeOK, TimeAssumption
    <3>3. CASE backs' = backs
      BY <3>2, <3>3, TimerFrame
    <3>4. CASE backs' = backs + 1
      <4>1. (backs > 0)' = TRUE
        BY <3>2, <3>4
      <4> QED BY <3>2, <4>1 DEF TimerStep, Timer!Next, Timer!SetBack
    <3> QED BY <3>1, <3>3, <3>4 DEF Reload
  <2>3. CASE CallNext
    BY <1>2, <2>3, TimerRuns, TimeAssumption
  <2>4. CASE DeleteItem \/ SlotDone \/ UNCHANGED vars
    <3>1. UNCHANGED <<checked, due, fired, stopped, Made, backs>>
      BY <2>4 DEF DeleteItem, SlotDone, vars, clock, ghosts, Made
    <3> QED BY <3>1, TimerFrame
  <2>5. CASE CreatePlan \/ \E k \in Key : AssignItem(k)
    <3>1. PICK p \in Plan, d \in Delays, u \in Key \cup {Script} : Create(p, d, u)
      BY <2>5 DEF CreatePlan, AssignItem
    <3>2. UNCHANGED stopped
      BY <2>5 DEF CreatePlan, AssignItem
    <3> QED BY <1>2, <3>1, <3>2, TimerPlans, TimeAssumption
  <2>6. CASE CancelPlan \/ \E k \in Key : DeleteByScript(k)
    <3>1. PICK p \in Made : Cancel(p)
      BY <2>6 DEF CancelPlan, DeleteByScript, DelItem, Cancel
    <3> QED BY <1>2, <3>1, TimerStops
  <2> QED BY <1>2, <2>1, <2>2, <2>3, <2>4, <2>5, <2>6 DEF Next, Check
<1>3. TimeInv /\ [Next]_vars => TimerStep
  BY <1>2
<1> QED BY <1>1, <1>3, TimeInvariance, PTL DEF Spec, ImplementsTimers, Timer!Spec, TimerStep

===============================================================================
