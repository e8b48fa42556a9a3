---------------------------- MODULE ClientNetProofs ----------------------------
(* Theorems about the client's network part: however deep scripts call it from  *)
(* its own callbacks, whatever they listen with and raise.                      *)
EXTENDS ClientNet, SequenceTheorems, TLAPS

-------------------------------------------------------------------------------
(* The inductive invariant.                                                    *)

\* Calls under way that will set a plan or connect again, and one that will receive.
Arranging(s) == \E i \in 1..Len(s) : s[i].at = "fail" \/ (s[i].at = "close" /\ s[i].auto)
Joining(s) == \E i \in 1..Len(s) : s[i].at = "up"

\* A client that is to be connected has something to come, or a call that arranges it.
StuckInv ==
    wish = "connect" /\ retry /\ ~raised =>
        \/ plans # {}
        \/ tcp # "none" /\ (receivers # {} \/ Joining(stack))
        \/ Arranging(stack)

\* One that is to be down is, and no call under way connects.
DownInv ==
    wish = "disconnect" /\ ~undone =>
        /\ tcp = "none" /\ receivers = {} /\ plans = {}
        /\ \A i \in 1..Len(stack) : ~Connecting(stack[i])

\* The cache ends as the connection does, until one ended within a packet.
CutInv ==
    ~cutOff => /\ ~spoiled
               /\ half = IF tcp \in {"up", "dead"} /\ mid THEN gen ELSE 0

NetInv == TypeOK /\ NoneUnseen /\ StuckInv /\ DownInv /\ CutInv

-------------------------------------------------------------------------------
(* The stack of calls.                                                         *)

\* The same calls, further on or with other listeners to call.
Like(s, t) ==
    /\ t \in Seq(Frame) /\ Len(t) = Len(s)
    /\ \A i \in 1..Len(s) : t[i].at = s[i].at /\ t[i].auto = s[i].auto

\* Frames are named by their fields.
LEMMA FrameFields ==
    ASSUME NEW f \in Frame
    PROVE  /\ f.at \in Event \cup {"handler"} /\ f.todo \subseteq Listener
           /\ f.in \in BOOLEAN /\ f.ours \in BOOLEAN /\ f.auto \in BOOLEAN
           /\ f.left \in 0..MaxWhole
BY DEF Frame

LEMMA Rewritten ==
    ASSUME NEW s \in Seq(Frame), NEW t \in [1..Len(s) -> Frame],
           \A i \in 1..Len(s) : t[i].at = s[i].at /\ t[i].auto = s[i].auto
    PROVE  Like(s, t)
<1>1. Len(s) \in Nat
  OBVIOUS
<1>2. t = [i \in 1..Len(s) |-> t[i]] /\ \A i \in 1..Len(s) : t[i] \in Frame
  OBVIOUS
<1>3. t \in Seq(Frame) /\ Len(t) = Len(s)
  BY <1>1, <1>2, SeqDef
<1> QED
  BY <1>3 DEF Like

\* A call that comes on top, and one that ends.
LEMMA Pushed ==
    ASSUME NEW s \in Seq(Frame), NEW f \in Frame
    PROVE  /\ Append(s, f) \in Seq(Frame) /\ Len(Append(s, f)) = Len(s) + 1
           /\ \A i \in 1..Len(s) : Append(s, f)[i] = s[i]
           /\ Append(s, f)[Len(s) + 1] = f
BY AppendProperties

LEMMA Popped ==
    ASSUME NEW s \in Seq(Frame), s # << >>
    PROVE  /\ Len(s) \in Nat \ {0} /\ s[Len(s)] \in Frame
           /\ Front(s) \in Seq(Frame) /\ Len(Front(s)) = Len(s) - 1
           /\ \A i \in 1..(Len(s) - 1) : Front(s)[i] = s[i]
<1>1. Len(s) \in Nat \ {0} /\ s[Len(s)] \in Frame /\ \A i \in 1..Len(s) : s[i] \in Frame
  BY EmptySeq, ElementOfSeq
<1> DEFINE n == Len(s) - 1
<1>2. n \in Nat /\ n \in Int /\ 1 \in Int /\ \A i \in 1..n : s[i] \in Frame
  BY <1>1
<1> HIDE DEF n
<1>3. /\ SubSeq(s, 1, n) \in Seq(Frame)
      /\ Len(SubSeq(s, 1, n)) = IF 1 <= n THEN n - 1 + 1 ELSE 0
      /\ \A i \in 1..(n - 1 + 1) : SubSeq(s, 1, n)[i] = s[1 + i - 1]
  BY <1>2, SubSeqProperties
<1>4. Len(SubSeq(s, 1, n)) = n /\ \A i \in 1..n : SubSeq(s, 1, n)[i] = s[i]
  BY <1>2, <1>3
<1>5. /\ SubSeq(s, 1, Len(s) - 1) \in Seq(Frame)
      /\ Len(SubSeq(s, 1, Len(s) - 1)) = Len(s) - 1
      /\ \A i \in 1..(Len(s) - 1) : SubSeq(s, 1, Len(s) - 1)[i] = s[i]
  BY <1>3, <1>4 DEF n
<1> QED
  BY <1>1, <1>5 DEF Front

\* removeAllEventListenersForEvent leaves the calls as they are.
LEMMA DroppedLike ==
    ASSUME NEW s \in Seq(Frame), NEW es
    PROVE  Like(s, Dropped(s, es))
<1> DEFINE t == Dropped(s, es)
<1>1. DOMAIN s = 1..Len(s) /\ \A i \in 1..Len(s) : s[i] \in Frame
  BY LenProperties, ElementOfSeq
<1>2. \A i \in 1..Len(s) :
         [s[i] EXCEPT !.ours = FALSE] \in Frame /\ [s[i] EXCEPT !.ours = FALSE].at = s[i].at
         /\ [s[i] EXCEPT !.ours = FALSE].auto = s[i].auto
  BY <1>1 DEF Frame
<1>3. t \in [1..Len(s) -> Frame] /\ \A i \in 1..Len(s) : t[i].at = s[i].at /\ t[i].auto = s[i].auto
  BY <1>1, <1>2 DEF Dropped
<1> QED
  BY <1>3, Rewritten

-------------------------------------------------------------------------------
(* Steps that leave the calls as they are.                                     *)

LEMMA LikeStep ==
    ASSUME NetInv, Like(stack, stack'), listeners' \in [Event -> SUBSET Listener],
           UNCHANGED <<tcp, gen, retry, timers, data, wish, undone, raised>>
    PROVE  NetInv'
<1> USE DEF NetInv, timers, data
<1>1. TypeOK'
  BY DEF TypeOK, Like
<1>2. NoneUnseen'
  BY DEF NoneUnseen
<1>3. StuckInv'
  BY DEF StuckInv, Like, Arranging, Joining
<1>4. DownInv'
  BY DEF DownInv, Like, Connecting
<1>5. CutInv'
  BY DEF CutInv
<1> QED
  BY <1>1, <1>2, <1>3, <1>4, <1>5

\* One frame is rewritten.
LEMMA TopLike ==
    ASSUME TypeOK, ~Idle, NEW f \in Frame, f.at = Top.at, f.auto = Top.auto
    PROVE  Like(stack, [stack EXCEPT ![Len(stack)] = f])
<1>1. stack \in Seq(Frame) /\ Len(stack) \in 1..Len(stack)
  BY Popped DEF TypeOK, Idle
<1> QED
  BY <1>1, ExceptSeq DEF Like, Top

LEMMA CallListenerStep == ASSUME NetInv, CallListener PROVE NetInv'
<1>1. TypeOK /\ ~Idle
  BY DEF NetInv, CallListener
<1>2. Top \in Frame
  BY <1>1, Popped DEF Top, TypeOK, Idle
<1>3. PICK l \in Top.todo : stack' = [stack EXCEPT ![Len(stack)].todo = @ \ {l}, ![Len(stack)].in = TRUE]
  BY DEF CallListener
<1> DEFINE f == [Top EXCEPT !.todo = @ \ {l}, !.in = TRUE]
<1>4. f \in Frame /\ f.at = Top.at /\ f.auto = Top.auto
  BY <1>2 DEF Frame
<1>5. stack' = [stack EXCEPT ![Len(stack)] = f]
  BY <1>1, <1>2, <1>3, Popped DEF Top, TypeOK, Idle
<1>6. Like(stack, stack')
  BY <1>1, <1>4, <1>5, TopLike
<1> QED
  BY <1>6, LikeStep DEF CallListener, NetInv, TypeOK

LEMMA ListenerReturnsStep == ASSUME NetInv, ListenerReturns PROVE NetInv'
<1>1. TypeOK /\ ~Idle
  BY DEF NetInv, ListenerReturns
<1>2. Top \in Frame
  BY <1>1, Popped DEF Top, TypeOK, Idle
<1>3. PICK rest \in {Top.todo, {}} :
         stack' = [stack EXCEPT ![Len(stack)].in = FALSE, ![Len(stack)].todo = rest]
  BY DEF ListenerReturns
<1> DEFINE f == [Top EXCEPT !.in = FALSE, !.todo = rest]
<1>4. f \in Frame /\ f.at = Top.at /\ f.auto = Top.auto
  BY <1>2, <1>3 DEF Frame
<1>5. stack' = [stack EXCEPT ![Len(stack)] = f]
  BY <1>1, <1>2, <1>3, Popped DEF Top, TypeOK, Idle
<1>6. Like(stack, stack')
  BY <1>1, <1>4, <1>5, TopLike
<1> QED
  BY <1>6, LikeStep DEF ListenerReturns, NetInv, TypeOK

\* What listeners are added and removed, calls under way go on as they are.
LEMMA ListensStep ==
    ASSUME NetInv, NEW e \in Event, NEW l \in Listener,
           AddEventListener(e, l) \/ RemoveEventListener(e, l)
    PROVE  NetInv'
<1>1. stack \in Seq(Frame) /\ DOMAIN stack = 1..Len(stack) /\ \A i \in 1..Len(stack) : stack[i] \in Frame
  BY LenProperties, ElementOfSeq DEF NetInv, TypeOK
<1>2. listeners' \in [Event -> SUBSET Listener]
  BY DEF NetInv, TypeOK, AddEventListener, RemoveEventListener
<1>3. PICK T \in [1..Len(stack) -> SUBSET Listener] :
         stack' = [i \in 1..Len(stack) |->
                     IF stack[i].at = e /\ stack[i].ours THEN [stack[i] EXCEPT !.todo = T[i]] ELSE stack[i]]
  <2>1. CASE AddEventListener(e, l)
    <3>1. PICK T \in [DOMAIN stack -> SUBSET listeners'[e]] :
             stack' = [i \in DOMAIN stack |->
                         IF stack[i].at = e /\ stack[i].ours THEN [stack[i] EXCEPT !.todo = T[i]] ELSE stack[i]]
      BY <2>1, Zenon DEF AddEventListener
    <3>2. T \in [1..Len(stack) -> SUBSET Listener]
      BY <1>1, <1>2, <3>1
    <3> QED
      BY <1>1, <3>1, <3>2, Zenon
  <2>2. CASE RemoveEventListener(e, l)
    <3> DEFINE U == [i \in 1..Len(stack) |-> stack[i].todo \ {l}]
    <3>1. U \in [1..Len(stack) -> SUBSET Listener]
      BY <1>1, FrameFields
    <3>2. stack' = [i \in 1..Len(stack) |->
                     IF stack[i].at = e /\ stack[i].ours THEN [stack[i] EXCEPT !.todo = U[i]] ELSE stack[i]]
      BY <1>1, <2>2, <3>1 DEF RemoveEventListener
    <3> QED
      BY <3>1, <3>2
  <2> QED
    BY <2>1, <2>2
<1>4. \A i \in 1..Len(stack) :
         /\ [stack[i] EXCEPT !.todo = T[i]] \in Frame
         /\ [stack[i] EXCEPT !.todo = T[i]].at = stack[i].at
         /\ [stack[i] EXCEPT !.todo = T[i]].auto = stack[i].auto
  BY <1>1, <1>3 DEF Frame
<1>5. /\ stack' \in [1..Len(stack) -> Frame]
      /\ \A i \in 1..Len(stack) : stack'[i].at = stack[i].at /\ stack'[i].auto = stack[i].auto
  BY <1>1, <1>3, <1>4
<1>6. Like(stack, stack')
  BY <1>1, <1>5, Rewritten
<1> QED
  BY <1>2, <1>6, LikeStep DEF AddEventListener, RemoveEventListener

-------------------------------------------------------------------------------
(* Calls that end.                                                             *)

\* What is below the top of the stack.
Below(s, t) ==
    /\ t \in Seq(Frame) /\ Len(t) <= Len(s)
    /\ \A i \in 1..Len(t) : t[i] = s[i]

LEMMA FrontBelow ==
    ASSUME NEW s \in Seq(Frame), s # << >>
    PROVE  Below(s, Front(s))
BY Popped DEF Below

LEMMA RaiseStep == ASSUME NetInv, Raise PROVE NetInv'
<1> USE DEF NetInv, timers, data
<1>1. PICK h \in {0} \cup DOMAIN stack : stack' = SubSeq(stack, 1, h)
  BY DEF Raise
<1>2. stack \in Seq(Frame) /\ Len(stack) \in Nat /\ h \in 0..Len(stack) /\ \A i \in 1..h : stack[i] \in Frame
  BY <1>1, LenProperties, ElementOfSeq DEF TypeOK
<1>3. Below(stack, stack')
  BY <1>1, <1>2, SubSeqProperties DEF Below
<1>4. TypeOK'
  BY <1>2, <1>3, NetAssumption DEF TypeOK, Below, Raise
<1>5. NoneUnseen' /\ StuckInv' /\ CutInv'
  BY DEF NoneUnseen, StuckInv, CutInv, Raise
<1>6. DownInv'
  BY <1>2, <1>3 DEF DownInv, Below, Raise, Connecting
<1> QED
  BY <1>4, <1>5, <1>6

LEMMA HandlerReturnsStep == ASSUME NetInv, HandlerReturns PROVE NetInv'
<1> USE DEF NetInv, timers, data
<1>1. stack \in Seq(Frame) /\ stack # << >> /\ Top \in Frame /\ Top.at = "handler" /\ Len(stack) \in Nat
  BY Popped DEF Top, TypeOK, Idle, HandlerReturns
<1>2. CASE Top.left = 0
  <2>1. stack' = Front(stack)
    BY <1>2 DEF HandlerReturns
  <2>2. /\ stack' \in Seq(Frame) /\ Len(stack') = Len(stack) - 1
        /\ \A i \in 1..Len(stack') : stack'[i] = stack[i]
    BY <1>1, <2>1, Popped
  <2>3. TypeOK'
    BY <1>1, <2>2, NetAssumption DEF TypeOK, HandlerReturns
  <2>4. NoneUnseen' /\ CutInv'
    BY DEF NoneUnseen, CutInv, HandlerReturns
  <2>5. \A i \in 1..Len(stack) : i \in 1..Len(stack') \/ stack[i].at = "handler"
    BY <1>1, <2>2 DEF Top
  <2>6. StuckInv'
    BY <2>2, <2>5 DEF StuckInv, HandlerReturns, Arranging, Joining
  <2>7. DownInv'
    BY <1>1, <2>2 DEF DownInv, HandlerReturns, Connecting
  <2> QED
    BY <2>3, <2>4, <2>6, <2>7
<1>3. CASE Top.left # 0
  <2> DEFINE f == [Top EXCEPT !.left = @ - 1]
  <2>1. Top.left - 1 \in 0..MaxWhole
    BY <1>1, <1>3, FrameFields, NetAssumption
  <2>2. f \in Frame /\ f.at = Top.at /\ f.auto = Top.auto
    BY <1>1, <2>1 DEF Frame
  <2>3. stack' = [stack EXCEPT ![Len(stack)].left = @ - 1]
    BY <1>3 DEF HandlerReturns
  <2>4. stack' = [stack EXCEPT ![Len(stack)] = f]
    BY <2>3 DEF Top
  <2>5. Like(stack, stack')
    BY <1>1, <2>2, <2>4, TopLike DEF Idle
  <2> QED
    BY <2>5, LikeStep DEF HandlerReturns, TypeOK
<1> QED
  BY <1>2, <1>3

-------------------------------------------------------------------------------
(* The scheduler's handles.                                                    *)

\* A handle is left for a new function, since only the two that are kept are taken.
LEMMA FreshHandle ==
    ASSUME TypeOK, NoneUnseen
    PROVE  Fresh \in Handle
<1> DEFINE used == receivers \cup plans \cup {recvH, reH}
<1>1. used = {recvH, reH} /\ recvH \in 0..8 /\ reH \in 0..8
  <2>1. receivers \subseteq {recvH} /\ plans \subseteq {reH}
    BY DEF NoneUnseen
  <2>2. recvH \in Handle \cup {NoHandle} /\ reH \in Handle \cup {NoHandle}
    BY DEF TypeOK
  <2>3. used = {recvH, reH}
    BY <2>1
  <2>4. recvH \in 0..8 /\ reH \in 0..8
    BY <2>2 DEF Handle, NoHandle
  <2> QED
    BY <2>3, <2>4
<1>2. \E h \in 1..8 : h \notin used /\ \A k \in 1..(h - 1) : k \in used
  <2>1. CASE 1 \notin used
    BY <2>1
  <2>2. CASE 1 \in used /\ 2 \notin used
    BY <2>2
  <2>3. CASE 1 \in used /\ 2 \in used
    BY <1>1, <2>3
  <2> QED
    BY <2>1, <2>2, <2>3
<1> QED
  BY <1>2 DEF Fresh, Handle

LEMMA ConnectedEndsStep == ASSUME NetInv, ConnectedEnds PROVE NetInv'
<1> USE DEF NetInv, data
<1>1. stack \in Seq(Frame) /\ stack # << >> /\ Top.at = "up" /\ Len(stack) \in Nat
  BY LenProperties DEF TypeOK, Idle, ConnectedEnds, Ends
<1>2. stack' = Front(stack) /\ UNCHANGED <<tcp, gen, retry, listeners, half, mid, cutOff, spoiled,
                                          wish, undone, raised, plans, reH>>
  BY DEF ConnectedEnds, SetRecv
<1>3. /\ stack' \in Seq(Frame) /\ Len(stack') = Len(stack) - 1
      /\ \A i \in 1..Len(stack') : stack'[i] = stack[i]
  BY <1>1, <1>2, Popped
<1>4. Fresh \in Handle /\ recvH' = Fresh /\ receivers' = (receivers \ {recvH}) \cup {Fresh}
  BY FreshHandle DEF ConnectedEnds, SetRecv
<1>5. TypeOK'
  BY <1>1, <1>2, <1>3, <1>4, NetAssumption DEF TypeOK
<1>6. NoneUnseen'
  BY <1>2, <1>4 DEF NoneUnseen
<1>7. StuckInv'
  <2>1. \A i \in 1..Len(stack) : i \in 1..Len(stack') \/ stack[i].at = "up"
    BY <1>1, <1>3 DEF Top
  <2>2. Arranging(stack) => Arranging(stack')
    BY <1>3, <2>1 DEF Arranging
  <2> QED
    BY <1>2, <1>4, <2>2 DEF StuckInv
<1>8. DownInv'
  BY <1>1, <1>2 DEF DownInv, Connecting, Top
<1>9. CutInv'
  BY <1>2 DEF CutInv
<1> QED
  BY <1>5, <1>6, <1>7, <1>8, <1>9

LEMMA FailEndsStep == ASSUME NetInv, FailEnds PROVE NetInv'
<1> USE DEF NetInv, data
<1>1. stack \in Seq(Frame) /\ stack # << >> /\ Top.at = "fail" /\ Len(stack) \in Nat
  BY LenProperties DEF TypeOK, Idle, FailEnds, Ends
<1>2. stack' = Front(stack) /\ UNCHANGED <<tcp, gen, retry, listeners, half, mid, cutOff, spoiled,
                                          wish, undone, raised>>
  BY DEF FailEnds
<1>3. /\ stack' \in Seq(Frame) /\ Len(stack') = Len(stack) - 1
      /\ \A i \in 1..Len(stack') : stack'[i] = stack[i]
  BY <1>1, <1>2, Popped
<1>4. /\ reH' \in Handle \cup {NoHandle} /\ plans' \subseteq Handle
      /\ UNCHANGED <<recvH, receivers>>
      /\ retry => plans' # {}
      /\ plans' \subseteq {reH'}
  BY FreshHandle DEF FailEnds, SetPlan, timers, TypeOK, NoneUnseen
<1>5. TypeOK'
  BY <1>1, <1>2, <1>3, <1>4, NetAssumption DEF TypeOK
<1>6. NoneUnseen'
  BY <1>4 DEF NoneUnseen
<1>7. StuckInv'
  BY <1>2, <1>4 DEF StuckInv
<1>8. DownInv'
  BY <1>1, <1>2 DEF DownInv, Connecting, Top
<1>9. CutInv'
  BY <1>2 DEF CutInv
<1> QED
  BY <1>5, <1>6, <1>7, <1>8, <1>9

-------------------------------------------------------------------------------
(* Connecting.                                                                 *)

\* _tryConnectServer comes on top of the calls s; the connection's cache is as
\* before, or empty for a new one.
LEMMA Tried ==
    ASSUME TypeOK, NEW s \in Seq(Frame), TryConnect(s)
    PROVE  /\ tcp' \in {"none", "new", "up", "dead"} /\ gen' \in 0..MaxGen /\ gen <= gen'
           /\ mid' \in BOOLEAN
           /\ stack' \in Seq(Frame) /\ Len(stack') = Len(s) + 1 /\ Len(stack') <= MaxDepth
           /\ \A i \in 1..Len(s) : stack'[i] = s[i]
           /\ (tcp' # "none" /\ Joining(stack')) \/ Arranging(stack')
           /\ half = (IF tcp \in {"up", "dead"} /\ mid THEN gen ELSE 0)
                => half = (IF tcp' \in {"up", "dead"} /\ mid' THEN gen' ELSE 0)
<1>1. Len(s) \in Nat /\ gen \in Nat /\ gen <= MaxGen /\ MaxGen \in Nat /\ MaxDepth \in Nat
  BY NetAssumption DEF TypeOK
<1>2. PICK e \in {"up", "fail"} : /\ stack' = Dispatch(s, e, listeners[e], FALSE)
                                  /\ e = "up" => tcp' # "none"
  BY DEF TryConnect, TypeOK
<1> DEFINE f == [at |-> e, todo |-> listeners[e], in |-> FALSE, ours |-> TRUE, auto |-> FALSE, left |-> 0]
<1>3. f \in Frame /\ f.at = e
  BY NetAssumption DEF Frame, Event, TypeOK
<1>4. stack' = Append(s, f)
  BY <1>2 DEF Dispatch
<1> HIDE DEF f
<1>5. /\ stack' \in Seq(Frame) /\ Len(stack') = Len(s) + 1
      /\ \A i \in 1..Len(s) : stack'[i] = s[i]
      /\ stack'[Len(s) + 1].at = e
  BY <1>3, <1>4, Pushed
<1>6. Len(stack') <= MaxDepth
  BY <1>1, <1>5 DEF TryConnect
<1>7. (tcp' # "none" /\ Joining(stack')) \/ Arranging(stack')
  <2>1. Len(s) + 1 \in 1..Len(stack')
    BY <1>1, <1>5
  <2>2. CASE e = "up"
    BY <1>2, <1>5, <2>1, <2>2 DEF Joining
  <2>3. CASE e = "fail"
    BY <1>5, <2>1, <2>3 DEF Arranging
  <2> QED
    BY <2>2, <2>3
<1>8. /\ tcp' \in {"none", "new", "up", "dead"} /\ gen' \in 0..MaxGen /\ gen <= gen' /\ mid' \in BOOLEAN
      /\ half = (IF tcp \in {"up", "dead"} /\ mid THEN gen ELSE 0)
            => half = (IF tcp' \in {"up", "dead"} /\ mid' THEN gen' ELSE 0)
  <2>1. tcp \in {"none", "new", "up", "dead"} /\ mid \in BOOLEAN
    BY DEF TypeOK
  <2>2. \/ tcp \in {"none", "new"} /\ gen < MaxGen /\ tcp' = "up" /\ gen' = gen + 1 /\ mid' = FALSE
        \/ tcp \in {"up", "dead"} /\ tcp' = tcp /\ gen' = gen /\ mid' = mid
        \/ tcp # "up" /\ tcp' = (IF tcp = "none" THEN "new" ELSE tcp) /\ gen' = gen /\ mid' = mid
    BY Zenon DEF TryConnect
  <2>3. CASE tcp \in {"none", "new"} /\ gen < MaxGen /\ tcp' = "up" /\ gen' = gen + 1 /\ mid' = FALSE
    <3>1. gen' \in 0..MaxGen /\ gen <= gen'
      BY <1>1, <2>3
    <3>2. ~(tcp \in {"up", "dead"} /\ mid) /\ ~(tcp' \in {"up", "dead"} /\ mid')
      BY <2>3
    <3> QED
      BY <2>3, <3>1, <3>2
  <2>4. CASE tcp \in {"up", "dead"} /\ tcp' = tcp /\ gen' = gen /\ mid' = mid
    BY <1>1, <2>1, <2>4
  <2>5. CASE tcp # "up" /\ tcp' = (IF tcp = "none" THEN "new" ELSE tcp) /\ gen' = gen /\ mid' = mid
    BY <1>1, <2>1, <2>5
  <2> QED
    BY <2>2, <2>3, <2>4, <2>5
<1> QED
  BY <1>5, <1>6, <1>7, <1>8

LEMMA ConnectServerStep == ASSUME NetInv, NEW r \in BOOLEAN, ConnectServer(r) PROVE NetInv'
<1> USE DEF NetInv, timers
<1>1. TryConnect(stack) /\ stack \in Seq(Frame)
  BY DEF ConnectServer, TypeOK
<1>2. TypeOK'
  BY <1>1, Tried, NetAssumption DEF TypeOK, ConnectServer
<1>3. NoneUnseen' /\ DownInv'
  BY DEF NoneUnseen, DownInv, ConnectServer
<1>4. StuckInv'
  BY <1>1, Tried DEF StuckInv
<1>5. CutInv'
  BY <1>1, Tried DEF CutInv, ConnectServer
<1> QED
  BY <1>2, <1>3, <1>4, <1>5

LEMMA PlanFiresStep == ASSUME NetInv, PlanFires PROVE NetInv'
<1> USE DEF NetInv
<1>1. TryConnect(<< >>) /\ << >> \in Seq(Frame) /\ plans # {} /\ plans' \subseteq plans
  BY DEF PlanFires
<1>2. /\ UNCHANGED <<retry, recvH, reH, receivers, listeners, half, cutOff, spoiled, wish, undone, raised>>
      /\ plans' \subseteq Handle
  BY <1>1 DEF PlanFires, TypeOK
<1>3. /\ tcp' \in {"none", "new", "up", "dead"} /\ gen' \in 0..MaxGen /\ gen <= gen' /\ mid' \in BOOLEAN
      /\ stack' \in Seq(Frame) /\ Len(stack') <= MaxDepth
  BY <1>1, Tried
<1>4. TypeOK'
  BY <1>2, <1>3, NetAssumption DEF TypeOK
<1>5. NoneUnseen' /\ DownInv'
  BY <1>1 DEF NoneUnseen, DownInv, PlanFires
<1>6. StuckInv'
  BY <1>1, Tried DEF StuckInv
<1>7. CutInv'
  BY <1>1, Tried DEF CutInv, PlanFires
<1> QED
  BY <1>4, <1>5, <1>6, <1>7

-------------------------------------------------------------------------------
(* Closing.                                                                    *)

\* _onClose dispatches on top of the calls under way.
LEMMA Closed ==
    ASSUME NetInv, NEW auto \in BOOLEAN, OnClose(auto)
    PROVE  /\ stack' \in Seq(Frame) /\ Len(stack') = Len(stack) + 1 /\ Len(stack') <= MaxDepth
           /\ \A i \in 1..Len(stack) : stack'[i].at = stack[i].at /\ stack'[i].auto = stack[i].auto
           /\ stack'[Len(stack) + 1].at = "close" /\ stack'[Len(stack) + 1].auto = auto
           /\ tcp' = "none" /\ receivers' = {} /\ plans' = {}
           /\ wish' \in {"none", "connect", "disconnect"} /\ {undone', raised'} \subseteq BOOLEAN => TypeOK'
           /\ CutInv'
<1> USE DEF NetInv
<1>1. stack \in Seq(Frame) /\ Len(stack) \in Nat /\ MaxDepth \in Nat
  BY NetAssumption, LenProperties DEF TypeOK
<1> DEFINE s == Dropped(stack, {"up", "fail"})
           f == [at |-> "close", todo |-> listeners["close"], in |-> FALSE, ours |-> TRUE,
                 auto |-> auto, left |-> 0]
<1>2. Like(stack, s)
  BY <1>1, DroppedLike
<1>3. f \in Frame /\ f.at = "close" /\ f.auto = auto
  BY NetAssumption DEF Frame, Event, TypeOK
<1>4. stack' = Append(s, f)
  BY DEF OnClose, Dispatch
<1> HIDE DEF s, f
<1>5. /\ stack' \in Seq(Frame) /\ Len(stack') = Len(stack) + 1
      /\ \A i \in 1..Len(stack) : stack'[i].at = stack[i].at /\ stack'[i].auto = stack[i].auto
      /\ stack'[Len(stack) + 1].at = "close" /\ stack'[Len(stack) + 1].auto = auto
  BY <1>1, <1>2, <1>3, <1>4, Pushed DEF Like
<1>6. Len(stack') <= MaxDepth
  BY <1>1, <1>5 DEF OnClose
<1>7. /\ tcp' = "none" /\ receivers' = {} /\ plans' = {} /\ recvH' = NoHandle /\ reH' = NoHandle
      /\ UNCHANGED <<gen, half, mid, spoiled, retry>>
      /\ cutOff' = (cutOff \/ half # 0)
  BY DEF OnClose, Unscheduled, NoneUnseen
<1>8. listeners' \in [Event -> SUBSET Listener]
  BY DEF OnClose, TypeOK, Event
<1>9. ASSUME wish' \in {"none", "connect", "disconnect"}, {undone', raised'} \subseteq BOOLEAN
      PROVE  TypeOK'
  <2>1. cutOff' \in BOOLEAN
    BY <1>7
  <2> QED
    BY <1>5, <1>6, <1>7, <1>8, <1>9, <2>1, NetAssumption DEF TypeOK
<1>10. CutInv'
  BY <1>7 DEF CutInv
<1> QED
  BY <1>5, <1>6, <1>7, <1>9, <1>10

LEMMA DisConnectionStep == ASSUME NetInv, DisConnection PROVE NetInv'
<1>1. OnClose(FALSE) /\ wish' = "disconnect" /\ raised' = raised /\ retry' = retry
      /\ undone' = (\E i \in DOMAIN stack : Connecting(stack[i]))
  BY DEF DisConnection, OnClose
<1>2. undone' \in BOOLEAN /\ raised' \in BOOLEAN
  BY <1>1 DEF NetInv, TypeOK
<1>3. TypeOK' /\ CutInv' /\ tcp' = "none" /\ receivers' = {} /\ plans' = {}
  BY <1>1, <1>2, Closed
<1>4. NoneUnseen' /\ StuckInv'
  BY <1>1, <1>3 DEF NoneUnseen, StuckInv
<1>5. DownInv'
  <2>1. stack \in Seq(Frame) /\ Len(stack) \in Nat /\ DOMAIN stack = 1..Len(stack)
    BY LenProperties DEF NetInv, TypeOK
  <2>2. /\ Len(stack') = Len(stack) + 1
        /\ \A i \in 1..Len(stack) : stack'[i].at = stack[i].at /\ stack'[i].auto = stack[i].auto
        /\ stack'[Len(stack) + 1].at = "close" /\ stack'[Len(stack) + 1].auto = FALSE
    BY <1>1, Closed
  <2>3. ASSUME ~undone', NEW i \in 1..Len(stack')
        PROVE  /\ stack'[i].at \notin {"up", "fail"}
               /\ ~(stack'[i].at = "close" /\ stack'[i].auto /\ retry')
    <3>1. CASE i \in 1..Len(stack)
      BY <1>1, <2>1, <2>2, <2>3, <3>1 DEF Connecting
    <3>2. CASE i = Len(stack) + 1
      BY <2>2, <3>2
    <3> QED
      BY <2>1, <2>2, <3>1, <3>2
  <2> QED
    BY <1>1, <1>3, <2>3 DEF DownInv, Connecting
<1> QED
  BY <1>3, <1>4, <1>5 DEF NetInv

LEMMA RecvClosedStep == ASSUME NetInv, RecvClosed PROVE NetInv'
<1>1. OnClose(TRUE) /\ UNCHANGED <<wish, undone, raised>> /\ receivers # {}
  BY DEF RecvClosed
<1>2. wish \in {"none", "connect", "disconnect"} /\ {undone, raised} \subseteq BOOLEAN
  BY DEF NetInv, TypeOK
<1>3. TypeOK' /\ CutInv' /\ receivers' = {} /\ plans' = {}
  BY <1>1, <1>2, Closed
<1>4. Arranging(stack')
  <2>1. Len(stack) \in Nat
    BY LenProperties DEF NetInv, TypeOK
  <2>2. /\ Len(stack') = Len(stack) + 1
        /\ stack'[Len(stack) + 1].at = "close" /\ stack'[Len(stack) + 1].auto = TRUE
    BY <1>1, Closed
  <2> QED
    BY <2>1, <2>2 DEF Arranging
<1>5. NoneUnseen' /\ StuckInv'
  BY <1>3, <1>4 DEF NoneUnseen, StuckInv
<1>6. DownInv'
  BY <1>1 DEF NetInv, DownInv
<1> QED
  BY <1>3, <1>5, <1>6 DEF NetInv

LEMMA CloseEndsStep == ASSUME NetInv, CloseEnds PROVE NetInv'
<1> USE DEF NetInv, timers
<1> DEFINE s == Dropped(Front(stack), {"close"})
<1>1. stack \in Seq(Frame) /\ stack # << >> /\ Top.at = "close" /\ Len(stack) \in Nat
  BY LenProperties DEF TypeOK, Idle, CloseEnds, Ends
<1>2. /\ Front(stack) \in Seq(Frame) /\ Len(Front(stack)) = Len(stack) - 1
      /\ \A i \in 1..(Len(stack) - 1) : Front(stack)[i] = stack[i]
  BY <1>1, Popped
<1>3. Like(Front(stack), s)
  BY <1>2, DroppedLike
<1>4. /\ s \in Seq(Frame) /\ Len(s) = Len(stack) - 1
      /\ \A i \in 1..Len(s) : s[i].at = stack[i].at /\ s[i].auto = stack[i].auto
  BY <1>2, <1>3 DEF Like
<1>5. /\ UNCHANGED <<recvH, reH, receivers, plans, half, cutOff, spoiled, retry, wish, undone, raised>>
      /\ IF Top.auto /\ retry THEN TryConnect(s) ELSE stack' = s /\ UNCHANGED <<tcp, gen, mid>>
  BY DEF CloseEnds
<1>6. listeners' \in [Event -> SUBSET Listener]
  BY DEF CloseEnds, TypeOK, Event
<1> HIDE DEF s
<1>7. NoneUnseen'
  BY <1>5 DEF NoneUnseen
<1>8. CASE Top.auto /\ retry
  <2>1. TryConnect(s)
    BY <1>5, <1>8
  <2>2. TypeOK'
    BY <1>4, <1>5, <1>6, <2>1, Tried, NetAssumption DEF TypeOK
  <2>3. StuckInv' /\ CutInv'
    BY <1>4, <1>5, <2>1, Tried DEF StuckInv, CutInv
  <2>4. Connecting(stack[Len(stack)]) /\ Len(stack) \in 1..Len(stack)
    BY <1>1, <1>8 DEF Connecting, Top
  <2>5. DownInv'
    BY <1>5, <2>4 DEF DownInv
  <2> QED
    BY <1>7, <2>2, <2>3, <2>5
<1>9. CASE ~(Top.auto /\ retry)
  <2>1. stack' = s /\ UNCHANGED <<tcp, gen, mid>>
    BY <1>5, <1>9
  <2>2. TypeOK'
    BY <1>1, <1>4, <1>5, <1>6, <2>1, NetAssumption DEF TypeOK
  <2>3. retry /\ Arranging(stack) => Arranging(stack')
    <3>1. \A i \in 1..Len(stack) : i \in 1..Len(stack') \/ stack[i] = Top
      BY <1>1, <1>4, <2>1 DEF Top
    <3> QED
      BY <1>1, <1>4, <1>9, <2>1, <3>1 DEF Arranging
  <2>4. Joining(stack) => Joining(stack')
    <3>1. \A i \in 1..Len(stack) : i \in 1..Len(stack') \/ stack[i] = Top
      BY <1>1, <1>4, <2>1 DEF Top
    <3> QED
      BY <1>1, <1>4, <2>1, <3>1 DEF Joining
  <2>5. StuckInv'
    BY <1>5, <2>1, <2>3, <2>4 DEF StuckInv
  <2>6. DownInv'
    BY <1>1, <1>4, <1>5, <2>1 DEF DownInv, Connecting
  <2>7. CutInv'
    BY <1>5, <2>1 DEF CutInv
  <2> QED
    BY <1>7, <2>2, <2>5, <2>6, <2>7
<1> QED
  BY <1>8, <1>9

-------------------------------------------------------------------------------
(* Receiving.                                                                  *)

LEMMA ServerClosesStep == ASSUME NetInv, ServerCloses PROVE NetInv'
<1> USE DEF NetInv, timers, data, ServerCloses
<1>1. TypeOK'
  BY DEF TypeOK
<1>2. NoneUnseen' /\ StuckInv' /\ DownInv'
  BY DEF NoneUnseen, StuckInv, DownInv, Connecting
<1>3. CutInv'
  BY DEF CutInv
<1> QED
  BY <1>1, <1>2, <1>3

LEMMA RecvDataStep == ASSUME NetInv, RecvData PROVE NetInv'
<1> USE DEF NetInv, timers
<1>1. /\ UNCHANGED <<tcp, gen, retry, recvH, reH, receivers, plans, listeners, cutOff, wish, undone, raised>>
      /\ stack = << >> /\ receivers # {} /\ tcp = "up" /\ ~spoiled
  BY DEF RecvData, Idle
<1>2. CASE half = (IF mid THEN gen ELSE 0)
  <2>1. PICK n \in 0..MaxWhole, m \in BOOLEAN :
           /\ mid' = m /\ half' = LeftHalf(m)
           /\ stack' = IF n = 0 THEN stack ELSE Handler(stack, n - 1)
           /\ spoiled' = spoiled
    BY <1>2 DEF RecvData
  <2> DEFINE f == [at |-> "handler", todo |-> {}, in |-> TRUE, ours |-> FALSE, auto |-> FALSE, left |-> n - 1]
  <2>2. /\ stack' \in Seq(Frame) /\ Len(stack') <= 1
        /\ \A i \in 1..Len(stack') : stack'[i].at = "handler"
    <3>1. CASE n = 0
      BY <1>1, <2>1, <3>1
    <3>2. CASE n # 0
      <4>1. n - 1 \in 0..MaxWhole
        BY <2>1, <3>2, NetAssumption
      <4>2. f \in Frame /\ f.at = "handler"
        BY <4>1 DEF Frame
      <4>3. stack' = Append(<< >>, f)
        BY <1>1, <2>1, <3>2 DEF Handler
      <4> HIDE DEF f
      <4> QED
        BY <4>2, <4>3
    <3> QED
      BY <3>1, <3>2
  <2>3. half' = (IF mid' THEN gen' ELSE 0) /\ mid' \in BOOLEAN /\ half' \in 0..gen'
    <3>1. gen' = gen /\ gen \in Nat
      BY <1>1, NetAssumption DEF TypeOK
    <3>2. half' = (IF m THEN gen ELSE 0)
      BY <2>1 DEF LeftHalf
    <3>3. half' \in 0..gen'
      BY <3>1, <3>2
    <3> QED
      BY <2>1, <3>1, <3>2, <3>3
  <2>4. TypeOK'
    BY <1>1, <2>1, <2>2, <2>3, NetAssumption DEF TypeOK
  <2>5. NoneUnseen' /\ StuckInv'
    BY <1>1 DEF NoneUnseen, StuckInv
  <2>6. DownInv'
    BY <1>1 DEF DownInv
  <2>7. CutInv'
    BY <1>1, <2>1, <2>3 DEF CutInv
  <2> QED
    BY <2>4, <2>5, <2>6, <2>7
<1>3. CASE half # (IF mid THEN gen ELSE 0)
  <2>1. spoiled' = TRUE /\ UNCHANGED <<mid, half, stack>>
    BY <1>3 DEF RecvData
  <2>2. cutOff
    BY <1>1, <1>3 DEF CutInv
  <2>3. TypeOK'
    BY <1>1, <2>1 DEF TypeOK
  <2>4. NoneUnseen' /\ StuckInv' /\ CutInv'
    BY <1>1, <2>1, <2>2 DEF NoneUnseen, StuckInv, CutInv
  <2>5. DownInv'
    BY <1>1 DEF DownInv
  <2> QED
    BY <2>3, <2>4, <2>5
<1> QED
  BY <1>2, <1>3

-------------------------------------------------------------------------------
(* The theorems.                                                               *)

\* The inductive invariant of the client's network part: the scheduler has nothing
\* qxnetlib does not know of, and what calls under way will still do agrees with what
\* scripts have asked for.
THEOREM NetInvariance == Spec => []NetInv
<1>1. Init => NetInv
  <2> SUFFICES ASSUME Init PROVE NetInv
    OBVIOUS
  <2>1. << >> \in Seq(Frame) /\ Len(<< >>) = 0
    BY EmptySeq
  <2>2. TypeOK
    <3>1. stack \in Seq(Frame) /\ Len(stack) <= MaxDepth
      BY <2>1, NetAssumption DEF Init
    <3>2. listeners \in [Event -> SUBSET Listener]
      BY DEF Init
    <3>3. gen \in 0..MaxGen /\ half \in 0..gen
      BY NetAssumption DEF Init
    <3> QED
      BY <3>1, <3>2, <3>3 DEF Init, TypeOK
  <2>3. NoneUnseen /\ StuckInv /\ DownInv /\ CutInv
    BY DEF Init, NoneUnseen, StuckInv, DownInv, CutInv
  <2> QED
    BY <2>2, <2>3 DEF NetInv
<1>2. NetInv /\ [Next]_vars => NetInv'
  <2> SUFFICES ASSUME NetInv, [Next]_vars PROVE NetInv'
    OBVIOUS
  <2>1. CASE \E r \in BOOLEAN : ConnectServer(r)
    BY <2>1, ConnectServerStep
  <2>2. CASE DisConnection
    BY <2>2, DisConnectionStep
  <2>3. CASE \E e \in Event, l \in Listener : AddEventListener(e, l) \/ RemoveEventListener(e, l)
    BY <2>3, ListensStep
  <2>4. CASE CallListener \/ ListenerReturns \/ Raise
    BY <2>4, CallListenerStep, ListenerReturnsStep, RaiseStep
  <2>5. CASE ConnectedEnds \/ FailEnds \/ CloseEnds \/ PlanFires
    BY <2>5, ConnectedEndsStep, FailEndsStep, CloseEndsStep, PlanFiresStep
  <2>6. CASE ServerCloses \/ RecvClosed \/ RecvData \/ HandlerReturns
    BY <2>6, ServerClosesStep, RecvClosedStep, RecvDataStep, HandlerReturnsStep
  <2>7. CASE UNCHANGED vars
    <3>1. /\ UNCHANGED <<tcp, gen, retry, recvH, reH, receivers, plans, listeners, stack, half, mid>>
          /\ UNCHANGED <<cutOff, spoiled, wish, undone, raised>>
      BY <2>7 DEF vars, timers, data
    <3>2. TypeOK'
      BY <3>1 DEF NetInv, TypeOK
    <3>3. NoneUnseen' /\ StuckInv' /\ DownInv' /\ CutInv'
      BY <3>1 DEF NetInv, NoneUnseen, StuckInv, DownInv, CutInv, Connecting
    <3> QED
      BY <3>2, <3>3 DEF NetInv
  <2> QED
    BY <2>1, <2>2, <2>3, <2>4, <2>5, <2>6, <2>7 DEF Next
<1> QED
  BY <1>1, <1>2, PTL DEF Spec

\* Every variable of the client keeps its type; in particular a handle is always left
\* for a new function (qxnetlib.lua:50, :126).
THEOREM NetTypeCorrect == Spec => []TypeOK
BY NetInvariance, PTL DEF NetInv

\* The scheduler never has a function of the client's whose handle it does not hold
\* (qxnetlib.lua:46, :122, :134).
THEOREM NothingUnseen == Spec => []NoneUnseen
BY NetInvariance, PTL DEF NetInv

\* A client to be connected always has something to come, however its listeners
\* connected and disconnected (qxnetlib.lua:33-41, :69).
THEOREM ClientNeverStuck == Spec => []NeverStuck
<1>1. NetInv => NeverStuck
  <2> SUFFICES ASSUME NetInv, Idle, wish = "connect", retry, ~raised
               PROVE  plans # {} \/ (receivers # {} /\ tcp # "none")
    BY DEF NeverStuck
  <2>1. ~Arranging(stack) /\ ~Joining(stack)
    BY EmptySeq DEF Idle, Arranging, Joining
  <2> QED
    BY <2>1 DEF NetInv, StuckInv
<1> QED
  BY NetInvariance, <1>1, PTL

\* A client that was told to disconnect is down once its calls have ended, unless a
\* call under way was to connect (qxnetlib.lua:36-41, :68-71, :121-126).
THEOREM ClientStaysDown == Spec => []StaysDown
<1>1. NetInv => StaysDown
  BY DEF NetInv, DownInv, StaysDown
<1> QED
  BY NetInvariance, <1>1, PTL

\* Bytes of two connections are joined only after a connection's end within a packet
\* (qxnetlib.lua:14, :99).
THEOREM OnlyCutsJoin == Spec => []JoinedByCut
<1>1. NetInv => JoinedByCut
  BY DEF NetInv, CutInv, JoinedByCut
<1> QED
  BY NetInvariance, <1>1, PTL

===============================================================================
