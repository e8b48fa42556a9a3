------------------------------- MODULE ClientNet -------------------------------
(* The network part of the game client, client_net_part/qxnetlib.lua: one      *)
(* socket, the frame function that receives, the planned reconnection, and the *)
(* events it dispatches.  The framework's EventProtocol it loads is taken to be *)
(* the copy of it in Server/gameserver/common.                                  *)
(*                                                                             *)
(* The client has one thread, but its functions call scripts back: a listener  *)
(* or the handler of a packet connects, disconnects, adds and removes listeners *)
(* and raises, and the function that called it goes on where it was.  `stack`  *)
(* holds those calls.  The scheduler calls back when it is empty.              *)
EXTENDS Integers, Sequences, SequencesExt

CONSTANTS Listener,    \* functions scripts listen with
          MaxGen,      \* bound: connections made
          MaxDepth,    \* bound: calls within calls
          MaxWhole     \* bound: whole packets in one read

ASSUME NetAssumption == MaxGen \in Nat /\ MaxDepth \in Nat \ {0} /\ MaxWhole \in Nat

\* EVENT_SERVER_CONNECTED, EVENT_SERVER_CONNECT_FAIL, EVENT_SOCKET_CLOSED.
Event == {"up", "fail", "close"}
Handle == 1..8
NoHandle == 0

VARIABLES
    tcp,         \* _tcp: none; new, also while it connects; up; dead, the server having closed it
    gen,         \* the number of the last connection
    retry,       \* _failReConnectTime > 0
    recvH,       \* _recvScheduler
    reH,         \* _reConnectScheduler; a plan that has fired leaves its handle there
    receivers,   \* the scheduler's frame functions, by handle
    plans,       \* the scheduler's plans, by handle
    listeners,   \* listeners_
    stack,       \* the calls under way, the innermost last
    half,        \* the connection whose unfinished packet _recvDataCash ends with, or 0
    mid,         \* what was read of the connection ends within a packet
    \* For the properties only:
    wish,        \* what scripts asked for last: to connect or to disconnect
    undone,      \* the disconnect was asked for in a call that connects as it goes on
    raised,      \* an error has ended calls under way since connectServer was called
    cutOff,      \* a connection ended within a packet
    spoiled      \* bytes of two connections were joined

timers == <<recvH, reH, receivers, plans>>
data == <<half, mid, cutOff, spoiled>>
vars == <<tcp, gen, retry, timers, listeners, stack, data, wish, undone, raised>>

\* A call of dispatchEvent for event `at`, or the handler of a packet: the listeners
\* it has yet to call, whether one is running, whether the table it goes through is
\* still that of the event; for "close", whether _onRecvCallBack goes on to
\* reconnect, for a handler how many whole packets are left in the cache.
Frame == [at : Event \cup {"handler"}, todo : SUBSET Listener, in : BOOLEAN,
          ours : BOOLEAN, auto : BOOLEAN, left : 0..MaxWhole]

TypeOK ==
    /\ tcp \in {"none", "new", "up", "dead"} /\ gen \in 0..MaxGen /\ retry \in BOOLEAN
    /\ {recvH, reH} \subseteq Handle \cup {NoHandle}
    /\ receivers \subseteq Handle /\ plans \subseteq Handle
    /\ listeners \in [Event -> SUBSET Listener]
    /\ stack \in Seq(Frame) /\ Len(stack) <= MaxDepth
    /\ half \in 0..gen /\ mid \in BOOLEAN
    /\ wish \in {"none", "connect", "disconnect"}
    /\ {undone, raised, cutOff, spoiled} \subseteq BOOLEAN

Init ==
    /\ tcp = "none" /\ gen = 0 /\ retry = FALSE
    /\ recvH = NoHandle /\ reH = NoHandle /\ receivers = {} /\ plans = {}
    /\ listeners = [e \in Event |-> {}] /\ stack = << >>
    /\ half = 0 /\ mid = FALSE
    /\ wish = "none" /\ undone = FALSE /\ raised = FALSE /\ cutOff = FALSE /\ spoiled = FALSE

-------------------------------------------------------------------------------
(* The stack, and the dispatch of events.                                      *)

Idle == stack = << >>
Top == stack[Len(stack)]
InScript == ~Idle => Top.in
Ends(e) == ~Idle /\ Top.at = e /\ ~Top.in /\ Top.todo = {}

Dispatch(s, e, ls, auto) ==
    Append(s, [at |-> e, todo |-> ls, in |-> FALSE, ours |-> TRUE, auto |-> auto, left |-> 0])
Handler(s, n) ==
    Append(s, [at |-> "handler", todo |-> {}, in |-> TRUE, ours |-> FALSE, auto |-> FALSE, left |-> n])

\* removeAllEventListenersForEvent: a dispatch under way goes on over the old table.
Dropped(s, es) == [i \in DOMAIN s |-> IF s[i].at \in es THEN [s[i] EXCEPT !.ours = FALSE] ELSE s[i]]

CallListener ==
    /\ ~Idle /\ ~Top.in
    /\ \E l \in Top.todo :
          stack' = [stack EXCEPT ![Len(stack)].todo = @ \ {l}, ![Len(stack)].in = TRUE]
    /\ UNCHANGED <<tcp, gen, retry, timers, listeners, data, wish, undone, raised>>

\* The listener returns; false ends the dispatch.  "__REMOVE__" is as
\* removeEventListener before it, or raises when the event has no table any more.
ListenerReturns ==
    /\ ~Idle /\ Top.in /\ Top.at # "handler"
    /\ \E rest \in {Top.todo, {}} :
          stack' = [stack EXCEPT ![Len(stack)].in = FALSE, ![Len(stack)].todo = rest]
    /\ UNCHANGED <<tcp, gen, retry, timers, listeners, data, wish, undone, raised>>

\* addEventListener.  What a traversal of the table under way visits after that is
\* undefined: any of its listeners, again or not at all.
AddEventListener(e, l) ==
    /\ InScript /\ l \notin listeners[e]
    /\ listeners' = [listeners EXCEPT ![e] = @ \cup {l}]
    /\ \E T \in [DOMAIN stack -> SUBSET listeners'[e]] :
          stack' = [i \in DOMAIN stack |->
                      IF stack[i].at = e /\ stack[i].ours THEN [stack[i] EXCEPT !.todo = T[i]] ELSE stack[i]]
    /\ UNCHANGED <<tcp, gen, retry, timers, data, wish, undone, raised>>

RemoveEventListener(e, l) ==
    /\ InScript /\ l \in listeners[e]
    /\ listeners' = [listeners EXCEPT ![e] = @ \ {l}]
    /\ stack' = [i \in DOMAIN stack |->
                   IF stack[i].at = e /\ stack[i].ours THEN [stack[i] EXCEPT !.todo = @ \ {l}] ELSE stack[i]]
    /\ UNCHANGED <<tcp, gen, retry, timers, data, wish, undone, raised>>

\* An error ends the calls up to the handler of a packet, which pcall protects, or
\* all of them.
Raise ==
    /\ ~Idle /\ Top.in /\ Top.at # "handler"
    /\ LET hs == {i \in DOMAIN stack : stack[i].at = "handler"} \cup {0}
       IN  \E h \in hs : (\A j \in hs : j <= h) /\ stack' = SubSeq(stack, 1, h)
    /\ raised' = TRUE
    /\ UNCHANGED <<tcp, gen, retry, timers, listeners, data, wish, undone>>

-------------------------------------------------------------------------------
(* The scheduler.                                                              *)

Fresh == CHOOSE h \in Handle : /\ h \notin receivers \cup plans \cup {recvH, reH}
                               /\ \A k \in 1..(h - 1) : k \in receivers \cup plans \cup {recvH, reH}

\* scheduleGlobal for the frame function; the one before is taken out.
SetRecv == /\ recvH' = Fresh /\ receivers' = (receivers \ {recvH}) \cup {Fresh}
           /\ UNCHANGED <<reH, plans>>

\* Mutant: a plan is only set where no handle is kept, and fired ones keep theirs.
SetPlanOnce ==
    IF reH = NoHandle THEN reH' = Fresh /\ plans' = plans \cup {Fresh} /\ UNCHANGED <<recvH, receivers>>
    ELSE UNCHANGED timers

\* _reConnectServer.
SetPlan == /\ reH' = Fresh /\ plans' = (plans \ {reH}) \cup {Fresh}
           /\ UNCHANGED <<recvH, receivers>>

\* Mutants: the plan is forgotten, or left alone.
PlanForgotten == recvH' = NoHandle /\ receivers' = receivers \ {recvH} /\ reH' = NoHandle /\ UNCHANGED plans
PlanKept == recvH' = NoHandle /\ receivers' = receivers \ {recvH} /\ UNCHANGED <<reH, plans>>

\* What _onClose takes out of the scheduler.
Unscheduled == /\ recvH' = NoHandle /\ receivers' = receivers \ {recvH}
               /\ reH' = NoHandle /\ plans' = plans \ {reH}

-------------------------------------------------------------------------------
(* Connecting.                                                                 *)

\* _tryConnectServer, with the calls s under way.  A socket that does not wait
\* fails first and is found connected later.
TryConnect(s) ==
    /\ Len(s) < MaxDepth
    /\ \/ /\ tcp \in {"none", "new"} /\ gen < MaxGen
          /\ tcp' = "up" /\ gen' = gen + 1 /\ mid' = FALSE
          /\ stack' = Dispatch(s, "up", listeners["up"], FALSE)
       \/ /\ tcp \in {"up", "dead"}                  \* already connected
          /\ UNCHANGED <<tcp, gen, mid>>
          /\ stack' = Dispatch(s, "up", listeners["up"], FALSE)
       \/ /\ tcp # "up"
          /\ tcp' = IF tcp = "none" THEN "new" ELSE tcp
          /\ UNCHANGED <<gen, mid>>
          /\ stack' = Dispatch(s, "fail", listeners["fail"], FALSE)

ConnectServer(r) ==
    /\ InScript
    /\ retry' = r
    /\ TryConnect(stack)
    /\ wish' = "connect" /\ raised' = (raised /\ ~Idle)
    /\ UNCHANGED <<timers, listeners, half, cutOff, spoiled, undone>>

\* The rest of _setRecvCallBackInFrame, after the event.
ConnectedEnds ==
    /\ Ends("up")
    /\ SetRecv
    /\ stack' = Front(stack)
    /\ UNCHANGED <<tcp, gen, retry, listeners, data, wish, undone, raised>>

\* The rest of _tryConnectServer after a failure.
FailEnds ==
    /\ Ends("fail")
    /\ IF retry THEN SetPlan ELSE UNCHANGED timers
    /\ stack' = Front(stack)
    /\ UNCHANGED <<tcp, gen, retry, listeners, data, wish, undone, raised>>

\* performWithDelayGlobal takes the plan out and calls it.
PlanFires ==
    /\ Idle
    /\ \E h \in plans : plans' = plans \ {h}
    /\ TryConnect(<< >>)
    /\ UNCHANGED <<retry, recvH, reH, receivers, listeners, half, cutOff, spoiled, wish, undone, raised>>

-------------------------------------------------------------------------------
(* Closing.                                                                    *)

\* _onClose up to the event, for _onRecvCallBack if auto.
OnClose(auto) ==
    /\ Len(stack) < MaxDepth
    /\ tcp' = "none"
    /\ Unscheduled
    /\ listeners' = [listeners EXCEPT !["up"] = {}, !["fail"] = {}]
    /\ stack' = Dispatch(Dropped(stack, {"up", "fail"}), "close", listeners["close"], auto)
    /\ cutOff' = (cutOff \/ half # 0)
    /\ UNCHANGED <<gen, half, mid, spoiled, retry>>

\* Calls under way that go on to connect.
Connecting(f) == f.at \in {"up", "fail"} \/ (f.at = "close" /\ f.auto /\ retry)

DisConnection ==
    /\ InScript
    /\ OnClose(FALSE)
    /\ wish' = "disconnect"
    /\ undone' = \E i \in DOMAIN stack : Connecting(stack[i])
    /\ UNCHANGED raised

\* The rest of _onClose, and of _onRecvCallBack if that called it.
CloseEnds ==
    /\ Ends("close")
    /\ listeners' = [listeners EXCEPT !["close"] = {}]
    /\ LET s == Dropped(Front(stack), {"close"}) IN
        IF Top.auto /\ retry THEN TryConnect(s) ELSE stack' = s /\ UNCHANGED <<tcp, gen, mid>>
    /\ UNCHANGED <<timers, half, cutOff, spoiled, retry, wish, undone, raised>>

-------------------------------------------------------------------------------
(* Receiving, in the frame function.                                           *)

ServerCloses ==
    /\ tcp = "up" /\ tcp' = "dead"
    /\ UNCHANGED <<gen, retry, timers, listeners, stack, data, wish, undone, raised>>

\* The socket is closed, or was never connected; what came last is dropped.
RecvClosed ==
    /\ Idle /\ receivers # {}
    /\ tcp \in {"new", "dead"}
    /\ OnClose(TRUE)
    /\ UNCHANGED <<wish, undone, raised>>

\* Mutants: it is counted as the next connection's, or dropped.
LeftToNext(m) == IF m THEN gen + 1 ELSE 0
LeftDropped(m) == 0

\* What _onRecvData leaves in the cache of a read that ends within a packet or not.
LeftHalf(m) == IF m THEN gen ELSE 0

\* A read that completes n packets and ends within a packet, or not.  Where what
\* waits is not the start of what comes, nothing that follows can be trusted.
RecvData ==
    /\ Idle /\ receivers # {} /\ tcp = "up" /\ ~spoiled
    /\ IF half = (IF mid THEN gen ELSE 0)
       THEN \E n \in 0..MaxWhole, m \in BOOLEAN :
              /\ n > 0 \/ m
              /\ mid' = m /\ half' = LeftHalf(m)
              /\ stack' = IF n = 0 THEN stack ELSE Handler(stack, n - 1)
              /\ UNCHANGED spoiled
       ELSE spoiled' = TRUE /\ UNCHANGED <<mid, half, stack>>
    /\ UNCHANGED <<tcp, gen, retry, timers, listeners, cutOff, wish, undone, raised>>

\* The handler of a packet returns, or raises within pcall: _onRecvData goes on with
\* the next packet in the cache, although the handler may have disconnected.
HandlerReturns ==
    /\ ~Idle /\ Top.at = "handler"
    /\ stack' = IF Top.left = 0 THEN Front(stack) ELSE [stack EXCEPT ![Len(stack)].left = @ - 1]
    /\ UNCHANGED <<tcp, gen, retry, timers, listeners, data, wish, undone, raised>>

-------------------------------------------------------------------------------

Next ==
    \/ \E r \in BOOLEAN : ConnectServer(r)
    \/ DisConnection
    \/ \E e \in Event, l \in Listener : AddEventListener(e, l) \/ RemoveEventListener(e, l)
    \/ CallListener \/ ListenerReturns \/ Raise
    \/ ConnectedEnds \/ FailEnds \/ CloseEnds \/ PlanFires
    \/ ServerCloses \/ RecvClosed \/ RecvData \/ HandlerReturns

Spec == Init /\ [][Next]_vars

-------------------------------------------------------------------------------
(* Properties.                                                                 *)

\* The scheduler has at most the frame function and the plan whose handles the
\* client holds: whatever calls connectServer and disConnection within one another,
\* none is left to run unseen (qxnetlib.lua:46, :122, :134).
NoneUnseen == receivers \subseteq {recvH} /\ plans \subseteq {reH}

\* A client that was last asked to connect, and to try again, is never left with
\* nothing to come: it receives on a socket, or has a plan, unless an error of a
\* listener ended a call that was about to arrange it (qxnetlib.lua:33-41, :69).
NeverStuck ==
    Idle /\ wish = "connect" /\ retry /\ ~raised => plans # {} \/ (receivers # {} /\ tcp # "none")

\* A client that was last asked to disconnect has no socket and neither receives nor
\* reconnects, unless it was asked so in a call that connects as it goes on: from a
\* listener of the events, not from a handler (qxnetlib.lua:36-41, :68-71, :121-126).
StaysDown ==
    Idle /\ wish = "disconnect" /\ ~undone => tcp = "none" /\ receivers = {} /\ plans = {}

\* Nothing but a connection's end within a packet makes the client join bytes of
\* two packets: as _recvDataCash is kept, the next connection's first packet then
\* is lost (qxnetlib.lua:14, :99).
JoinedByCut == spoiled => cutOff

===============================================================================
