----------------------------- MODULE ClientSession -----------------------------
(* What the network layer promises the scripts about a client: it appears      *)
(* once, its packets are handed over one by one in the order they were sent,   *)
(* each once and only between lua_onconn and lua_oncloseconn, and its session  *)
(* ends in exactly one lua_onFinalClosed, which follows every                  *)
(* lua_oncloseconn.                                                            *)
EXTENDS Naturals, Sequences

CONSTANTS Session, Kinds

VARIABLES status,      \* the last callback made for a session
          sent,        \* packets the peer has sent
          delivered    \* numbers of the packets the handlers have seen

svars == <<status, sent, delivered>>

Init ==
    /\ status = [s \in Session |-> "none"]
    /\ sent = [s \in Session |-> <<>>]
    /\ delivered = [s \in Session |-> <<>>]

\* lua_onconn.
Connect(s) ==
    /\ status[s] = "none"
    /\ status' = [status EXCEPT ![s] = "online"]
    /\ UNCHANGED <<sent, delivered>>

\* The peer sends a packet.
Submit(s, k) ==
    /\ status[s] \in {"online", "offline"}
    /\ sent' = [sent EXCEPT ![s] = Append(@, k)]
    /\ UNCHANGED <<status, delivered>>

\* A handler gets the next packet.
Deliver(s) ==
    /\ status[s] = "online"
    /\ Len(delivered[s]) < Len(sent[s])
    /\ delivered' = [delivered EXCEPT ![s] = Append(@, Len(@) + 1)]
    /\ UNCHANGED <<status, sent>>

\* lua_oncloseconn.
Leave(s) ==
    /\ status[s] = "online"
    /\ status' = [status EXCEPT ![s] = "offline"]
    /\ UNCHANGED <<sent, delivered>>

\* lua_onFinalClosed.
Finish(s) ==
    /\ status[s] \in {"online", "offline"}
    /\ status' = [status EXCEPT ![s] = "final"]
    /\ UNCHANGED <<sent, delivered>>

Next == \E s \in Session :
            \/ Connect(s) \/ Deliver(s) \/ Leave(s) \/ Finish(s)
            \/ \E k \in Kinds : Submit(s, k)

SafeSpec == Init /\ [][Next]_svars

\* A client that has left is finished with.
LeftIsFinished == \A s \in Session : (status[s] = "offline") ~> (status[s] = "final")

Spec == SafeSpec /\ LeftIsFinished
===============================================================================
