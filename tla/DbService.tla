------------------------------- MODULE DbService -------------------------------
(* What asynchronous SQL promises the scripts and the shutdown: a statement is *)
(* executed, and afterwards its callback is given its result, once.  The server *)
(* closes only if it was asked to, when every statement issued until then has  *)
(* been answered, and afterwards none is issued or answered.  More statements  *)
(* than there are tokens may void all this.                                    *)
EXTENDS Naturals, Sequences

CONSTANT Tokens        \* statements the promise is good for

VARIABLES status,      \* how far each statement has come, in the order of issue
          shutdown,    \* nobody asked for it, asked for, carried out
          void         \* a token came round while its callback waited

service == <<status, shutdown, void>>

Init == status = << >> /\ shutdown = "no" /\ void = FALSE

\* dblib.execsql.
Issue ==
    /\ shutdown # "done"
    /\ status' = Append(status, "issued")
    /\ UNCHANGED <<shutdown, void>>

Moves(q, from, to) ==
    /\ status[q] = from
    /\ status' = [status EXCEPT ![q] = to]
    /\ UNCHANGED <<shutdown, void>>

\* A worker has run the statement.
Execute(q) == Moves(q, "issued", "executed")

\* lua_onsql gives the statement's own callback its result.
Answer(q) == shutdown # "done" /\ Moves(q, "executed", "answered")

\* lua_onServerClose.
Ask ==
    /\ shutdown = "no"
    /\ shutdown' = "asked"
    /\ UNCHANGED <<status, void>>

\* closeServerFinal.
Close ==
    /\ shutdown = "asked"
    /\ \A q \in 1..Len(status) : status[q] = "answered"
    /\ shutdown' = "done"
    /\ UNCHANGED <<status, void>>

\* Once a token has come round nothing is promised, and not before all of them
\* have been given out.
Void == (void \/ Len(status') > Tokens) /\ void'

Next ==
    \/ Issue \/ Ask \/ Close \/ Void
    \/ \E q \in 1..Len(status) : Execute(q) \/ Answer(q)

Spec == Init /\ [][Next]_service
===============================================================================
