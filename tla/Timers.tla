--------------------------------- MODULE Timers ---------------------------------
(* What timelib promises a script of a plan: its callback is run once at most,  *)
(* at a check of less than a grid length before its time or of any time after,  *)
(* and not once it has been cancelled; a plan made before the first check is    *)
(* not run at all.  Once a reload found the clock set back, time may go back    *)
(* too, and a cancelled plan may run after all.                                 *)
EXTENDS Integers

CONSTANT GridLen       \* how early a plan may run, and a bit less

VARIABLES now,         \* time of the last check, 0 before the first
          times,       \* the time of each plan not run yet; 0 if made before the first check
          ran,         \* plans that have run
          stopped,     \* plans cancelled before
          back         \* the clock has been set back

timers == <<now, times, ran, stopped, back>>

Init ==
    /\ now = 0 /\ times = [p \in {} |-> 0]
    /\ ran = {} /\ stopped = {} /\ back = FALSE

\* lua_onTimeCheck, at any later time.
Check ==
    /\ 0 < now' /\ (now <= now' \/ back)
    /\ UNCHANGED <<times, ran, stopped, back>>

\* createplan: a plan that was not there.
Plan(p) ==
    /\ p \notin DOMAIN times \cup ran
    /\ times' = [q \in DOMAIN times \cup {p} |-> IF q = p THEN times'[p] ELSE times[q]]
    /\ IF now = 0 THEN times'[p] = 0 ELSE times'[p] > now
    /\ UNCHANGED <<now, ran, stopped, back>>

\* The callback of a plan is called.
Run(p) ==
    /\ 0 < times[p] /\ times[p] < now + GridLen
    /\ p \notin stopped \/ back
    /\ times' = [q \in DOMAIN times \ {p} |-> times[q]]
    /\ ran' = ran \cup {p}
    /\ UNCHANGED <<now, stopped, back>>

\* Its handle cancels it.
Stop(p) == stopped' = stopped \cup {p} /\ UNCHANGED <<now, times, ran, back>>

\* The scripts are loaded again by a clock that was set back.
SetBack == back' = TRUE /\ UNCHANGED <<now, times, ran, stopped>>

Next ==
    \/ Check \/ SetBack
    \/ \E p \in DOMAIN times' : Plan(p)
    \/ \E p \in DOMAIN times : Run(p) \/ Stop(p)

Spec == Init /\ [][Next]_timers
================================================================================
