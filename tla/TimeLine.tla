-------------------------------- MODULE TimeLine -------------------------------
(* The timers of the server's scripts, common/timelib.lua, driven by the frame *)
(* timer of GameServer.cpp through lua_onTimeCheck.                            *)
(*                                                                             *)
(* A plan is a callback in a slot of one grid length; ontimecheck runs the     *)
(* slots the clock has gone past.  Its callbacks are scripts: while one is on  *)
(* the stack it makes and cancels plans, and the scan goes on when it returns. *)
(* getServerTime is the wall clock, which can be set to any time.              *)
EXTENDS Integers

CONSTANTS GridLen,     \* timelib.gridlen (100)
          Delays,      \* the delays in ms the scripts ask for
          Epoch,       \* no clock is set before it: far from 1970, where lasttime is 0
          Key,         \* the keys of a timeout table
          Script,      \* the use of a plan that is a script's own, not a key
          MaxPlans,    \* bound: plans made
          MaxTime,     \* bound: the latest time of the clock
          MaxBack      \* bound: reloads after the clock was set back

Ceil(ms) == (ms + GridLen - 1) \div GridLen

ASSUME TimeAssumption ==
    /\ GridLen \in Nat \ {0}
    /\ Delays \subseteq Nat \ {0}
    /\ Epoch \in Nat \ {0} /\ MaxTime \in Nat /\ Epoch <= MaxTime
    /\ \A d \in Delays : Ceil(d) < Ceil(Epoch)
    /\ MaxPlans \in Nat /\ MaxBack \in Nat
    /\ Script \notin Key

Time == Epoch..MaxTime
Plan == 1..MaxPlans
Slot == 0..Ceil(MaxTime)

\* NULL_FUNC, which cancel puts in a plan's place; no plan is 0.
NullFunc == 0

VARIABLES
    mstime,      \* server.mstime
    time,        \* timelib.time
    lasttime,    \* timelib.lasttime
    timeline,    \* timelib.timeline: the table of each slot, by index
    plan,        \* what createplan's closures keep: raise_time, inx and the callback's use
    data,        \* the plan of the item under each key of the timeout table, or 0
    scan,        \* ontimecheck's loops: slot, index, number of callbacks
    expiring,    \* {k} while the callback on the stack is to delete the item of k
    \* For the properties only:
    checked,     \* server.mstime at the last ontimecheck
    due,         \* `checked` when each plan was made plus its delay; 0 for plans made
                 \* before the first check and for those that have run
    fired,       \* plans the scan has run
    stopped,     \* plans cancelled by their own handle before they ran
    backs,       \* reloads that found the clock set back
    retaken      \* keys assigned while an earlier item's deletion was to come

clock == <<mstime, time, lasttime, checked>>
ghosts == <<due, fired, stopped, backs, retaken>>
vars == <<clock, timeline, plan, data, scan, expiring, ghosts>>

Made == DOMAIN plan
NoScan == [at |-> 0, j |-> 0, n |-> 0]
Scanning == scan # NoScan

\* A slot that is nil; f with x mapped to v.
NoTable == [x \in {} |-> NullFunc]
Put(f, x, v) == [y \in DOMAIN f \cup {x} |-> IF y = x THEN v ELSE f[y]]

\* Lua's # of a table may be any border of it; a table without holes has one.
IsBorder(f, n) == n + 1 \notin DOMAIN f /\ (n = 0 \/ n \in DOMAIN f)
Borders(f) == {n \in {0} \cup DOMAIN f : IsBorder(f, n)}

TypeOK ==
    /\ mstime \in Time /\ checked \in Time \cup {0}
    /\ time \in Slot /\ lasttime \in Slot
    /\ Made \subseteq Plan /\ DOMAIN due = Made
    /\ DOMAIN timeline = Slot
    /\ \A s \in Slot : /\ DOMAIN timeline[s] \subseteq Made
                       /\ \A x \in DOMAIN timeline[s] : timeline[s][x] \in Made \cup {NullFunc}
    /\ plan \in [Made -> [raise : Slot, inx : Made, use : Key \cup {Script}]]
    /\ due \in [Made -> Nat]
    /\ data \in [Key -> Made \cup {0}] /\ expiring \subseteq Key
    /\ scan \in [at : Slot, j : 0..MaxPlans, n : 0..MaxPlans] /\ scan.j <= scan.n
    /\ fired \subseteq Made /\ stopped \subseteq Made
    /\ backs \in 0..MaxBack /\ retaken \subseteq Key

Init ==
    /\ mstime \in Time /\ time = 0 /\ lasttime = 0 /\ checked = 0
    /\ timeline = [s \in Slot |-> NoTable]
    /\ plan = [p \in {} |-> 0] /\ due = [p \in {} |-> 0]
    /\ data = [k \in Key |-> 0]
    /\ scan = NoScan /\ expiring = {}
    /\ fired = {} /\ stopped = {} /\ backs = 0 /\ retaken = {}

-------------------------------------------------------------------------------
(* The time check.                                                             *)

\* The slot that was run is emptied; a mutant keeps it.
SlotKept == timeline
SlotRun == [timeline EXCEPT ![scan.at] = NoTable]

\* Where ontimecheck leaves lasttime when there is nothing to scan; the mutant
\* leaves it alone.
LastTimeKept(t) == lasttime
LastTime(t) == t

\* lua_onTimeCheck(t): a clock that was set back is not looked at.
Frame(t) ==
    /\ ~Scanning
    /\ t >= mstime
    /\ mstime' = t /\ checked' = t /\ time' = Ceil(t)
    /\ IF lasttime # 0 /\ lasttime < time'
       THEN /\ \E n \in Borders(timeline[lasttime]) : scan' = [at |-> lasttime, j |-> 0, n |-> n]
            /\ UNCHANGED lasttime
       ELSE lasttime' = LastTime(time') /\ UNCHANGED scan
    /\ UNCHANGED <<timeline, plan, data, expiring, ghosts>>

\* The key whose item the callback of plan p deletes, if any; a mutant forgets
\* that scripts have plans of their own.
AnyItemOf(p) == {plan[p].use}
ItemOf(p) == {plan[p].use} \ {Script}

\* The j-th callback of the slot is called.  An entry missing from a table with
\* holes is an error that xpcall catches.
CallNext ==
    /\ Scanning /\ expiring = {} /\ scan.j < scan.n
    /\ scan' = [scan EXCEPT !.j = scan.j + 1]
    /\ LET p == IF scan.j + 1 \in DOMAIN timeline[scan.at] THEN timeline[scan.at][scan.j + 1]
                ELSE NullFunc
       IN  IF p = NullFunc THEN UNCHANGED <<fired, expiring, due>>
           ELSE /\ expiring' = ItemOf(p)
                /\ fired' = fired \cup {p} /\ due' = [due EXCEPT ![p] = 0]
    /\ UNCHANGED <<clock, timeline, plan, data, stopped, backs, retaken>>

\* An item's callback goes on to delete it after callback_timeout returned.
DeleteItem ==
    /\ expiring # {}
    /\ data' = [k \in Key |-> IF k \in expiring THEN 0 ELSE data[k]]
    /\ expiring' = {}
    /\ UNCHANGED <<clock, timeline, plan, scan, ghosts>>

\* The slot is done, and the scan goes to the next one or ends.
SlotDone ==
    /\ Scanning /\ expiring = {} /\ scan.j = scan.n
    /\ timeline' = SlotRun
    /\ IF scan.at < time
       THEN /\ \E n \in Borders(timeline[scan.at + 1]) : scan' = [at |-> scan.at + 1, j |-> 0, n |-> n]
            /\ UNCHANGED lasttime
       ELSE scan' = NoScan /\ lasttime' = LastTime(time)
    /\ UNCHANGED <<mstime, time, checked, plan, data, expiring, ghosts>>

-------------------------------------------------------------------------------
(* What scripts do, in a callback of the scan or of the loop.                  *)

InScript == Scanning => scan.j > 0

\* The slot of a delay; a mutant rounds down.
SlotsDown(d) == d \div GridLen
Slots(d) == Ceil(d)

\* createplan: plan p, whose callback's use is u.
Create(p, d, u) ==
    /\ InScript
    /\ p \in Plan \ Made /\ 1..(p - 1) \subseteq Made
    /\ time + Slots(d) \in Slot
    /\ LET s == time + Slots(d) IN
        \E b \in Borders(timeline[s]) : LET tbl == Put(timeline[s], b + 1, p) IN
            /\ timeline' = [timeline EXCEPT ![s] = tbl]
            /\ \E n \in Borders(tbl) : plan' = Put(plan, p, [raise |-> s, inx |-> n, use |-> u])
    /\ due' = Put(due, p, IF checked = 0 THEN 0 ELSE checked + d)
    /\ UNCHANGED <<clock, scan, expiring, fired, backs>>

CreatePlan ==
    /\ \E p \in Plan, d \in Delays : Create(p, d, Script)
    /\ UNCHANGED <<data, stopped, retaken>>

\* The closure cancel of plan p, on whatever the slot's table is now; a mutant
\* takes the entry out.
CancelRemoves(p) ==
    LET f == timeline[plan[p].raise] i == plan[p].inx IN
    [timeline EXCEPT ![plan[p].raise] =
        [x \in DOMAIN f \ {y \in DOMAIN f : y + 1 \notin DOMAIN f} |-> IF x < i THEN f[x] ELSE f[x + 1]]]
Cancelled(p) ==
    LET s == plan[p].raise IN
    IF DOMAIN timeline[s] = {} THEN timeline
    ELSE [timeline EXCEPT ![s] = Put(timeline[s], plan[p].inx, NullFunc)]

Cancel(p) ==
    /\ InScript /\ p \in Made
    /\ timeline' = Cancelled(p) /\ stopped' = stopped \cup ({p} \ fired)
    /\ UNCHANGED <<clock, plan, scan, expiring, due, fired, backs>>

\* A plan's cancel; or its run, which calls the callback, a script, and then
\* cancel, which an error of the callback leaves out.
CancelPlan ==
    /\ \E p \in Made : plan[p].use = Script /\ Cancel(p)
    /\ UNCHANGED <<data, retaken>>

\* tbl[k] = value: the plan of an item that was there stays.
AssignItem(k) ==
    /\ \E p \in Plan, d \in Delays : Create(p, d, k) /\ data' = [data EXCEPT ![k] = p]
    /\ retaken' = IF data[k] = 0 /\ k \notin expiring THEN retaken ELSE retaken \cup {k}
    /\ UNCHANGED stopped

\* delItem; mutants forget to cancel the plan, or to take the item out.
DelItemOnly(k) == /\ InScript /\ data' = [data EXCEPT ![k] = 0]
                  /\ UNCHANGED <<clock, timeline, plan, scan, expiring, ghosts>>
DelItemCancels(k) == Cancel(data[k]) /\ UNCHANGED <<data, retaken>>
DelItem(k) == Cancel(data[k]) /\ data' = [data EXCEPT ![k] = 0] /\ UNCHANGED retaken

DeleteByScript(k) == data[k] # 0 /\ DelItem(k)

\* The scripts are loaded again: timelib is kept, server.mstime is set anew.
Reload(t) ==
    /\ InScript /\ t # mstime
    /\ mstime' = t
    /\ IF t < mstime THEN backs < MaxBack /\ backs' = backs + 1 ELSE UNCHANGED backs
    /\ UNCHANGED <<time, lasttime, checked, timeline, plan, data, scan, expiring>>
    /\ UNCHANGED <<due, fired, stopped, retaken>>

Check == CallNext \/ DeleteItem \/ SlotDone

Next ==
    \/ \E t \in Time : Frame(t) \/ Reload(t)
    \/ Check
    \/ CreatePlan \/ CancelPlan
    \/ \E k \in Key : AssignItem(k) \/ DeleteByScript(k)

\* The frame timer repeats and the clock goes on; a scan's callbacks return.
Fairness == WF_vars(\E t \in Time : Frame(t)) /\ WF_vars(Check)

Spec == Init /\ [][Next]_vars
FairSpec == Spec /\ Fairness

-------------------------------------------------------------------------------
(* Properties.                                                                 *)

\* The scan is about to call plan p.
Calls(p) == CallNext /\ scan.j + 1 \in DOMAIN timeline[scan.at] /\ timeline[scan.at][scan.j + 1] = p

\* Whatever plans its callbacks make and cancel, the scan runs no plan twice; and
\* none that its handle has cancelled, unless a reload set the time back
\* (timelib.lua:22, :47).
RunsOnce == [][\A p \in Made : Calls(p) => p \notin fired /\ (p \in stopped => backs > 0)]_vars

\* A plan runs less than one grid early, by the time of the checks it was made
\* after and runs in; one made before the first check is never run, though
\* createplan takes it (timelib.lua:18, :34, :37).
NotEarly == [][\A p \in Made : Calls(p) => due[p] > 0 /\ checked + GridLen > due[p]]_vars

\* What the scripts are promised: a plan runs once at most, less than a grid early
\* by the time of the checks, and, until a reload finds the clock set back, not after
\* it was cancelled; one made before the first check never runs (timelib.lua:18, :22, :47).
Timer == INSTANCE Timers WITH
    now <- checked, times <- [p \in Made \ fired |-> due[p]], ran <- fired, back <- backs > 0
ImplementsTimers == Timer!Spec

\* Where the scan is: the slots below have been run.
Reached(s) == IF Scanning THEN s < scan.at ELSE s <= time

\* A plan made after the first check is run, cancelled by its own handle, or still
\* in its place in a slot to come; unless a reload set the time back, when a stale
\* cancel may have hit it.  A plan made before is in a slot that is never run.
NoneLost ==
    backs = 0 => \A p \in Made \ (fired \cup stopped) :
        /\ plan[p].inx \in DOMAIN timeline[plan[p].raise]
        /\ timeline[plan[p].raise][plan[p].inx] = p
        /\ due[p] > 0 =>
            /\ ~Reached(plan[p].raise)
            /\ Scanning /\ plan[p].raise = scan.at => scan.j < plan[p].inx /\ plan[p].inx <= scan.n

\* An item in a timeout table has its own deletion to come, or under way: none
\* is forgotten there (timelib.lua:98).
ItemsWillExpire ==
    backs = 0 => \A k \in Key : data[k] # 0 =>
        \/ k \in expiring
        \/ \E x \in DOMAIN timeline[plan[data[k]].raise] : timeline[plan[data[k]].raise][x] = data[k]

\* An item is deleted before its own time only if its key was assigned again
\* without delItem, which leaves the first deletion planned, or was assigned by
\* callback_timeout of the item before, which is deleted after it (timelib.lua:94);
\* or a reload set the time back.
ItemKept ==
    [][\A k \in Key \ retaken :
        backs = 0 /\ DeleteItem /\ k \in expiring /\ data[k] # 0 => data[k] \in fired]_vars

\* A plan made after the first check is run in the end, unless it is cancelled or
\* a reload set the time back.
PlansRun == \A p \in Plan :
    (p \in Made /\ due[p] > 0) ~> (p \in fired \cup stopped \/ backs > 0)
===============================================================================
