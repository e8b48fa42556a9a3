------------------------------ MODULE LogLibProofs -----------------------------
(* Theorems about the log writer: it is a client of asynchronous SQL like any  *)
(* other, it loses and repeats no log, and the shutdown waits for those forced *)
(* out.                                                                        *)
EXTENDS LogLib, DbLibProofs

-------------------------------------------------------------------------------
(* The inductive invariant, in parts; DbInv completes it.                      *)

\* A commit is only on the stack of a callback, or of lua_onServerClose.
CommitInv ==
    issuing # {} => loop = "running" /\ (shutting \/ call = Nil \/ InCallback)

\* While a shutdown is asked for, waits or has been carried out, what is on the
\* stack came after forceCommit.
LateInv ==
    /\ shutting => logstack = {}
    /\ closing \/ luaClosed => logstack \subseteq late
    /\ luaClosed => issuing = {}

\* Only statements that have been issued carry logs, and theirs is the database
\* that was noted.
CarryInv ==
    \A q \in Query : carries[q] # {} => q <= posted /\ q \in DOMAIN ranOn

LogInv == LogTypeOK /\ LogsConserved /\ CommitInv /\ LateInv /\ CarryInv

BothInv == DbInv /\ LogInv

-------------------------------------------------------------------------------
(* The statements of a commit.                                                 *)

\* What executeOneSql does for a part of the commit, whichever.
LEMMA ExecuteStep ==
    ASSUME BothInv, NEW S \in SUBSET issuing, S # {}, NEW db \in Databases, Execute(S, db)
    PROVE  Next /\ LogInv'
<1> DEFINE n == posted + 1
<1>1. /\ ExecSql /\ UNCHANGED <<call, heard, shutting, closing, luaClosed, frames, loop, dangling>>
      /\ UNCHANGED <<added, dbOf, withCbs, late, logstack, dropped>>
      /\ issuing' = issuing \ S
      /\ carries' = [carries EXCEPT ![n] = S]
      /\ DOMAIN ranOn' = DOMAIN ranOn \cup {n} /\ ranOn'[n] = db
      /\ \A q \in DOMAIN ranOn : q # n => ranOn'[q] = ranOn[q]
  BY DEF Execute, stop, entries
<1>2. n \in Query /\ posted' = n /\ posted \in Nat
  BY <1>1, DbAssumption DEF ExecSql, BothInv, DbInv, TypeOK, Query
<1>3. loop = "running" /\ (shutting \/ call = Nil \/ InCallback)
  BY DEF BothInv, LogInv, CommitInv
<1>4. ScriptSql \/ ForceCommitSql
  BY <1>1, <1>3 DEF ScriptSql, ForceCommitSql, Idle, stop
<1>5. Next
  BY <1>4 DEF Next
<1>6. carries \in [Query -> SUBSET (1..added)] /\ issuing \subseteq 1..added
  BY DEF BothInv, LogInv, LogTypeOK
<1>7. carries'[n] = S /\ \A q \in Query : q # n => carries'[q] = carries[q]
  BY <1>1, <1>2, <1>6
<1>8. carries[n] = {}
  BY <1>2 DEF BothInv, LogInv, CarryInv
<1>9. LogTypeOK'
  <2>1. \A q \in DOMAIN ranOn' : ranOn'[q] \in Databases
    BY <1>1 DEF BothInv, LogInv, LogTypeOK
  <2>2. carries' \in [Query -> SUBSET (1..added)]
    BY <1>1, <1>2, <1>6
  <2> QED
    BY <1>1, <1>2, <2>1, <2>2 DEF BothInv, LogInv, LogTypeOK
<1>10. LogsConserved'
  <2>1. ASSUME NEW l \in 1..added
        PROVE  l \in logstack \cup issuing' \cup dropped \/ \E q \in Query : l \in carries'[q]
    <3>1. CASE l \in S
      BY <3>1, <1>2, <1>7
    <3>2. CASE l \notin S
      <4>1. l \in logstack \cup issuing \cup dropped \/ \E q \in Query : l \in carries[q]
        BY DEF BothInv, LogInv, LogsConserved
      <4>2. ASSUME NEW q \in Query, l \in carries[q] PROVE l \in carries'[q]
        BY <4>2, <1>7, <1>8
      <4> QED
        BY <3>2, <4>1, <4>2, <1>1
    <3> QED
      BY <3>1, <3>2
  <2>2. \A q \in Query : carries'[q] \cap (logstack \cup issuing' \cup dropped) = {}
    BY <1>1, <1>7 DEF BothInv, LogInv, LogsConserved
  <2>3. ASSUME NEW p \in Query, NEW q \in Query, p # q
        PROVE  carries'[p] \cap carries'[q] = {}
    <3>1. \A r \in Query : S \cap carries[r] = {}
      BY DEF BothInv, LogInv, LogsConserved
    <3> QED
      BY <2>3, <3>1, <1>7 DEF BothInv, LogInv, LogsConserved
  <2> QED
    BY <1>1, <2>1, <2>2, <2>3 DEF BothInv, LogInv, LogsConserved
<1>11. CommitInv'
  <2>1. DOMAIN cbf \subseteq DOMAIN cbf' /\ (call # Nil => tok'[call] = tok[call])
    BY <1>1, ExecSqlStep DEF BothInv
  <2> QED
    BY <1>1, <1>3, <2>1 DEF CommitInv, InCallback
<1>12. LateInv'
  BY <1>1 DEF BothInv, LogInv, LateInv
<1>13. CarryInv'
  <2> SUFFICES ASSUME NEW q \in Query, carries'[q] # {}
               PROVE  q <= posted' /\ q \in DOMAIN ranOn'
    BY DEF CarryInv
  <2>1. CASE q = n
    BY <2>1, <1>1, <1>2
  <2>2. CASE q # n
    <3>1. q <= posted /\ q \in DOMAIN ranOn
      BY <2>2, <1>7 DEF BothInv, LogInv, CarryInv
    <3>2. q \in Nat
      BY DbAssumption DEF Query
    <3> QED
      BY <3>1, <3>2, <1>1, <1>2
  <2> QED
    BY <2>1, <2>2
<1> QED
  BY <1>5, <1>9, <1>10, <1>11, <1>12, <1>13 DEF LogInv

LEMMA IssueStep ==
    ASSUME BothInv, NEW l \in issuing, IssueAlone(l) \/ IssueMerged(l)
    PROVE  Next /\ LogInv'
<1>1. dbOf[l] \in Databases
  BY DEF BothInv, LogInv, LogTypeOK
<1>2. CASE IssueAlone(l)
  BY <1>1, <1>2, ExecuteStep DEF IssueAlone
<1>3. CASE IssueMerged(l)
  BY <1>1, <1>3, ExecuteStep DEF IssueMerged
<1> QED
  BY <1>2, <1>3

-------------------------------------------------------------------------------
(* The other steps.                                                            *)

\* addLog is no step of dblib, and puts the new log on the stack or in a commit.
LEMMA AddLogStep ==
    ASSUME BothInv, NEW db \in Databases \cup {NotGiven}, NEW hasCbs \in BOOLEAN, AddLog(db, hasCbs)
    PROVE  UNCHANGED dbvars /\ LogInv'
<1> DEFINE n == added + 1
           S == logstack \cup {n}
<1>1. /\ UNCHANGED dbvars /\ UNCHANGED <<carries, ranOn, dropped>>
      /\ issuing = {} /\ (Idle \/ (InCallback /\ ~shutting)) /\ added < MaxLogs
      /\ added' = n /\ withCbs' \subseteq withCbs \cup {n}
      /\ dbOf' = [l \in 1..n |-> IF l = n THEN LogDb(db) ELSE dbOf[l]]
      /\ late' = IF closing THEN late \cup {n} ELSE late
      /\ \/ issuing' = S /\ logstack' = {}
         \/ logstack' = S /\ issuing' = {}
  BY DEF AddLog, Quiet, Commit, written
<1>2. added \in Nat /\ 1..n = 1..added \cup {n} /\ n \notin 1..added /\ n \in 0..MaxLogs
  BY <1>1, LogAssumption DEF BothInv, LogInv, LogTypeOK
<1>3. loop = "running" /\ ~shutting /\ ~luaClosed
  BY <1>1 DEF Idle, InCallback, BothInv, DbInv, ClosedInv
<1>4. UNCHANGED <<token, cbf, posted, stage, tok, lapped, call, heard, shutting, closing,
                  luaClosed, frames, loop, dangling>>
  BY <1>1 DEF dbvars, sql, stop
<1>5. logstack \subseteq 1..added /\ dropped \subseteq 1..added
      /\ carries \in [Query -> SUBSET (1..added)]
      /\ \A q \in Query : carries[q] \subseteq 1..added
  BY DEF BothInv, LogInv, LogTypeOK
<1>6. LogTypeOK'
  <2>1. dbOf' \in [1..added' -> Databases]
    <3>1. LogDb(db) \in Databases
      BY LogAssumption DEF LogDb
    <3> QED
      BY <3>1, <1>1, <1>2 DEF BothInv, LogInv, LogTypeOK
  <2>2. carries' \in [Query -> SUBSET (1..added')]
    BY <1>1, <1>2, <1>5
  <2>3. /\ withCbs' \subseteq 1..added' /\ late' \subseteq 1..added'
        /\ logstack' \subseteq 1..added' /\ issuing' \subseteq 1..added' /\ dropped' \subseteq 1..added'
    BY <1>1, <1>2 DEF BothInv, LogInv, LogTypeOK
  <2> QED
    BY <1>1, <1>2, <2>1, <2>2, <2>3 DEF BothInv, LogInv, LogTypeOK
<1>7. LogsConserved'
  <2>1. ASSUME NEW l \in 1..added'
        PROVE  l \in logstack' \cup issuing' \cup dropped' \/ \E q \in Query : l \in carries'[q]
    <3>1. l = n \/ l \in 1..added
      BY <1>1, <1>2
    <3> QED
      BY <3>1, <1>1 DEF BothInv, LogInv, LogsConserved
  <2>2. n \notin dropped /\ \A q \in Query : n \notin carries[q]
    BY <1>2, <1>5
  <2> QED
    BY <1>1, <2>1, <2>2 DEF BothInv, LogInv, LogsConserved
<1>8. CommitInv'
  BY <1>1, <1>3, <1>4 DEF CommitInv, Idle, InCallback
<1>9. LateInv'
  BY <1>1, <1>3, <1>4 DEF BothInv, LogInv, LateInv
<1>10. CarryInv'
  BY <1>1, <1>4 DEF BothInv, LogInv, CarryInv
<1> QED
  BY <1>1, <1>6, <1>7, <1>8, <1>9, <1>10 DEF LogInv

LEMMA ShutdownStep ==
    ASSUME BothInv, LogServerClose \/ LogCloseSever PROVE Next /\ LogInv'
<1>1. CASE LogServerClose
  <2>1. /\ OnServerClose /\ issuing = {} /\ shutting' = TRUE
        /\ UNCHANGED <<token, cbf, posted, stage, tok, lapped, call, heard, closing>>
        /\ UNCHANGED <<luaClosed, frames, loop, dangling>>
        /\ UNCHANGED <<added, dbOf, withCbs, late, carries, ranOn, dropped>>
        /\ issuing' = logstack /\ logstack' = {}
    BY <1>1 DEF LogServerClose, OnServerClose, Quiet, ForceCommit, Commit, sql, stop,
                entries, written
  <2>2. loop = "running" /\ ~luaClosed
    BY <2>1 DEF OnServerClose, Idle, InCallback, BothInv, DbInv, ClosedInv
  <2>3. LogTypeOK'
    BY <2>1 DEF BothInv, LogInv, LogTypeOK
  <2>4. LogsConserved'
    BY <2>1 DEF BothInv, LogInv, LogsConserved
  <2>5. CommitInv' /\ LateInv' /\ CarryInv'
    BY <2>1, <2>2 DEF BothInv, LogInv, CommitInv, LateInv, CarryInv
  <2> QED
    BY <2>1, <2>3, <2>4, <2>5 DEF Next, LogInv
<1>2. CASE LogCloseSever
  <2>1. /\ CloseSever /\ issuing = {} /\ shutting
        /\ UNCHANGED <<posted, added, dbOf, withCbs, late, logstack, issuing, carries, ranOn, dropped>>
    BY <1>2 DEF LogCloseSever, CloseSeverLast, CloseSever, Quiet, sql, entries, written
  <2>2. logstack = {}
    BY <2>1 DEF BothInv, LogInv, LateInv
  <2>3. LogTypeOK' /\ LogsConserved'
    BY <2>1 DEF BothInv, LogInv, LogTypeOK, LogsConserved
  <2>4. CommitInv' /\ LateInv' /\ CarryInv'
    BY <2>1, <2>2 DEF BothInv, LogInv, CommitInv, LateInv, CarryInv
  <2> QED
    BY <2>1, <2>3, <2>4 DEF Next, LogInv
<1> QED
  BY <1>1, <1>2

LEMMA ReloadStep ==
    ASSUME BothInv, Reload PROVE UNCHANGED dbvars /\ LogInv'
<1>1. /\ UNCHANGED dbvars /\ UNCHANGED <<added, dbOf, withCbs, late, issuing, carries, ranOn>>
      /\ issuing = {} /\ logstack' = {} /\ dropped' = dropped \cup logstack
      /\ UNCHANGED <<shutting, closing, luaClosed, posted>>
  BY DEF Reload, Quiet, entries, written, dbvars, sql, stop
<1>2. LogTypeOK' /\ LogsConserved'
  BY <1>1 DEF BothInv, LogInv, LogTypeOK, LogsConserved
<1>3. CommitInv' /\ LateInv' /\ CarryInv'
  BY <1>1 DEF BothInv, LogInv, CommitInv, LateInv, CarryInv
<1> QED
  BY <1>1, <1>2, <1>3 DEF LogInv

LEMMA OtherStep ==
    ASSUME BothInv, OtherLoopStep \/ WorkerStep PROVE Next /\ LogInv'
<1>1. /\ Next
      /\ UNCHANGED <<added, dbOf, withCbs, late, logstack, issuing, carries, ranOn, dropped>>
  BY DEF OtherLoopStep, WorkerStep, Next, entries, written
<1>2. LogTypeOK' /\ LogsConserved'
  BY <1>1 DEF BothInv, LogInv, LogTypeOK, LogsConserved
<1>3. CarryInv'
  <2>1. posted' = posted \/ posted' = posted + 1
    BY DEF OtherLoopStep, WorkerStep, ScriptSql, ExecSql, AfterWork, OnSqlReturns,
           OnSqlRaises, Unwind, LateCallback, LoopEnds, WorkerTakes, WorkerDone, sql
  <2>2. posted \in Nat /\ Query \subseteq Nat
    BY DbAssumption DEF BothInv, DbInv, TypeOK, Query
  <2> QED
    BY <1>1, <2>1, <2>2 DEF BothInv, LogInv, CarryInv
<1>4. CASE WorkerStep
  <2>1. UNCHANGED <<cbf, tok, call, shutting, closing, luaClosed, loop>>
    BY <1>4 DEF WorkerStep, WorkerTakes, WorkerDone, stop
  <2>2. CommitInv' /\ LateInv'
    BY <1>1, <2>1 DEF BothInv, LogInv, CommitInv, LateInv, InCallback
  <2> QED
    BY <1>1, <1>2, <1>3, <2>2 DEF LogInv
<1>5. CASE OtherLoopStep
  <2>1. /\ issuing = {} /\ UNCHANGED shutting
        /\ closing' => closing
        /\ luaClosed' => luaClosed \/ closing
    BY <1>5 DEF OtherLoopStep, Quiet, ScriptSql, AfterWork, OnSqlReturns, OnSqlRaises,
                Unwind, LateCallback, LoopEnds, stop, CloseServerFinal, ShutdownDue
  <2>2. CommitInv' /\ LateInv'
    BY <1>1, <2>1 DEF BothInv, LogInv, CommitInv, LateInv
  <2> QED
    BY <1>1, <1>2, <1>3, <2>2 DEF LogInv
<1> QED
  BY <1>4, <1>5

LEMMA LogInvInit == LogInit => BothInv
<1> SUFFICES ASSUME LogInit PROVE BothInv
  OBVIOUS
<1>1. DbInv
  BY DbInvInit DEF LogInit
<1>2. LogTypeOK
  BY LogAssumption DEF LogInit, LogTypeOK
<1>3. LogsConserved
  BY DEF LogInit, LogsConserved
<1>4. CommitInv /\ LateInv /\ CarryInv
  BY DEF LogInit, CommitInv, LateInv, CarryInv
<1> QED
  BY <1>1, <1>2, <1>3, <1>4 DEF BothInv, LogInv

\* Every step of the log writer is one of asynchronous SQL or leaves it alone, and
\* keeps the invariant.
LEMMA LogStep == BothInv /\ [LogNext]_logvars => BothInv' /\ [Next]_dbvars
<1> SUFFICES ASSUME BothInv, [LogNext]_logvars PROVE LogInv' /\ [Next]_dbvars
  BY DbInvStep DEF BothInv
<1>1. CASE \E db \in Databases \cup {NotGiven}, hasCbs \in BOOLEAN : AddLog(db, hasCbs)
  BY <1>1, AddLogStep
<1>2. CASE \E l \in issuing : IssueAlone(l) \/ IssueMerged(l)
  BY <1>2, IssueStep
<1>3. CASE LogServerClose \/ LogCloseSever
  BY <1>3, ShutdownStep
<1>4. CASE Reload
  BY <1>4, ReloadStep
<1>5. CASE OtherLoopStep \/ WorkerStep
  BY <1>5, OtherStep
<1>6. CASE UNCHANGED logvars
  <2>1. UNCHANGED dbvars
    BY <1>6 DEF logvars
  <2>2. /\ UNCHANGED <<added, dbOf, withCbs, late, logstack, issuing, carries, ranOn, dropped>>
        /\ UNCHANGED <<cbf, tok, call, shutting, closing, luaClosed, loop, posted>>
    BY <1>6 DEF logvars, entries, written, dbvars, sql, stop
  <2>3. LogTypeOK' /\ LogsConserved'
    BY <2>2 DEF BothInv, LogInv, LogTypeOK, LogsConserved
  <2>4. CommitInv' /\ LateInv' /\ CarryInv'
    BY <2>2 DEF BothInv, LogInv, CommitInv, LateInv, CarryInv, InCallback
  <2> QED
    BY <2>1, <2>3, <2>4 DEF LogInv
<1> QED
  BY <1>1, <1>2, <1>3, <1>4, <1>5, <1>6 DEF LogNext

\* A statement's database is that of a log none of the others came after.
LEMMA DatabaseStep ==
    ASSUME BothInv, DatabaseOfLast, [LogNext]_logvars
    PROVE  DatabaseOfLast'
<1>1. carries \in [Query -> SUBSET (1..added)] /\ dbOf \in [1..added -> Databases] /\ added \in Nat
  BY DEF BothInv, LogInv, LogTypeOK
<1>2. CASE \E db \in Databases \cup {NotGiven}, hasCbs \in BOOLEAN : AddLog(db, hasCbs)
  <2>1. /\ added' = added + 1 /\ UNCHANGED <<carries, ranOn>>
        /\ \A l \in 1..added : dbOf'[l] = dbOf[l]
    BY <1>1, <1>2 DEF AddLog, written
  <2> QED
    BY <1>1, <2>1 DEF DatabaseOfLast
<1>3. ASSUME NEW l \in issuing, NEW S \in SUBSET issuing, Execute(S, dbOf[l]),
             \A k \in S : k < l \/ k = l, l \in S
      PROVE  DatabaseOfLast'
  <2> DEFINE n == posted + 1
  <2>1. /\ UNCHANGED dbOf /\ carries' = [carries EXCEPT ![n] = S]
        /\ ranOn' = [q \in DOMAIN ranOn \cup {n} |-> IF q = n THEN dbOf[l] ELSE ranOn[q]]
    BY <1>3 DEF Execute, entries
  <2>2. ASSUME NEW q \in Query, NEW k \in carries'[q]
        PROVE  \/ ranOn'[q] = dbOf'[k]
               \/ \E j \in carries'[q] : k < j /\ dbOf'[j] # dbOf'[k]
    <3>1. CASE q = n
      <4>1. carries'[q] = S /\ ranOn'[q] = dbOf[l]
        BY <1>1, <2>1, <3>1
      <4> QED
        BY <1>3, <2>1, <2>2, <4>1
    <3>2. CASE q # n
      <4>1. carries'[q] = carries[q]
        BY <1>1, <2>1, <3>2
      <4>2. q \in DOMAIN ranOn
        BY <2>2, <4>1 DEF BothInv, LogInv, CarryInv
      <4>3. ranOn'[q] = ranOn[q]
        BY <2>1, <3>2, <4>2
      <4> QED
        BY <2>1, <2>2, <4>1, <4>3 DEF DatabaseOfLast
    <3> QED
      BY <3>1, <3>2
  <2> QED
    BY <2>2 DEF DatabaseOfLast
<1>4. issuing \subseteq Nat
  BY DEF BothInv, LogInv, LogTypeOK
<1>5. ASSUME NEW l \in issuing, IssueAlone(l) PROVE DatabaseOfLast'
  BY <1>3, <1>5 DEF IssueAlone
<1>6. ASSUME NEW l \in issuing, IssueMerged(l) PROVE DatabaseOfLast'
  <2>1. \A k \in issuing : k < l \/ k = l
    BY <1>4, <1>6 DEF IssueMerged, NamesDb
  <2> QED
    BY <1>3, <1>6, <2>1 DEF IssueMerged
<1>7. CASE \/ LogServerClose \/ LogCloseSever \/ Reload \/ OtherLoopStep \/ WorkerStep
           \/ UNCHANGED logvars
  <2>1. UNCHANGED <<dbOf, carries, ranOn>>
    BY <1>7 DEF LogServerClose, LogCloseSever, Reload, OtherLoopStep, WorkerStep, logvars, entries, written
  <2> QED
    BY <2>1 DEF DatabaseOfLast
<1> QED
  BY <1>2, <1>5, <1>6, <1>7 DEF LogNext

-------------------------------------------------------------------------------
(* The theorems.                                                               *)

\* The inductive invariant holds throughout.
THEOREM LogInvariance == LogSpec => []BothInv
  BY LogInvInit, LogStep, PTL DEF LogSpec

\* loglib's variables keep their types.
THEOREM LogTypeCorrect == LogSpec => []LogTypeOK
<1>1. BothInv => LogTypeOK
  BY DEF BothInv, LogInv
<1> QED
  BY <1>1, LogInvariance, PTL

\* loglib is a client of dblib like any other script: with it, dblib and the
\* shutdown still behave as DbLib's specification says.
THEOREM LogRefinement == LogSpec => ImplementsDbLib
<1>1. LogInit => Init
  BY DEF LogInit
<1> QED
  BY <1>1, LogStep, LogInvariance, PTL DEF LogSpec, Spec, ImplementsDbLib

\* So the scripts are promised the same of asynchronous SQL with the log writer as
\* without it: its statements too are answered before the server closes.
THEOREM LogServiceKept == LogSpec => ImplementsService
  BY LogRefinement, DbRefinement, PTL DEF ImplementsDbLib

\* For any number of logs and any size of commit, a log is in one place: none is
\* lost between addLog and its statement, and none is inserted twice.
THEOREM NoLogLostOrRepeated == LogSpec => []LogsConserved
<1>1. BothInv => LogsConserved
  BY DEF BothInv, LogInv
<1> QED
  BY <1>1, LogInvariance, PTL

\* For any number of logs and databases, a log runs on another database than its own
\* only where a later log of its statement names another (loglib.lua:80).
THEOREM LastNamesDatabase == LogSpec => []DatabaseOfLast
<1>1. LogInit => DatabaseOfLast
  BY DEF LogInit, DatabaseOfLast
<1> QED
  BY <1>1, DatabaseStep, LogInvariance, PTL DEF LogSpec

\* Lua is closed only after the logs added before the shutdown was asked for have
\* been written and answered (gsmain.lua:86).
THEOREM LogsWaitedFor == LogSpec => []LogsBeforeClose
<1>1. BothInv /\ ClosedAfterLastResult => LogsBeforeClose
  <2> SUFFICES ASSUME BothInv, ClosedAfterLastResult, luaClosed, ~lapped,
                      NEW l \in 1..added \ (dropped \cup late)
               PROVE  \E q \in Query :
                        l \in carries[q] /\ stage[q] = "answered" /\ heard[q] = {q}
    BY DEF LogsBeforeClose
  <2>1. l \notin logstack \cup issuing \cup dropped
    BY DEF BothInv, LogInv, LateInv
  <2>2. PICK q \in Query : l \in carries[q]
    BY <2>1 DEF BothInv, LogInv, LogsConserved
  <2>3. q \in 1..posted
    BY <2>2, DbAssumption DEF BothInv, LogInv, CarryInv, DbInv, TypeOK, Query
  <2> QED
    BY <2>2, <2>3 DEF ClosedAfterLastResult
<1>2. Spec => []ClosedAfterLastResult
  BY CloseWaits
<1> QED
  BY <1>1, <1>2, LogRefinement, LogInvariance, PTL DEF ImplementsDbLib
===============================================================================
