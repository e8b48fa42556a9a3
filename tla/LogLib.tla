--------------------------------- MODULE LogLib --------------------------------
(* The log writer common/loglib.lua over asynchronous SQL, and what becomes of *)
(* its logs when the server shuts down or its scripts are reloaded.            *)
(*                                                                             *)
(* The logs are numbered in the order of addLog.  `issuing` holds those of a   *)
(* commit that is on the stack: while it is not empty no other callback runs,  *)
(* and only the worker threads go on.                                          *)
EXTENDS DbLib

CONSTANTS Databases,     \* the databases of servercfg.dbinfo
          NotGiven,      \* addLog was called without a database
          CommitAt,      \* loglib.occurredCount (5)
          MaxLogs        \* bound: logs added

ASSUME LogAssumption ==
    /\ CommitAt \in Nat \ {0} /\ MaxLogs \in Nat
    /\ "dglog" \in Databases /\ NotGiven \notin Databases

Log == 1..MaxLogs

VARIABLES
    added,       \* logs added so far
    logstack,    \* loglib.logstack
    dbOf,        \* logdbname of each log added
    withCbs,     \* the logs that have a callback
    late,        \* logs added while a shutdown waited
    issuing,     \* logs of the commit under way, not in a statement yet
    carries,     \* the logs each statement inserts
    ranOn,       \* the database each of these statements runs on
    dropped      \* logs a reload has thrown away

entries == <<added, dbOf, withCbs, late>>
written == <<carries, ranOn>>
logvars == <<dbvars, entries, logstack, issuing, written, dropped>>

LogTypeOK ==
    /\ added \in 0..MaxLogs
    /\ dbOf \in [1..added -> Databases]
    /\ withCbs \subseteq 1..added /\ late \subseteq 1..added
    /\ logstack \subseteq 1..added /\ issuing \subseteq 1..added /\ dropped \subseteq 1..added
    /\ carries \in [Query -> SUBSET (1..added)]
    /\ DOMAIN ranOn \subseteq Query /\ \A q \in DOMAIN ranOn : ranOn[q] \in Databases

LogInit ==
    /\ Init
    /\ added = 0 /\ dbOf = [l \in {} |-> Nil] /\ withCbs = {} /\ late = {}
    /\ logstack = {} /\ issuing = {} /\ dropped = {}
    /\ carries = [q \in Query |-> {}] /\ ranOn = [q \in {} |-> Nil]

\* No commit is on the stack.
Quiet == issuing = {}

-------------------------------------------------------------------------------
(* Adding and committing.                                                      *)

\* loglib.commit takes the logs and starts an empty stack; a mutant that leaves
\* them there.
CommitCopy(S) == issuing' = S /\ logstack' = S
Commit(S) == issuing' = S /\ logstack' = {}

\* The database of a log; a mutant without the default.
LogDbGiven(db) == db
LogDb(db) == IF db = NotGiven THEN "dglog" ELSE db

\* loglib.addLog, called by a script in some callback of the loop or in the
\* callback of a statement.
AddLog(db, hasCbs) ==
    /\ Quiet /\ (Idle \/ (InCallback /\ ~shutting))
    /\ added < MaxLogs
    /\ added' = added + 1
    /\ dbOf' = [l \in 1..(added + 1) |-> IF l = added + 1 THEN LogDb(db) ELSE dbOf[l]]
    /\ withCbs' = IF hasCbs THEN withCbs \cup {added + 1} ELSE withCbs
    /\ late' = IF closing THEN late \cup {added + 1} ELSE late
    /\ LET S == logstack \cup {added + 1} IN
        IF Cardinality(S) >= CommitAt THEN Commit(S) ELSE logstack' = S /\ UNCHANGED issuing
    /\ UNCHANGED <<dbvars, written, dropped>>

\* loglib.executeOneSql: the next statement inserts the logs S into db.
Execute(S, db) ==
    /\ ExecSql
    /\ carries' = [carries EXCEPT ![posted + 1] = S]
    /\ ranOn' = [q \in DOMAIN ranOn \cup {posted + 1} |-> IF q = posted + 1 THEN db ELSE ranOn[q]]
    /\ issuing' = issuing \ S
    /\ UNCHANGED <<call, heard, shutting, closing, stop, entries, logstack, dropped>>

\* pushSqlInDetail: a log with a callback is a statement by itself, in order.
IssueAlone(l) ==
    /\ l \in issuing \cap withCbs
    /\ \A k \in issuing \cap withCbs : l <= k
    /\ Execute({l}, dbOf[l])

\* The log whose database the merged statement runs on; a mutant takes the first.
NamesDbFirst(l) == \A k \in issuing : l <= k
NamesDb(l) == \A k \in issuing : k <= l

\* pushSqlInDetail: the logs without callbacks are merged into one statement,
\* which runs on the database of the last of them.
IssueMerged(l) ==
    /\ l \in issuing /\ issuing \cap withCbs = {}
    /\ NamesDb(l)
    /\ Execute(issuing, dbOf[l])

-------------------------------------------------------------------------------
(* Shutdown and reload.                                                        *)

\* loglib.forceCommit; the mutant thinks one log is not worth a commit.
ForceCommitMany == IF Cardinality(logstack) > 1 THEN Commit(logstack) ELSE UNCHANGED <<issuing, logstack>>
ForceCommit == IF logstack # {} THEN Commit(logstack) ELSE UNCHANGED <<issuing, logstack>>

\* lua_onServerClose starts: forceCommit takes what is on the stack.
LogServerClose ==
    /\ Quiet
    /\ OnServerClose
    /\ ForceCommit
    /\ UNCHANGED <<entries, written, dropped>>

\* dblib.closeSever comes last in lua_onServerClose; the mutant has it first.
CloseSeverFirst == CloseSever
CloseSeverLast == Quiet /\ CloseSever

LogCloseSever ==
    /\ CloseSeverLast
    /\ UNCHANGED <<entries, logstack, issuing, written, dropped>>

\* reloadScript runs loglib.lua again, which empties logstack; dblib is kept.
Reload ==
    /\ Quiet /\ Idle
    /\ logstack # {}
    /\ logstack' = {} /\ dropped' = dropped \cup logstack
    /\ UNCHANGED <<dbvars, entries, issuing, written>>

\* The loop's and the scripts' other steps; the bound leaves room for the logs.
OtherLoopStep ==
    /\ Quiet
    /\ \/ posted + (MaxLogs - added) + Cardinality(logstack) < MaxQueries /\ ScriptSql
       \/ \E q \in Query : AfterWork(q)
       \/ OnSqlReturns \/ OnSqlRaises
       \/ Unwind \/ LateCallback \/ LoopEnds
    /\ UNCHANGED <<entries, logstack, issuing, written, dropped>>

\* The worker threads do not wait for a commit.
WorkerStep ==
    /\ \E q \in Query : WorkerTakes(q) \/ WorkerDone(q)
    /\ UNCHANGED <<entries, logstack, issuing, written, dropped>>

LogNext ==
    \/ \E db \in Databases \cup {NotGiven}, hasCbs \in BOOLEAN : AddLog(db, hasCbs)
    \/ \E l \in issuing : IssueAlone(l) \/ IssueMerged(l)
    \/ LogServerClose \/ LogCloseSever \/ Reload
    \/ OtherLoopStep \/ WorkerStep

LogSpec == LogInit /\ [][LogNext]_logvars

-------------------------------------------------------------------------------
(* Properties.                                                                 *)

\* A log added is on the stack, in the commit under way, in a statement, or was
\* thrown away by a reload, and in one of these only: however addLog, forceCommit,
\* the shutdown and reloads meet, no log is lost between them or written twice.
LogsConserved ==
    /\ \A l \in 1..added :
        l \in logstack \cup issuing \cup dropped \/ \E q \in Query : l \in carries[q]
    /\ logstack \cap issuing = {}
    /\ dropped \cap (logstack \cup issuing) = {}
    /\ \A q \in Query : carries[q] \cap (logstack \cup issuing \cup dropped) = {}
    /\ \A p, q \in Query : p # q => carries[p] \cap carries[q] = {}

\* A log is inserted into another database than its own only if a later log of
\* the same statement names another (loglib.lua:80).
DatabaseOfLast ==
    \A q \in Query : \A l \in carries[q] :
        \/ ranOn[q] = dbOf[l]
        \/ \E k \in carries[q] : l < k /\ dbOf[k] # dbOf[l]

\* When Lua is closed every log has been written and answered, unless a reload
\* threw it away or it was added while the shutdown waited (gsmain.lua:86).
LogsBeforeClose ==
    luaClosed /\ ~lapped => \A l \in 1..added \ (dropped \cup late) :
        \E q \in Query : l \in carries[q] /\ stage[q] = "answered" /\ heard[q] = {q}

\* To dblib and the loop, loglib is a script that issues statements, in any
\* callback or at shutdown: what is proved of DbLib holds with it.
ImplementsDbLib == Spec

\* The shutdown writes all the logs (gsmain.lua:86).
AllLogsWritten == luaClosed => logstack = {}
===============================================================================
