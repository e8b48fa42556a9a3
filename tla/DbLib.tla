--------------------------------- MODULE DbLib ---------------------------------
(* Asynchronous SQL and the shutdown that waits for it: common/dblib.lua with  *)
(* onExcuteSql, work_cb, after_work_cb, doCloseServer and closeServerFinal of  *)
(* GameServer.cpp and lua_onServerClose of gsmain.lua.                         *)
(*                                                                             *)
(* Lua runs on the loop thread, one callback at a time; `call` is the          *)
(* statement whose lua_onsql is on the stack.  The statements run on libuv's   *)
(* worker threads, concurrently with Lua and with one another, and come back   *)
(* to the loop in the order they happen to finish.                             *)
EXTENDS Integers, FiniteSets

CONSTANTS MaxToken,      \* last callback number before they start over (999999999)
          Workers,       \* threads of libuv's pool
          MaxQueries,    \* bound: statements issued
          MayRaise       \* whether the callbacks of statements may raise errors

ASSUME DbAssumption ==
    /\ MaxToken \in Nat \ {0} /\ Workers \in Nat \ {0}
    /\ MaxQueries \in Nat /\ MayRaise \in BOOLEAN

Query == 1..MaxQueries     \* the statements, in the order execsql was called
Token == 1..MaxToken
Nil == 0

VARIABLES
    token,       \* dblib.token
    cbf,         \* dblib.cbf: for the tokens in the table, whose callback it is
    posted,      \* statements issued so far
    stage,       \* how far each statement has come
    tok,         \* the token each statement was issued with
    call,        \* statement whose lua_onsql is running, or Nil
    heard,       \* whose results each statement's callback was given
    lapped,      \* a token was reused while its callback was stored
    shutting,    \* lua_onServerClose is running
    closing,     \* dblib._onservershutdowncbf is set
    luaClosed,   \* closeServerFinal has called lua_close
    frames,      \* Lua functions are still on the stack under lua_close
    loop,        \* the event loop: running, told to stop, left
    dangling     \* Lua code has run in the closed state

sql == <<token, cbf, posted, stage, tok, lapped>>
stop == <<luaClosed, frames, loop, dangling>>
dbvars == <<sql, call, heard, shutting, closing, stop>>

TypeOK ==
    /\ token \in 0..MaxToken
    /\ DOMAIN cbf \subseteq Token /\ \A t \in DOMAIN cbf : cbf[t] \in Query
    /\ posted \in 0..MaxQueries
    /\ stage \in [Query -> {"none", "queued", "running", "finished", "answered"}]
    /\ tok \in [Query -> Token \cup {Nil}]
    /\ call \in Query \cup {Nil}
    /\ heard \in [Query -> SUBSET Query]
    /\ lapped \in BOOLEAN /\ shutting \in BOOLEAN /\ closing \in BOOLEAN
    /\ luaClosed \in BOOLEAN /\ frames \in BOOLEAN /\ dangling \in BOOLEAN
    /\ loop \in {"running", "stopping", "left"}

Init ==
    /\ token = 0 /\ cbf = [t \in {} |-> Nil] /\ posted = 0
    /\ stage = [q \in Query |-> "none"] /\ tok = [q \in Query |-> Nil]
    /\ call = Nil /\ heard = [q \in Query |-> {}] /\ lapped = FALSE
    /\ shutting = FALSE /\ closing = FALSE /\ luaClosed = FALSE
    /\ frames = FALSE /\ loop = "running" /\ dangling = FALSE

\* The loop is between callbacks, and Lua is there to be called.
Idle == call = Nil /\ ~shutting /\ loop = "running"

\* lua_onsql is running the callback it found.
InCallback == call # Nil /\ tok[call] \in DOMAIN cbf

-------------------------------------------------------------------------------
(* Issuing statements.                                                         *)

\* Mutants: the wrap one token too late, and one too early.
NextTokenLate == IF token > MaxToken THEN 1 ELSE token + 1
NextTokenEarly == IF token + 1 >= MaxToken THEN 1 ELSE token + 1

NextToken == IF token + 1 > MaxToken THEN 1 ELSE token + 1

\* dblib.execsql and onExcuteSql: take the next token, store the callback under
\* it, queue the statement.
ExecSql ==
    /\ posted < MaxQueries
    /\ posted' = posted + 1
    /\ token' = NextToken
    /\ lapped' = (lapped \/ NextToken \in DOMAIN cbf)
    /\ cbf' = [t \in DOMAIN cbf \cup {NextToken} |->
                  IF t = NextToken THEN posted + 1 ELSE cbf[t]]
    /\ tok' = [tok EXCEPT ![posted + 1] = NextToken]
    /\ stage' = [stage EXCEPT ![posted + 1] = "queued"]

\* A script issues a statement: in some callback of the loop, or in the callback
\* of an earlier statement.
ScriptSql ==
    /\ Idle \/ (InCallback /\ ~shutting)
    /\ ExecSql
    /\ UNCHANGED <<call, heard, shutting, closing, stop>>

-------------------------------------------------------------------------------
(* The worker pool.                                                            *)

\* A free worker takes the statement queued longest and runs work_cb.
WorkerTakes(q) ==
    /\ stage[q] = "queued"
    /\ \A p \in Query : p < q => stage[p] # "queued"
    /\ Cardinality({p \in Query : stage[p] = "running"}) < Workers
    /\ stage' = [stage EXCEPT ![q] = "running"]
    /\ UNCHANGED <<token, cbf, posted, tok, lapped, call, heard, shutting, closing, stop>>

\* work_cb returns, with a result or after logging an error; its thread goes on
\* even while the loop is stopping.
WorkerDone(q) ==
    /\ stage[q] = "running"
    /\ stage' = [stage EXCEPT ![q] = "finished"]
    /\ UNCHANGED <<token, cbf, posted, tok, lapped, call, heard, shutting, closing, stop>>

-------------------------------------------------------------------------------
(* lua_onsql.                                                                  *)

\* The statement whose callback lua_onsql runs for q's result, if any; a mutant
\* that goes by dblib.token and not by the token handed back.
CallbackLatest(q) == {cbf[t] : t \in {token} \cap DOMAIN cbf}
CallbackFor(q) == {cbf[t] : t \in {tok[q]} \cap DOMAIN cbf}

\* after_work_cb calls lua_onsql, which calls the callback stored for the token.
AfterWork(q) ==
    /\ Idle
    /\ stage[q] = "finished"
    /\ stage' = [stage EXCEPT ![q] = "answered"]
    /\ call' = q
    /\ heard' = [c \in Query |->
                    IF c \in CallbackFor(q) THEN heard[c] \cup {q} ELSE heard[c]]
    /\ UNCHANGED <<token, cbf, posted, tok, lapped, shutting, closing, stop>>

\* closeServerFinal: close Lua, stop the timer, tell the loop to stop.  It is
\* only ever called from Lua, so Lua functions are still on the stack.
CloseServerFinal ==
    /\ luaClosed' = TRUE /\ frames' = TRUE /\ loop' = "stopping"
    /\ UNCHANGED dangling

\* No callback is left that the shutdown has to wait for; a mutant that only
\* looks at what the workers have not taken up yet.
NoneQueued(table) == \A q \in Query : stage[q] # "queued"
NoneStored(table) == DOMAIN table = {}

\* Whether lua_onsql carries the shutdown out, given the table with the entry
\* cleared; mutants that test before it clears, and whether or not it was asked for.
DueBeforeClearing(table) == closing /\ NoneStored(cbf)
DueUnasked(table) == NoneStored(table)
ShutdownDue(table) == closing /\ NoneStored(table)

\* The callback has returned: its entry goes, and a shutdown that waited for the
\* last of them is carried out.
OnSqlReturns ==
    /\ call # Nil /\ ~shutting
    /\ cbf' = [t \in DOMAIN cbf \ {tok[call]} |-> cbf[t]]
    /\ call' = Nil
    /\ \/ ShutdownDue(cbf') /\ CloseServerFinal
       \/ ~ShutdownDue(cbf') /\ UNCHANGED stop
    /\ UNCHANGED <<token, posted, stage, tok, lapped, heard, shutting, closing>>

\* The callback raises: lua_onsql ends there, lua_pcall in after_work_cb catches.
OnSqlRaises ==
    /\ MayRaise /\ InCallback /\ ~shutting
    /\ call' = Nil
    /\ UNCHANGED <<sql, heard, shutting, closing, stop>>

-------------------------------------------------------------------------------
(* Shutting down.                                                              *)

\* doCloseServer calls lua_onServerClose: the console, a packet or a script, the
\* callback of a statement among them, asks for it, more than once perhaps.
OnServerClose ==
    /\ Idle \/ (InCallback /\ ~shutting)
    /\ shutting' = TRUE
    /\ UNCHANGED <<sql, call, heard, closing, stop>>

\* loglib.forceCommit issues the statements for the logs it still holds.
ForceCommitSql ==
    /\ shutting
    /\ ExecSql
    /\ UNCHANGED <<call, heard, shutting, closing, stop>>

\* dblib.closeSever: now, or when the callbacks stored have all been run.
CloseSever ==
    /\ shutting
    /\ shutting' = FALSE
    /\ \/ NoneStored(cbf) /\ CloseServerFinal /\ UNCHANGED closing
       \/ ~NoneStored(cbf) /\ closing' = TRUE /\ UNCHANGED stop
    /\ UNCHANGED <<sql, call, heard>>

\* The Lua functions under lua_close go on: lua_onsql, for one, still clears
\* _onservershutdowncbf.
Unwind ==
    /\ frames
    /\ frames' = FALSE /\ dangling' = TRUE /\ closing' = FALSE
    /\ UNCHANGED <<sql, call, heard, shutting, luaClosed, loop>>

\* Another callback of the same loop iteration calls Lua: g_luaHandel is not NULL.
LateCallback ==
    /\ loop = "stopping" /\ ~frames
    /\ dangling' = TRUE
    /\ UNCHANGED <<sql, call, heard, shutting, closing, luaClosed, frames, loop>>

\* uv_run returns at the end of the iteration.
LoopEnds ==
    /\ loop = "stopping" /\ ~frames
    /\ loop' = "left"
    /\ UNCHANGED <<sql, call, heard, shutting, closing, luaClosed, frames, dangling>>

Next ==
    \/ ScriptSql
    \/ \E q \in Query : WorkerTakes(q) \/ WorkerDone(q) \/ AfterWork(q)
    \/ OnSqlReturns \/ OnSqlRaises
    \/ OnServerClose \/ ForceCommitSql \/ CloseSever
    \/ Unwind \/ LateCallback \/ LoopEnds

Spec == Init /\ [][Next]_dbvars

(* The pool runs what is queued and every statement ends; the loop runs the    *)
(* callbacks of finished work, and a callback ends, however often it asks for  *)
(* the shutdown.  Nobody has to ask for it, to issue statements or to raise.   *)
Fairness ==
    /\ \A q \in Query :
        WF_dbvars(WorkerTakes(q)) /\ WF_dbvars(WorkerDone(q)) /\ SF_dbvars(AfterWork(q))
    /\ SF_dbvars(OnSqlReturns \/ OnSqlRaises)
    /\ WF_dbvars(CloseSever) /\ WF_dbvars(Unwind) /\ WF_dbvars(LoopEnds)

FairSpec == Spec /\ Fairness

-------------------------------------------------------------------------------
(* Properties.                                                                 *)

\* As long as no token comes round again while its callback waits, every callback
\* is given the result of its own statement, and of no other, although results
\* come back in any order (dblib.lua:10).
OwnResult == lapped \/ \A q \in Query : heard[q] \subseteq {q}

\* Lua is closed only when every statement ever issued has been answered, those
\* issued by other callbacks and by forceCommit during the shutdown included
\* (dblib.lua:41, gsmain.lua:86).
ClosedAfterLastResult ==
    luaClosed /\ ~lapped => \A q \in 1..posted : stage[q] = "answered" /\ heard[q] = {q}

\* Tokens come round only after all of them have been used (dblib.lua:29).
LappedAfterFullRound == lapped => posted > MaxToken

\* How far statement q has come, for who issued it.
StatusOf(q) ==
    IF q \in heard[q] THEN "answered"
    ELSE IF stage[q] = "finished" THEN "executed"
    ELSE IF stage[q] = "answered" THEN "lost" ELSE "issued"

Shutdown == IF luaClosed THEN "done" ELSE IF shutting \/ closing THEN "asked" ELSE "no"

\* What dblib promises: statements are executed, then answered, once, each to its own
\* callback; the server closes if it was asked to, after the last answer (dblib.lua:10,
\* :41); and this for at least as many statements as there are tokens.
Service == INSTANCE DbService WITH
    Tokens <- MaxToken, void <- lapped, shutdown <- Shutdown,
    status <- [q \in 1..posted |-> StatusOf(q)]
ImplementsService == Service!Spec

\* A statement whose callback raised: answered, and still stored.
Raised(q) == stage[q] = "answered" /\ call # q /\ \E t \in DOMAIN cbf : cbf[t] = q

\* A shutdown that waits for statements is carried out, unless the callback of
\* one of them raises: whatever else the scripts do meanwhile, lua_onsql finds
\* the moment (dblib.lua:18).
CloseCompletesUnlessRaised == closing ~> (luaClosed \/ \E q \in Query : Raised(q))

\* A shutdown that waits for statements is carried out once they have all been
\* executed (dblib.lua:41).
CloseCompletes == closing ~> luaClosed

\* Once closeServerFinal has run the server is really closed: no Lua code runs
\* in the closed state (GameServer.cpp:198).
ReallyClosed == ~dangling
===============================================================================
