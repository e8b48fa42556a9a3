------------------------------ MODULE DbLibProofs ------------------------------
(* Theorems about asynchronous SQL and the shutdown: every callback is given   *)
(* its own result, and Lua is closed only after the last one.                  *)
EXTENDS DbLib, SequenceTheorems, TLAPS

-------------------------------------------------------------------------------
(* The inductive invariant, in parts.                                          *)

Pending(q) == stage[q] \in {"queued", "running", "finished"}

\* The statements issued are 1 to posted; each has a token.  The table's entries
\* are of statements issued with the token they are stored under.
IssueInv ==
    /\ \A q \in Query : stage[q] # "none" <=> q <= posted
    /\ \A q \in Query : q <= posted => tok[q] \in Token
    /\ \A t \in DOMAIN cbf : cbf[t] <= posted /\ tok[cbf[t]] = t

\* Tokens are given out in order until the first round is over.
RoundInv ==
    posted <= MaxToken =>
        /\ ~lapped /\ token = posted
        /\ \A t \in DOMAIN cbf : t <= token

\* Until a token laps, the table holds the callback of every statement under way,
\* and of the one whose lua_onsql runs.
StoredInv ==
    ~lapped => \A q \in Query :
        Pending(q) \/ call = q => tok[q] \in DOMAIN cbf /\ cbf[tok[q]] = q

\* A statement's callback has heard nothing before its answer and its own result
\* after it.
HeardInv ==
    /\ call # Nil => stage[call] = "answered"
    /\ ~lapped => \A q \in Query :
        heard[q] = IF stage[q] = "answered" THEN {q} ELSE {}

\* Lua is closed with no callback stored, none running, and the loop told to stop.
\* A shutdown asked for by a callback finds at least that callback stored.
ClosedInv ==
    /\ shutting /\ call # Nil => tok[call] \in DOMAIN cbf
    /\ shutting => loop = "running"
    /\ call # Nil => loop = "running"
    /\ luaClosed <=> loop # "running"
    /\ luaClosed => DOMAIN cbf = {}
    /\ frames => luaClosed

DbInv == TypeOK /\ IssueInv /\ RoundInv /\ StoredInv /\ HeardInv /\ ClosedInv

-------------------------------------------------------------------------------
(* What issuing a statement does, whoever does it.                             *)

LEMMA NextTokenType == ASSUME token \in 0..MaxToken PROVE NextToken \in Token
  BY DbAssumption DEF NextToken, Token

\* execsql keeps the parts that speak of statements, tokens and the table.
LEMMA ExecSqlStep ==
    ASSUME DbInv, ExecSql, UNCHANGED <<call, heard>>
    PROVE  /\ token' \in 0..MaxToken /\ posted' \in 0..MaxQueries
           /\ DOMAIN cbf' \subseteq Token /\ \A t \in DOMAIN cbf' : cbf'[t] \in Query
           /\ DOMAIN cbf \subseteq DOMAIN cbf'
           /\ stage' \in [Query -> {"none", "queued", "running", "finished", "answered"}]
           /\ tok' \in [Query -> Token \cup {Nil}] /\ lapped' \in BOOLEAN
           /\ call # Nil => tok'[call] = tok[call]
           /\ IssueInv' /\ RoundInv' /\ StoredInv' /\ HeardInv'
<1> DEFINE n == posted + 1
<1>1. /\ n \in Query /\ NextToken \in Token /\ stage[n] = "none"
      /\ posted \in Nat /\ token \in 0..MaxToken
  BY NextTokenType, DbAssumption DEF DbInv, TypeOK, IssueInv, ExecSql, Query
<1>2. /\ posted' = n /\ token' = NextToken
      /\ lapped' = (lapped \/ NextToken \in DOMAIN cbf)
      /\ DOMAIN cbf' = DOMAIN cbf \cup {NextToken}
      /\ cbf'[NextToken] = n
      /\ \A t \in DOMAIN cbf : t # NextToken => cbf'[t] = cbf[t]
      /\ tok' = [tok EXCEPT ![n] = NextToken]
      /\ stage' = [stage EXCEPT ![n] = "queued"]
  BY DEF ExecSql
<1>3. /\ tok \in [Query -> Token \cup {Nil}] /\ DOMAIN cbf \subseteq Token
      /\ stage \in [Query -> {"none", "queued", "running", "finished", "answered"}]
      /\ lapped \in BOOLEAN /\ call \in Query \cup {Nil}
      /\ \A t \in DOMAIN cbf : cbf[t] \in Query
  BY DEF DbInv, TypeOK
<1>4. /\ tok'[n] = NextToken /\ stage'[n] = "queued"
      /\ \A q \in Query : q # n => tok'[q] = tok[q] /\ stage'[q] = stage[q]
  BY <1>1, <1>2, <1>3
<1>5. call # n
  BY <1>1 DEF DbInv, HeardInv, Nil, Query
<1>6. /\ token' \in 0..MaxToken /\ posted' \in 0..MaxQueries
      /\ DOMAIN cbf' \subseteq Token /\ \A t \in DOMAIN cbf' : cbf'[t] \in Query
      /\ DOMAIN cbf \subseteq DOMAIN cbf'
      /\ stage' \in [Query -> {"none", "queued", "running", "finished", "answered"}]
      /\ tok' \in [Query -> Token \cup {Nil}] /\ lapped' \in BOOLEAN
      /\ call # Nil => tok'[call] = tok[call]
  <2>1. token' \in 0..MaxToken /\ posted' \in 0..MaxQueries
    BY <1>1, <1>2, DbAssumption DEF Token, Query
  <2>2. \A t \in DOMAIN cbf' : cbf'[t] \in Query
    BY <1>1, <1>2, <1>3
  <2>3. call # Nil => tok'[call] = tok[call]
    BY <1>3, <1>4, <1>5
  <2> QED
    BY <1>1, <1>2, <1>3, <2>1, <2>2, <2>3
<1>7. IssueInv'
  <2>1. \A q \in Query : stage'[q] # "none" <=> q <= posted'
    BY <1>1, <1>2, <1>4 DEF DbInv, IssueInv, Query
  <2>2. \A q \in Query : q <= posted' => tok'[q] \in Token
    BY <1>1, <1>2, <1>4 DEF DbInv, IssueInv, Query
  <2>3. ASSUME NEW t \in DOMAIN cbf' PROVE cbf'[t] <= posted' /\ tok'[cbf'[t]] = t
    <3>1. CASE t = NextToken
      BY <3>1, <1>1, <1>2, <1>4
    <3>2. CASE t # NextToken
      <4>1. t \in DOMAIN cbf /\ cbf'[t] = cbf[t]
        BY <3>2, <1>2
      <4>2. cbf[t] \in Query /\ cbf[t] <= posted /\ tok[cbf[t]] = t
        BY <4>1, <1>3 DEF DbInv, IssueInv
      <4>3. cbf[t] # n /\ cbf[t] <= n
        BY <4>2, <1>1 DEF Query
      <4> QED
        BY <4>1, <4>2, <4>3, <1>2, <1>4
    <3> QED
      BY <3>1, <3>2
  <2> QED
    BY <2>1, <2>2, <2>3 DEF IssueInv
<1>8. RoundInv'
  <2> SUFFICES ASSUME n <= MaxToken
               PROVE  ~lapped' /\ token' = n /\ \A t \in DOMAIN cbf' : t <= n
    BY <1>2 DEF RoundInv
  <2>1. /\ ~lapped /\ token = posted
        /\ \A t \in DOMAIN cbf : t \in Token /\ t <= token
    BY <1>1, <1>3, DbAssumption DEF DbInv, RoundInv
  <2>2. NextToken = n
    BY <2>1, <1>1, DbAssumption DEF NextToken
  <2>3. n \notin DOMAIN cbf
    BY <2>1, <1>1
  <2>4. ASSUME NEW t \in DOMAIN cbf' PROVE t <= n
    BY <2>1, <2>2, <1>1, <1>2 DEF Token
  <2> QED
    BY <2>1, <2>2, <2>3, <2>4, <1>2
<1>9. StoredInv'
  <2> SUFFICES ASSUME ~lapped', NEW q \in Query, Pending(q)' \/ call' = q
               PROVE  tok'[q] \in DOMAIN cbf' /\ cbf'[tok'[q]] = q
    BY DEF StoredInv
  <2>1. CASE q = n
    BY <2>1, <1>2, <1>4
  <2>2. CASE q # n
    <3>1. ~lapped /\ NextToken \notin DOMAIN cbf
      BY <1>2
    <3>2. Pending(q) \/ call = q
      BY <2>2, <1>4 DEF Pending
    <3>3. tok[q] \in DOMAIN cbf /\ cbf[tok[q]] = q
      BY <3>1, <3>2 DEF DbInv, StoredInv
    <3> QED
      BY <2>2, <3>1, <3>3, <1>2, <1>4
  <2> QED
    BY <2>1, <2>2
<1>10. HeardInv'
  <2>1. call # Nil => stage'[call] = "answered"
    BY <1>3, <1>4, <1>5 DEF DbInv, HeardInv
  <2>2. ASSUME ~lapped', NEW q \in Query
        PROVE  heard[q] = IF stage'[q] = "answered" THEN {q} ELSE {}
    <3>1. heard[q] = IF stage[q] = "answered" THEN {q} ELSE {}
      BY <2>2, <1>2 DEF DbInv, HeardInv
    <3> QED
      BY <3>1, <1>1, <1>4
  <2> QED
    BY <2>1, <2>2 DEF HeardInv
<1> QED
  BY <1>6, <1>7, <1>8, <1>9, <1>10

-------------------------------------------------------------------------------
(* One lemma per group of actions.                                             *)

LEMMA DbInvInit == Init => DbInv
<1> SUFFICES ASSUME Init PROVE DbInv
  OBVIOUS
<1>1. TypeOK
  <2>1. token \in 0..MaxToken /\ posted \in 0..MaxQueries /\ call \in Query \cup {Nil}
    BY DbAssumption DEF Init
  <2>2. DOMAIN cbf = {}
    BY DEF Init
  <2>3. /\ stage \in [Query -> {"none", "queued", "running", "finished", "answered"}]
        /\ tok \in [Query -> Token \cup {Nil}]
        /\ heard \in [Query -> SUBSET Query]
    BY DEF Init
  <2>4. /\ lapped \in BOOLEAN /\ shutting \in BOOLEAN /\ closing \in BOOLEAN
        /\ luaClosed \in BOOLEAN /\ frames \in BOOLEAN /\ dangling \in BOOLEAN
        /\ loop \in {"running", "stopping", "left"}
    BY DEF Init
  <2> QED
    BY <2>1, <2>2, <2>3, <2>4 DEF TypeOK
<1>2. IssueInv /\ RoundInv
  BY DbAssumption DEF Init, IssueInv, RoundInv, Query
<1>3. StoredInv /\ HeardInv /\ ClosedInv
  BY DEF Init, StoredInv, HeardInv, ClosedInv, Pending, Query, Nil
<1> QED
  BY <1>1, <1>2, <1>3 DEF DbInv

LEMMA IssuingKeepsDbInv ==
    ASSUME DbInv, ScriptSql \/ ForceCommitSql PROVE DbInv'
<1>1. ExecSql /\ UNCHANGED <<call, heard, shutting, closing, stop>>
  BY DEF ScriptSql, ForceCommitSql
<1>2. UNCHANGED <<call, heard, shutting, closing, luaClosed, frames, loop, dangling>>
  BY <1>1 DEF stop
<1>3. loop = "running"
  BY DEF ScriptSql, ForceCommitSql, Idle, InCallback, DbInv, ClosedInv
<1>4. TypeOK'
  BY <1>1, <1>2, ExecSqlStep DEF DbInv, TypeOK
<1>5. ClosedInv'
  <2>1. ~luaClosed
    BY <1>3 DEF DbInv, ClosedInv
  <2>2. call # Nil => tok'[call] = tok[call]
    BY <1>1, <1>2, ExecSqlStep
  <2>3. DOMAIN cbf \subseteq DOMAIN cbf'
    BY <1>1, <1>2, ExecSqlStep
  <2> QED
    BY <1>2, <1>3, <2>1, <2>2, <2>3 DEF DbInv, ClosedInv
<1> QED
  BY <1>1, <1>2, <1>4, <1>5, ExecSqlStep DEF DbInv

LEMMA WorkersKeepDbInv ==
    ASSUME DbInv, NEW q \in Query, WorkerTakes(q) \/ WorkerDone(q) PROVE DbInv'
<1>1. /\ UNCHANGED <<token, cbf, posted, tok, lapped, call, heard, shutting, closing>>
      /\ UNCHANGED <<luaClosed, frames, loop, dangling>>
  BY DEF WorkerTakes, WorkerDone, stop
<1>2. /\ stage' \in [Query -> {"none", "queued", "running", "finished", "answered"}]
      /\ \A p \in Query : /\ stage'[p] = "none" <=> stage[p] = "none"
                          /\ stage'[p] = "answered" <=> stage[p] = "answered"
                          /\ Pending(p)' <=> Pending(p)
  BY DEF WorkerTakes, WorkerDone, DbInv, TypeOK, Pending
<1>3. TypeOK'
  BY <1>1, <1>2 DEF DbInv, TypeOK
<1>4. IssueInv' /\ RoundInv' /\ StoredInv' /\ ClosedInv'
  BY <1>1, <1>2 DEF DbInv, IssueInv, RoundInv, StoredInv, ClosedInv
<1>5. HeardInv'
  BY <1>1, <1>2 DEF DbInv, HeardInv, TypeOK
<1> QED
  BY <1>3, <1>4, <1>5 DEF DbInv

LEMMA AfterWorkKeepsDbInv ==
    ASSUME DbInv, NEW q \in Query, AfterWork(q) PROVE DbInv'
<1>1. /\ UNCHANGED <<token, cbf, posted, tok, lapped, shutting, closing>>
      /\ UNCHANGED <<luaClosed, frames, loop, dangling>>
      /\ call = Nil /\ ~shutting /\ loop = "running" /\ call' = q /\ Pending(q)
      /\ stage' = [stage EXCEPT ![q] = "answered"]
      /\ heard' = [c \in Query |->
                    IF c \in CallbackFor(q) THEN heard[c] \cup {q} ELSE heard[c]]
  BY DEF AfterWork, Idle, stop, Pending
<1>2. /\ stage \in [Query -> {"none", "queued", "running", "finished", "answered"}]
      /\ heard \in [Query -> SUBSET Query] /\ q # Nil
  BY DEF DbInv, TypeOK, Query, Nil
<1>3. stage'[q] = "answered" /\ \A p \in Query : p # q => stage'[p] = stage[p]
  BY <1>1, <1>2
<1>4. TypeOK'
  <2>1. heard' \in [Query -> SUBSET Query]
    BY <1>1, <1>2
  <2>2. stage' \in [Query -> {"none", "queued", "running", "finished", "answered"}]
    BY <1>1, <1>2
  <2> QED
    BY <1>1, <2>1, <2>2 DEF DbInv, TypeOK
<1>5. IssueInv' /\ RoundInv'
  BY <1>1, <1>3 DEF DbInv, IssueInv, RoundInv, Pending
<1>6. StoredInv'
  BY <1>1, <1>3 DEF DbInv, StoredInv, Pending
<1>7. HeardInv'
  <2>1. call' # Nil => stage'[call'] = "answered"
    BY <1>1, <1>3
  <2>2. ASSUME ~lapped, NEW p \in Query
        PROVE  heard'[p] = IF stage'[p] = "answered" THEN {p} ELSE {}
    <3>1. tok[q] \in DOMAIN cbf /\ cbf[tok[q]] = q
      BY <2>2, <1>1 DEF DbInv, StoredInv
    <3>2. CallbackFor(q) = {q}
      BY <3>1 DEF CallbackFor
    <3>3. heard[q] = {} /\ heard[p] = IF stage[p] = "answered" THEN {p} ELSE {}
      BY <2>2, <1>1 DEF DbInv, HeardInv, Pending
    <3> QED
      BY <3>2, <3>3, <1>1, <1>3
  <2> QED
    BY <2>1, <2>2, <1>1 DEF HeardInv
<1>8. ClosedInv'
  BY <1>1 DEF DbInv, ClosedInv
<1> QED
  BY <1>4, <1>5, <1>6, <1>7, <1>8 DEF DbInv

LEMMA ReturningKeepsDbInv ==
    ASSUME DbInv, OnSqlReturns PROVE DbInv'
<1>1. /\ UNCHANGED <<token, posted, stage, tok, lapped, heard, shutting, closing>>
      /\ call # Nil /\ ~shutting /\ call' = Nil
      /\ DOMAIN cbf' = DOMAIN cbf \ {tok[call]}
      /\ \A t \in DOMAIN cbf' : cbf'[t] = cbf[t]
      /\ cbf' = [t \in DOMAIN cbf \ {tok[call]} |-> cbf[t]]
  BY DEF OnSqlReturns
<1>2. \/ UNCHANGED stop
      \/ /\ luaClosed' = TRUE /\ frames' = TRUE /\ loop' = "stopping"
         /\ UNCHANGED dangling /\ DOMAIN cbf' = {}
  BY DEF OnSqlReturns, CloseServerFinal, ShutdownDue, NoneStored
<1>3. call \in Query /\ loop = "running" /\ ~luaClosed
  BY <1>1 DEF DbInv, TypeOK, ClosedInv
<1>4. TypeOK'
  <2>1. CASE UNCHANGED stop
    BY <1>1, <2>1 DEF DbInv, TypeOK, stop
  <2>2. CASE luaClosed' = TRUE /\ frames' = TRUE /\ loop' = "stopping" /\ UNCHANGED dangling
    BY <1>1, <2>2 DEF DbInv, TypeOK
  <2> QED
    BY <1>2, <2>1, <2>2
<1>5. IssueInv' /\ RoundInv'
  BY <1>1 DEF DbInv, IssueInv, RoundInv
<1>6. StoredInv'
  <2> SUFFICES ASSUME ~lapped, NEW q \in Query, Pending(q)
               PROVE  tok[q] \in DOMAIN cbf' /\ cbf'[tok[q]] = q
    BY <1>1, <1>3 DEF StoredInv, Pending, Query, Nil
  <2>1. tok[q] \in DOMAIN cbf /\ cbf[tok[q]] = q /\ cbf[tok[call]] = call
    BY <1>3 DEF DbInv, StoredInv
  <2>2. q # call
    BY <1>1 DEF DbInv, HeardInv, Pending
  <2> QED
    BY <2>1, <2>2, <1>1
<1>7. HeardInv'
  BY <1>1 DEF DbInv, HeardInv
<1>8. ClosedInv'
  <2>1. CASE UNCHANGED stop
    BY <1>1, <1>3, <2>1 DEF DbInv, ClosedInv, stop
  <2>2. CASE luaClosed' = TRUE /\ loop' = "stopping" /\ DOMAIN cbf' = {}
    BY <1>1, <2>2 DEF ClosedInv
  <2> QED
    BY <1>2, <2>1, <2>2
<1> QED
  BY <1>4, <1>5, <1>6, <1>7, <1>8 DEF DbInv

LEMMA RaisingKeepsDbInv ==
    ASSUME DbInv, OnSqlRaises PROVE DbInv'
<1>1. /\ UNCHANGED <<token, cbf, posted, stage, tok, lapped, heard, shutting, closing>>
      /\ UNCHANGED <<luaClosed, frames, loop, dangling>>
      /\ call' = Nil /\ ~shutting
  BY DEF OnSqlRaises, sql, stop
<1>2. TypeOK' /\ IssueInv' /\ RoundInv'
  BY <1>1 DEF DbInv, TypeOK, IssueInv, RoundInv
<1>3. StoredInv' /\ HeardInv'
  BY <1>1 DEF DbInv, StoredInv, HeardInv, Pending, Query, Nil
<1>4. ClosedInv'
  BY <1>1 DEF DbInv, ClosedInv
<1> QED
  BY <1>2, <1>3, <1>4 DEF DbInv

LEMMA ClosingKeepsDbInv ==
    ASSUME DbInv, OnServerClose \/ CloseSever PROVE DbInv'
<1>1. UNCHANGED <<token, cbf, posted, stage, tok, lapped, call, heard>>
  BY DEF OnServerClose, CloseSever, sql
<1>2. IssueInv' /\ RoundInv' /\ StoredInv' /\ HeardInv'
  BY <1>1 DEF DbInv, IssueInv, RoundInv, StoredInv, HeardInv, Pending
<1>3. CASE OnServerClose
  <2>1. /\ shutting' = TRUE /\ UNCHANGED <<closing, luaClosed, frames, loop, dangling>>
        /\ call # Nil => tok[call] \in DOMAIN cbf
        /\ loop = "running"
    BY <1>3 DEF OnServerClose, stop, Idle, InCallback, DbInv, ClosedInv
  <2>2. TypeOK'
    BY <1>1, <2>1 DEF DbInv, TypeOK
  <2>3. ClosedInv'
    BY <1>1, <2>1 DEF DbInv, ClosedInv
  <2> QED
    BY <1>2, <2>2, <2>3 DEF DbInv
<1>4. CASE CloseSever
  <2>1. shutting /\ shutting' = FALSE /\ loop = "running" /\ ~luaClosed
    BY <1>4 DEF CloseSever, DbInv, ClosedInv
  <2>2. CASE NoneStored(cbf) /\ CloseServerFinal /\ UNCHANGED closing
    <3>1. /\ luaClosed' = TRUE /\ frames' = TRUE /\ loop' = "stopping"
          /\ UNCHANGED <<dangling, closing>> /\ DOMAIN cbf = {}
      BY <2>2 DEF CloseServerFinal, NoneStored
    <3>2. call = Nil
      BY <2>1, <3>1 DEF DbInv, ClosedInv
    <3>3. TypeOK'
      BY <1>1, <2>1, <3>1 DEF DbInv, TypeOK
    <3>4. ClosedInv'
      BY <1>1, <2>1, <3>1, <3>2 DEF ClosedInv
    <3> QED
      BY <1>2, <3>3, <3>4 DEF DbInv
  <2>3. CASE closing' = TRUE /\ UNCHANGED stop
    <3>1. TypeOK'
      BY <1>1, <2>1, <2>3 DEF DbInv, TypeOK, stop
    <3>2. ClosedInv'
      BY <1>1, <2>1, <2>3 DEF DbInv, ClosedInv, stop
    <3> QED
      BY <1>2, <3>1, <3>2 DEF DbInv
  <2> QED
    BY <1>4, <2>2, <2>3 DEF CloseSever
<1> QED
  BY <1>3, <1>4

LEMMA AftermathKeepsDbInv ==
    ASSUME DbInv, Unwind \/ LateCallback \/ LoopEnds PROVE DbInv'
<1>1. UNCHANGED <<token, cbf, posted, stage, tok, lapped, call, heard, shutting, luaClosed>>
  BY DEF Unwind, LateCallback, LoopEnds, sql
<1>2. /\ frames' \in BOOLEAN /\ dangling' \in BOOLEAN /\ closing' \in BOOLEAN
      /\ \/ loop' = loop
         \/ loop = "stopping" /\ loop' = "left"
      /\ frames' = frames \/ frames' = FALSE
  BY DEF Unwind, LateCallback, LoopEnds, DbInv, TypeOK
<1>3. TypeOK'
  BY <1>1, <1>2 DEF DbInv, TypeOK
<1>4. ClosedInv'
  <2>1. loop' # "running" <=> loop # "running"
    BY <1>2
  <2> QED
    BY <1>1, <1>2, <2>1 DEF DbInv, ClosedInv
<1>5. IssueInv' /\ RoundInv' /\ StoredInv' /\ HeardInv'
  BY <1>1 DEF DbInv, IssueInv, RoundInv, StoredInv, HeardInv, Pending
<1> QED
  BY <1>3, <1>4, <1>5 DEF DbInv

LEMMA DbInvStep == DbInv /\ [Next]_dbvars => DbInv'
<1> SUFFICES ASSUME DbInv, [Next]_dbvars PROVE DbInv'
  OBVIOUS
<1>1. CASE ScriptSql \/ ForceCommitSql
  BY <1>1, IssuingKeepsDbInv
<1>2. CASE \E q \in Query : WorkerTakes(q) \/ WorkerDone(q)
  BY <1>2, WorkersKeepDbInv
<1>3. CASE \E q \in Query : AfterWork(q)
  BY <1>3, AfterWorkKeepsDbInv
<1>4. CASE OnSqlReturns
  BY <1>4, ReturningKeepsDbInv
<1>5. CASE OnSqlRaises
  BY <1>5, RaisingKeepsDbInv
<1>6. CASE OnServerClose \/ CloseSever
  BY <1>6, ClosingKeepsDbInv
<1>7. CASE Unwind \/ LateCallback \/ LoopEnds
  BY <1>7, AftermathKeepsDbInv
<1>8. CASE UNCHANGED dbvars
  BY <1>8 DEF dbvars, sql, stop, DbInv, TypeOK, IssueInv, RoundInv, StoredInv,
              HeardInv, ClosedInv, Pending
<1> QED
  BY <1>1, <1>2, <1>3, <1>4, <1>5, <1>6, <1>7, <1>8 DEF Next

-------------------------------------------------------------------------------
(* DbLib implements DbService.                                                 *)

Progress == [q \in 1..posted |-> StatusOf(q)]

\* What a stage is for who issued the statement.
Plain(st) == IF st = "answered" THEN "answered" ELSE IF st = "finished" THEN "executed" ELSE "issued"

\* Until a token laps, how far a statement has come is what its stage says.
LEMMA PlainProgress ==
    ASSUME DbInv, ~lapped
    PROVE  Progress = [q \in 1..posted |-> Plain(stage[q])]
<1> SUFFICES ASSUME NEW q \in 1..posted PROVE StatusOf(q) = Plain(stage[q])
  BY DEF Progress
<1>1. q \in Query
  BY DbAssumption DEF DbInv, TypeOK, Query
<1>2. heard[q] = IF stage[q] = "answered" THEN {q} ELSE {}
  BY <1>1 DEF DbInv, HeardInv
<1> QED
  BY <1>1, <1>2 DEF StatusOf, Plain

\* The same of the next state.
LEMMA PlainProgressNext ==
    ASSUME DbInv', ~lapped'
    PROVE  Progress' = [q \in 1..posted' |-> Plain(stage'[q])]
<1> SUFFICES ASSUME NEW q \in 1..posted' PROVE StatusOf(q)' = Plain(stage'[q])
  BY DEF Progress
<1>1. q \in Query
  BY DbAssumption DEF DbInv, TypeOK, Query
<1>2. heard'[q] = IF stage'[q] = "answered" THEN {q} ELSE {}
  BY <1>1 DEF DbInv, HeardInv
<1> QED
  BY <1>1, <1>2 DEF StatusOf, Plain

\* A statement whose stage changes, on its own, moves from one status to another.
LEMMA StageMoves ==
    ASSUME DbInv, DbInv', ~lapped, ~lapped', UNCHANGED posted, UNCHANGED Shutdown,
           NEW q \in Query, stage[q] # "none", NEW st,
           stage' = [stage EXCEPT ![q] = st]
    PROVE  /\ q \in 1..Len(Progress) /\ Progress[q] = Plain(stage[q])
           /\ Progress' = [Progress EXCEPT ![q] = Plain(st)]
<1>1. /\ Progress = [p \in 1..posted |-> Plain(stage[p])]
      /\ Progress' = [p \in 1..posted |-> Plain(stage'[p])]
  BY PlainProgress, PlainProgressNext
<1>2. /\ posted \in Nat /\ q \in 1..posted
      /\ stage \in [Query -> {"none", "queued", "running", "finished", "answered"}]
  BY DbAssumption DEF DbInv, TypeOK, IssueInv, Query
<1>3. \A p \in 1..posted : p \in Query
  BY <1>2, DbAssumption DEF DbInv, TypeOK, Query
<1>4. \A p \in 1..posted : stage'[p] = IF p = q THEN st ELSE stage[p]
  BY <1>2, <1>3
<1>5. [Progress EXCEPT ![q] = Plain(st)]
        = [p \in 1..posted |-> IF p = q THEN Plain(st) ELSE Plain(stage[p])]
  BY <1>1, <1>2
<1>6. \A p \in 1..posted : Plain(stage'[p]) = IF p = q THEN Plain(st) ELSE Plain(stage[p])
  BY <1>4
<1>7. Len(Progress) = posted
  BY <1>1, <1>2
<1> QED
  BY <1>1, <1>2, <1>5, <1>6, <1>7

\* The statuses, and with them the service, are as before.
LEMMA SameService ==
    ASSUME UNCHANGED <<posted, stage, heard, lapped>>, UNCHANGED Shutdown
    PROVE  UNCHANGED Service!service
  BY DEF Service!service, StatusOf

\* Issuing a statement, while no token laps.
LEMMA IssueServes ==
    ASSUME DbInv, DbInv', ~lapped, ~lapped', ScriptSql \/ ForceCommitSql
    PROVE  Service!Issue
<1>1. /\ ExecSql /\ UNCHANGED <<shutting, closing, luaClosed>> /\ loop = "running"
      /\ posted' = posted + 1 /\ stage' = [stage EXCEPT ![posted + 1] = "queued"]
  BY DEF ScriptSql, ForceCommitSql, ExecSql, stop, Idle, InCallback, DbInv, ClosedInv
<1>2. /\ posted \in Nat /\ posted + 1 \in Query
      /\ stage \in [Query -> {"none", "queued", "running", "finished", "answered"}]
  BY <1>1, DbAssumption DEF DbInv, TypeOK, ExecSql, Query
<1>3. /\ Progress = [p \in 1..posted |-> Plain(stage[p])]
      /\ Progress' = [p \in 1..(posted + 1) |-> Plain(stage'[p])]
  BY <1>1, PlainProgress, PlainProgressNext
<1>4. \A p \in 1..(posted + 1) :
        Plain(stage'[p]) = IF p = posted + 1 THEN "issued" ELSE Plain(stage[p])
  BY <1>1, <1>2 DEF Plain, Query
<1>5. /\ Progress \in Seq({"answered", "executed", "issued"}) /\ Len(Progress) = posted
  <2>1. \A p \in 1..posted : Plain(stage[p]) \in {"answered", "executed", "issued"}
    BY DEF Plain
  <2> QED
    BY <1>2, <1>3, <2>1
<1>6. Append(Progress, "issued")
        = [p \in 1..(posted + 1) |-> IF p = posted + 1 THEN "issued" ELSE Plain(stage[p])]
  <2> DEFINE new == [p \in 1..(posted + 1) |-> IF p = posted + 1 THEN "issued" ELSE Plain(stage[p])]
             S == {"answered", "executed", "issued"}
  <2>1. /\ Append(Progress, "issued") \in Seq(S) /\ Len(Append(Progress, "issued")) = posted + 1
        /\ \A p \in 1..(posted + 1) : Append(Progress, "issued")[p] =
               IF p = posted + 1 THEN "issued" ELSE Progress[p]
    BY <1>2, <1>5
  <2>2. \A p \in 1..posted : Progress[p] = Plain(stage[p])
    BY <1>3
  <2>3. new \in Seq(S) /\ Len(new) = posted + 1
    <3>1. \A p \in 1..(posted + 1) : new[p] \in S
      BY DEF Plain
    <3> QED
      BY <1>2, <3>1
  <2>4. \A p \in 1..(posted + 1) : Append(Progress, "issued")[p] = new[p]
    BY <1>2, <2>1, <2>2
  <2> QED
    BY <2>1, <2>3, <2>4, SeqEqual
<1>7. Progress' = Append(Progress, "issued")
  BY <1>3, <1>4, <1>6
<1>8. UNCHANGED Shutdown /\ Shutdown # "done"
  BY <1>1 DEF Shutdown, DbInv, ClosedInv
<1>9. UNCHANGED lapped
  BY DEF DbInv, TypeOK
<1> QED
  BY <1>7, <1>8, <1>9 DEF Service!Issue, Progress

\* The worker's step is the execution, lua_onsql's the answer.
LEMMA WorkServes ==
    ASSUME DbInv, DbInv', ~lapped, ~lapped', NEW q \in Query,
           WorkerTakes(q) \/ WorkerDone(q) \/ AfterWork(q)
    PROVE  Service!Next \/ UNCHANGED Service!service
<1>1. /\ UNCHANGED <<posted, lapped, shutting, closing, luaClosed>>
      /\ UNCHANGED Shutdown
  BY DEF WorkerTakes, WorkerDone, AfterWork, stop, Shutdown
<1>2. CASE WorkerTakes(q)
  <2>1. Progress' = [Progress EXCEPT ![q] = "issued"] /\ Progress[q] = "issued" /\ q \in 1..Len(Progress)
    BY <1>1, <1>2, StageMoves DEF WorkerTakes, Plain
  <2>2. Progress' = Progress
    BY <2>1 DEF Progress
  <2> QED
    BY <1>1, <2>2 DEF Service!service, Progress
<1>3. CASE WorkerDone(q)
  <2>1. /\ Progress' = [Progress EXCEPT ![q] = "executed"] /\ Progress[q] = "issued"
        /\ q \in 1..Len(Progress)
    BY <1>1, <1>3, StageMoves DEF WorkerDone, Plain
  <2>2. Service!Execute(q)
    BY <1>1, <2>1 DEF Service!Execute, Service!Moves, Progress
  <2> QED
    BY <2>1, <2>2 DEF Service!Next, Progress
<1>4. CASE AfterWork(q)
  <2>1. /\ Progress' = [Progress EXCEPT ![q] = "answered"] /\ Progress[q] = "executed"
        /\ q \in 1..Len(Progress)
    BY <1>1, <1>4, StageMoves DEF AfterWork, Plain
  <2>2. Shutdown # "done"
    BY <1>4 DEF AfterWork, Idle, Shutdown, DbInv, ClosedInv
  <2>3. Service!Answer(q)
    BY <1>1, <2>1, <2>2 DEF Service!Answer, Service!Moves, Progress
  <2> QED
    BY <2>1, <2>3 DEF Service!Next, Progress
<1> QED
  BY <1>2, <1>3, <1>4

\* Lua is closed if that was asked for, and all statements have been answered.
LEMMA CloseServes ==
    ASSUME DbInv, DbInv', ~lapped, UNCHANGED <<posted, stage, heard, lapped>>,
           shutting \/ closing, ~luaClosed, luaClosed'
    PROVE  Service!Next
<1>1. Progress' = Progress
  BY DEF Progress, StatusOf
<1>2. DOMAIN cbf' = {}
  BY DEF DbInv, ClosedInv
<1>3. ASSUME NEW q \in 1..Len(Progress) PROVE Progress[q] = "answered"
  <2>1. q \in 1..posted /\ q \in Query /\ stage[q] # "none" /\ Progress[q] = Plain(stage[q])
    BY <1>3, PlainProgress, DbAssumption DEF DbInv, TypeOK, IssueInv, Query
  <2>2. ~Pending(q)'
    BY <1>2, <2>1 DEF DbInv, StoredInv
  <2>3. stage[q] = "answered"
    BY <2>1, <2>2 DEF Pending, DbInv, TypeOK
  <2> QED
    BY <2>1, <2>3 DEF Plain
<1>4. Shutdown = "asked" /\ Shutdown' = "done"
  BY DEF Shutdown
<1>5. Service!Close
  BY <1>1, <1>3, <1>4 DEF Service!Close, Progress
<1> QED
  BY <1>5 DEF Service!Next

\* Every step of asynchronous SQL and the shutdown is one of the service's, or none.
LEMMA ServiceStep ==
    ASSUME DbInv, DbInv', [Next]_dbvars
    PROVE  Service!Next \/ UNCHANGED Service!service
<1>1. CASE lapped'
  <2>1. posted' > MaxToken /\ posted' \in Nat
    BY <1>1, DbAssumption DEF DbInv, RoundInv, TypeOK
  <2>2. Len(Progress') = posted'
    BY <2>1 DEF Progress
  <2>3. Service!Void
    BY <1>1, <2>1, <2>2 DEF Service!Void, Progress
  <2> QED
    BY <2>3 DEF Service!Next
<1>2. CASE ~lapped'
  <2>1. CASE ScriptSql \/ ForceCommitSql
    <3>1. ~lapped
      BY <1>2, <2>1 DEF ScriptSql, ForceCommitSql, ExecSql
    <3> QED
      BY <1>2, <2>1, <3>1, IssueServes DEF Service!Next
  <2>2. ASSUME NEW q \in Query, WorkerTakes(q) \/ WorkerDone(q) \/ AfterWork(q)
        PROVE  Service!Next \/ UNCHANGED Service!service
    <3>1. ~lapped
      BY <1>2, <2>2 DEF WorkerTakes, WorkerDone, AfterWork
    <3> QED
      BY <1>2, <2>2, <3>1, WorkServes
  <2>3. CASE OnSqlReturns
    <3>1. /\ UNCHANGED <<posted, stage, heard, lapped, shutting, closing>>
          /\ UNCHANGED luaClosed \/ (luaClosed' = TRUE /\ closing)
      BY <2>3 DEF OnSqlReturns, CloseServerFinal, ShutdownDue, stop
    <3>2. CASE UNCHANGED luaClosed
      BY <3>1, <3>2, SameService DEF Shutdown
    <3>3. CASE luaClosed' = TRUE /\ closing
      <4>1. ~luaClosed
        BY <2>3 DEF OnSqlReturns, DbInv, ClosedInv
      <4> QED
        BY <1>2, <3>1, <3>3, <4>1, CloseServes
    <3> QED
      BY <3>1, <3>2, <3>3
  <2>4. CASE OnSqlRaises
    <3>1. UNCHANGED <<posted, stage, heard, lapped, shutting, closing, luaClosed>>
      BY <2>4 DEF OnSqlRaises, sql, stop
    <3> QED
      BY <3>1, SameService DEF Shutdown
  <2>5. CASE OnServerClose
    <3>1. /\ UNCHANGED <<posted, stage, heard, lapped, closing, luaClosed>>
          /\ shutting' = TRUE /\ ~luaClosed
      BY <2>5 DEF OnServerClose, sql, stop, Idle, InCallback, DbInv, ClosedInv
    <3>2. Progress' = Progress
      BY <3>1 DEF Progress, StatusOf
    <3>3. CASE shutting \/ closing
      BY <3>1, <3>3, SameService DEF Shutdown
    <3>4. CASE ~(shutting \/ closing)
      <4>1. Shutdown = "no" /\ Shutdown' = "asked"
        BY <3>1, <3>4 DEF Shutdown
      <4>2. Service!Ask
        BY <3>1, <3>2, <4>1 DEF Service!Ask, Progress
      <4> QED
        BY <4>2 DEF Service!Next
    <3> QED
      BY <3>3, <3>4
  <2>6. CASE CloseSever
    <3>1. /\ UNCHANGED <<posted, stage, heard, lapped>> /\ shutting /\ shutting' = FALSE
          /\ \/ luaClosed' = TRUE
             \/ closing' = TRUE /\ UNCHANGED luaClosed
      BY <2>6 DEF CloseSever, CloseServerFinal, sql, stop
    <3>2. ~luaClosed
      BY <3>1 DEF DbInv, ClosedInv
    <3>3. CASE luaClosed' = TRUE
      BY <1>2, <3>1, <3>2, <3>3, CloseServes
    <3>4. CASE closing' = TRUE /\ UNCHANGED luaClosed
      BY <3>1, <3>2, <3>4, SameService DEF Shutdown
    <3> QED
      BY <3>1, <3>3, <3>4
  <2>7. CASE Unwind \/ LateCallback \/ LoopEnds
    <3>1. /\ UNCHANGED <<posted, stage, heard, lapped, shutting, luaClosed>>
          /\ UNCHANGED closing \/ luaClosed
      BY <2>7 DEF Unwind, LateCallback, LoopEnds, sql, DbInv, ClosedInv
    <3> QED
      BY <3>1, SameService DEF Shutdown
  <2>8. CASE UNCHANGED dbvars
    <3>1. UNCHANGED <<posted, stage, heard, lapped, shutting, closing, luaClosed>>
      BY <2>8 DEF dbvars, sql, stop
    <3> QED
      BY <3>1, SameService DEF Shutdown
  <2> QED
    BY <2>1, <2>2, <2>3, <2>4, <2>5, <2>6, <2>7, <2>8 DEF Next
<1> QED
  BY <1>1, <1>2

-------------------------------------------------------------------------------
(* The theorems.                                                               *)

\* The inductive invariant holds throughout.
THEOREM DbInvariance == Spec => []DbInv
  BY DbInvInit, DbInvStep, PTL DEF Spec

\* dblib's and the loop's variables keep their types.
THEOREM DbTypeCorrect == Spec => []TypeOK
<1>1. DbInv => TypeOK
  BY DEF DbInv
<1> QED
  BY <1>1, DbInvariance, PTL

\* For any number of statements, tokens and workers, a callback is given the
\* result of its own statement only, until a token laps (dblib.lua:10).
THEOREM ResultsAreOwn == Spec => []OwnResult
<1>1. DbInv => OwnResult
  BY DEF DbInv, HeardInv, OwnResult
<1> QED
  BY <1>1, DbInvariance, PTL

\* Lua is closed only after the callback of every statement ever issued has been
\* given its result (dblib.lua:41).
THEOREM CloseWaits == Spec => []ClosedAfterLastResult
<1>1. DbInv => ClosedAfterLastResult
  <2> SUFFICES ASSUME DbInv, luaClosed, ~lapped, NEW q \in 1..posted
               PROVE  stage[q] = "answered" /\ heard[q] = {q}
    BY DEF ClosedAfterLastResult
  <2>1. q \in Query /\ q <= posted /\ stage[q] # "none"
    BY DbAssumption DEF DbInv, TypeOK, IssueInv, Query
  <2>2. ~Pending(q)
    BY <2>1 DEF DbInv, StoredInv, ClosedInv
  <2>3. stage[q] = "answered"
    BY <2>1, <2>2 DEF DbInv, TypeOK, Pending
  <2> QED
    BY <2>1, <2>3 DEF DbInv, HeardInv
<1> QED
  BY <1>1, DbInvariance, PTL

\* No token laps before all of them have been used (dblib.lua:29).
THEOREM TokensLast == Spec => []LappedAfterFullRound
<1>1. DbInv => LappedAfterFullRound
  BY DbAssumption DEF DbInv, TypeOK, RoundInv, LappedAfterFullRound
<1> QED
  BY <1>1, DbInvariance, PTL

\* For any number of statements, tokens and workers, asynchronous SQL with its
\* shutdown is the service the scripts are promised: what is issued is executed and
\* then answered once, the server closes if asked to and after the last answer, and
\* the promise holds for as many statements as there are tokens.
THEOREM DbRefinement == Spec => ImplementsService
<1>1. Init => Service!Init
  <2> SUFFICES ASSUME Init PROVE Service!Init
    OBVIOUS
  <2>1. Progress = << >>
    BY DEF Init, Progress
  <2> QED
    BY <2>1 DEF Init, Service!Init, Shutdown, Progress
<1>2. DbInv /\ DbInv' /\ [Next]_dbvars => [Service!Next]_(Service!service)
  BY ServiceStep
<1> QED
  BY <1>1, <1>2, DbInvariance, PTL DEF Spec, ImplementsService, Service!Spec
===============================================================================
