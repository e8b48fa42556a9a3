----------------------------- MODULE ConsoleProofs -----------------------------
(* Theorems about the console: for any streams and any number of lines, where   *)
(* no two readers make a thread at once and no two calls of the list meet, one   *)
(* thread prints, in order, leaves no line, and nothing it does fails.          *)
EXTENDS Console, SequenceTheorems, FiniteSetTheorems, TLAPS

-------------------------------------------------------------------------------
(* The inductive invariant.                                                    *)

Making(s) == reader[s].at \in {"create", "start"}

\* A reader with a line in hand, and what that line is.
LineInv == \A s \in Stream : reader[s].at # "idle" => reader[s].line \in Line

\* The readers and the printing thread hand the field m_logPrintThread to one another.
HandInv ==
    ~crossed =>
        /\ \A r, s \in Stream : Making(r) /\ Making(s) => r = s
        /\ \A s \in Stream : reader[s].at = "create" => printThread = None
        /\ \A s \in Stream : reader[s].at = "start" =>
              printThread # None /\ printer[printThread] \in {"new", "doomed"}
        /\ \A p \in Printer : p # printThread => printer[p] \in {"none", "dead"}

\* What the printing thread found in the list is still there.
TakeInv ==
    ~crossed /\ ~torn =>
        \A p \in Printer :
            /\ printer[p] \in {"get", "remove", "removing"} => cash # << >>
            /\ printer[p] \in {"remove", "removing", "show"} => held[p] \in Line

ConsoleInv == TypeOK /\ LineInv /\ HandInv /\ TakeInv /\ FailsOnlyByRace

-------------------------------------------------------------------------------

LEMMA CrashKeeps ==
    ASSUME TypeOK, Crash, crossed \/ torn \/ clash
    PROVE  ConsoleInv'
<1>1. /\ pipe' = [s \in Stream |-> << >>]
      /\ reader' = [s \in Stream |-> [at |-> "idle", line |-> Empty]]
      /\ printer' = [p \in Printer |-> "none"] /\ held' = [p \in Printer |-> Empty]
      /\ cash' = << >> /\ printThread' = None /\ form' = "crashed"
      /\ UNCHANGED <<wrote, key, printed, disorder, hide, server, sender, torn, crossed, late, clash>>
  BY DEF Crash, Quiet, shown, history
<1>2. TypeOK'
  BY <1>1 DEF TypeOK, ReaderAt, PrinterAt
<1>3. LineInv' /\ HandInv' /\ TakeInv'
  BY <1>1 DEF LineInv, HandInv, TakeInv, Making
<1>4. FailsOnlyByRace'
  BY <1>1 DEF FailsOnlyByRace
<1> QED
  BY <1>2, <1>3, <1>4 DEF ConsoleInv

\* A reader moves on, with the line it has in hand or none.
LEMMA ReaderMoves ==
    ASSUME TypeOK, LineInv, NEW s \in Stream, NEW at \in ReaderAt, NEW l \in Line \cup {Empty},
           at # "idle" => l \in Line,
           reader' = [reader EXCEPT ![s] = [at |-> at, line |-> l]]
    PROVE  /\ reader' \in [Stream -> [at : ReaderAt, line : Line \cup {Empty}]]
           /\ LineInv'
           /\ reader'[s].at = at
           /\ \A r \in Stream : r # s => reader'[r] = reader[r]
<1>1. [at |-> at, line |-> l] \in [at : ReaderAt, line : Line \cup {Empty}]
  OBVIOUS
<1>2. /\ reader' \in [Stream -> [at : ReaderAt, line : Line \cup {Empty}]]
      /\ reader'[s] = [at |-> at, line |-> l]
      /\ \A r \in Stream : r # s => reader'[r] = reader[r]
  BY <1>1 DEF TypeOK
<1>3. LineInv'
  BY <1>2 DEF LineInv
<1> QED
  BY <1>2, <1>3

LEMMA CallBegun ==
    ASSUME TypeOK, CallBegins
    PROVE  cash' \in Seq(Line) /\ torn' \in BOOLEAN /\ (torn => torn') /\ (~torn' => cash' = cash)
<1>1. torn' \in BOOLEAN /\ (torn => torn')
  BY Zenon DEF CallBegins
<1>2. << >> \in Seq(Line) /\ cash \in Seq(Line)
  BY DEF TypeOK
<1>3. cash' \in Seq(Line) /\ (~torn' => cash' = cash)
  BY <1>2, Zenon DEF CallBegins
<1> QED
  BY <1>1, <1>3

LEMMA ServerStep ==
    ASSUME ConsoleInv, Runs, (\E s \in Stream : Prints(s)) \/ ServerEnds \/ SendCtrlCode
    PROVE  ConsoleInv'
<1> USE DEF ConsoleInv
<1>1. /\ UNCHANGED <<reader, printer, held, key, printed, disorder, printThread, hide, form,
                     cash, torn, crossed, late, clash>>
      /\ server' \in {"up", "told", "gone"} /\ sender' \in BOOLEAN
  BY DEF Prints, ServerEnds, SendCtrlCode, printing, shown, closing, list, history, TypeOK
<1>2. /\ wrote' \in Seq(Stream) /\ Len(wrote') <= MaxLines
      /\ pipe' \in [Stream -> Seq(Line)]
  <2>1. CASE \E s \in Stream : Prints(s)
    <3>1. PICK s \in Stream : Prints(s)
      BY <2>1
    <3>2. Len(wrote) \in Nat /\ Len(wrote) < MaxLines /\ MaxLines \in Nat
      BY <3>1, ConsoleAssumption DEF Prints, TypeOK
    <3>3. Len(wrote) + 1 \in Line
      BY <3>2 DEF Line
    <3>4. wrote' \in Seq(Stream) /\ Len(wrote') = Len(wrote) + 1
      BY <3>1 DEF Prints, TypeOK
    <3>5. Append(pipe[s], Len(wrote) + 1) \in Seq(Line)
      BY <3>3 DEF TypeOK
    <3> QED
      BY <3>1, <3>2, <3>4, <3>5 DEF Prints, TypeOK
  <2>2. CASE ServerEnds \/ SendCtrlCode
    BY <2>2 DEF ServerEnds, SendCtrlCode, TypeOK
  <2> QED
    BY <2>1, <2>2
<1>3. TypeOK'
  BY <1>1, <1>2 DEF TypeOK
<1>4. LineInv' /\ HandInv' /\ TakeInv' /\ FailsOnlyByRace'
  BY <1>1 DEF LineInv, HandInv, TakeInv, FailsOnlyByRace, Making
<1> QED
  BY <1>3, <1>4

LEMMA ReceiveStep ==
    ASSUME ConsoleInv, Runs, NEW s \in Stream, Receive(s)
    PROVE  ConsoleInv'
<1> USE DEF ConsoleInv
<1>1. /\ UNCHANGED <<wrote, printer, held, key, printed, disorder, printThread, hide, form, sender,
                     server, crossed, late, clash>>
      /\ reader[s].at = "idle" /\ pipe[s] # << >>
      /\ pipe' = [pipe EXCEPT ![s] = Tail(pipe[s])]
      /\ \/ UNCHANGED <<reader, cash, torn>>
         \/ /\ reader' = [reader EXCEPT ![s] = [at |-> "adding", line |-> Head(pipe[s])]]
            /\ CallBegins
  BY DEF Receive, printing, shown, closing, list, history
<1>2. Head(pipe[s]) \in Line /\ pipe' \in [Stream -> Seq(Line)]
  <2>1. pipe[s] \in Seq(Line) /\ pipe[s] # << >>
    BY <1>1 DEF TypeOK
  <2>2. Head(pipe[s]) \in Line /\ Tail(pipe[s]) \in Seq(Line)
    BY <2>1
  <2> QED
    BY <1>1, <2>2 DEF TypeOK
<1>3. /\ reader' \in [Stream -> [at : ReaderAt, line : Line \cup {Empty}]]
      /\ LineInv'
      /\ \A r \in Stream : Making(r)' <=> Making(r)
      /\ \A r \in Stream : /\ reader'[r].at = "create" <=> reader[r].at = "create"
                           /\ reader'[r].at = "start" <=> reader[r].at = "start"
  <2>1. CASE UNCHANGED reader
    BY <2>1 DEF TypeOK, LineInv, Making
  <2>2. CASE reader' = [reader EXCEPT ![s] = [at |-> "adding", line |-> Head(pipe[s])]]
    <3>1. /\ reader' \in [Stream -> [at : ReaderAt, line : Line \cup {Empty}]]
          /\ LineInv' /\ reader'[s].at = "adding"
          /\ \A r \in Stream : r # s => reader'[r] = reader[r]
      BY <1>2, <2>2, ReaderMoves DEF ReaderAt
    <3> QED
      BY <1>1, <3>1 DEF Making
  <2> QED
    BY <1>1, <2>1, <2>2
<1>4. /\ cash' \in Seq(Line) /\ torn' \in BOOLEAN /\ (torn => torn')
      /\ ~torn' => cash' = cash
  BY <1>1, CallBegun DEF TypeOK
<1>5. TypeOK'
  BY <1>1, <1>2, <1>3, <1>4 DEF TypeOK
<1>6. HandInv'
  BY <1>1, <1>3 DEF HandInv
<1>7. TakeInv'
  BY <1>1, <1>4 DEF TakeInv
<1>8. FailsOnlyByRace'
  BY <1>1, <1>4 DEF FailsOnlyByRace
<1> QED
  BY <1>3, <1>5, <1>6, <1>7, <1>8

LEMMA AddStep ==
    ASSUME ConsoleInv, Runs, NEW s \in Stream, AddEnds(s)
    PROVE  ConsoleInv'
<1> USE DEF ConsoleInv
<1>1. /\ UNCHANGED <<wrote, pipe, printer, held, key, printed, disorder, printThread, hide, form, sender,
                     server, crossed, late, clash, torn>>
      /\ reader[s].at = "adding"
      /\ cash' = IF torn THEN << >> ELSE Append(cash, reader[s].line)
      /\ reader' = [reader EXCEPT ![s] = [at |-> "test", line |-> reader[s].line]]
  BY DEF AddEnds, GoesTo, CallEnds, printing, shown, closing, list, history
<1>2. reader[s].line \in Line
  BY <1>1 DEF LineInv
<1>3. /\ reader' \in [Stream -> [at : ReaderAt, line : Line \cup {Empty}]]
      /\ LineInv'
      /\ \A r \in Stream : Making(r)' <=> Making(r)
      /\ \A r \in Stream : /\ reader'[r].at = "create" <=> reader[r].at = "create"
                           /\ reader'[r].at = "start" <=> reader[r].at = "start"
  <2>1. /\ reader' \in [Stream -> [at : ReaderAt, line : Line \cup {Empty}]]
        /\ LineInv' /\ reader'[s].at = "test"
        /\ \A r \in Stream : r # s => reader'[r] = reader[r]
    BY <1>1, <1>2, ReaderMoves DEF ReaderAt
  <2> QED
    BY <1>1, <2>1 DEF Making
<1>4. cash' \in Seq(Line) /\ (~torn => cash' # << >>)
  <2>1. Append(cash, reader[s].line) \in Seq(Line) /\ Append(cash, reader[s].line) # << >>
    BY <1>2 DEF TypeOK
  <2> QED
    BY <1>1, <2>1
<1>5. TypeOK'
  BY <1>1, <1>3, <1>4 DEF TypeOK
<1>6. HandInv'
  BY <1>1, <1>3 DEF HandInv
<1>7. TakeInv'
  BY <1>1, <1>4 DEF TakeInv
<1>8. FailsOnlyByRace'
  BY <1>1 DEF FailsOnlyByRace
<1> QED
  BY <1>3, <1>5, <1>6, <1>7, <1>8

LEMMA TestStep ==
    ASSUME ConsoleInv, Runs, NEW s \in Stream, TestThread(s)
    PROVE  ConsoleInv'
<1> USE DEF ConsoleInv
<1>1. /\ UNCHANGED <<wrote, pipe, printer, held, key, printed, disorder, printThread, hide, form, sender,
                     server, clash, torn, cash>>
      /\ reader[s].at = "test"
      /\ \/ /\ printThread = None
            /\ reader' = [reader EXCEPT ![s] = [at |-> "create", line |-> reader[s].line]]
         \/ /\ printThread # None
            /\ reader' = [reader EXCEPT ![s] = [at |-> "idle", line |-> Empty]]
  BY DEF TestThread, GoesTo, printing, shown, closing, list
<1>2. /\ late' \in BOOLEAN /\ crossed' \in BOOLEAN
      /\ ~crossed' => /\ ~crossed
                      /\ printThread = None => \A r \in Stream : reader[r].at # "create"
  BY Zenon DEF TestThread, TypeOK
<1>3. reader[s].line \in Line
  BY <1>1 DEF LineInv
<1>4. /\ reader' \in [Stream -> [at : ReaderAt, line : Line \cup {Empty}]] /\ LineInv'
      /\ reader'[s].at = IF printThread = None THEN "create" ELSE "idle"
      /\ \A r \in Stream : r # s => reader'[r] = reader[r]
  BY <1>1, <1>3, ReaderMoves DEF ReaderAt
<1>5. TypeOK'
  BY <1>1, <1>2, <1>4 DEF TypeOK
<1>6. HandInv'
  <2> SUFFICES ASSUME ~crossed' PROVE HandInv'
    BY DEF HandInv
  <2>1. ~crossed /\ (printThread = None => \A r \in Stream : reader[r].at # "create")
    BY <1>2
  <2>2. printThread = None => \A r \in Stream : ~Making(r)
    BY <2>1 DEF HandInv, Making
  <2>3. \A q, r \in Stream : Making(q)' /\ Making(r)' => q = r
    BY <1>4, <2>1, <2>2 DEF HandInv, Making
  <2> QED
    BY <1>1, <1>4, <2>1, <2>3 DEF HandInv
<1>7. TakeInv' /\ FailsOnlyByRace'
  <2>1. ~crossed' => ~crossed
    BY <1>2
  <2> QED
    BY <1>1, <2>1 DEF TakeInv, FailsOnlyByRace, Runs
<1> QED
  BY <1>4, <1>5, <1>6, <1>7

LEMMA CreateStep ==
    ASSUME ConsoleInv, Runs, NEW s \in Stream, CreateThread(s)
    PROVE  ConsoleInv'
<1> USE DEF ConsoleInv
<1>1. /\ UNCHANGED <<wrote, pipe, held, key, printed, disorder, hide, form, sender,
                     server, clash, torn, cash, crossed>>
      /\ reader[s].at = "create" /\ late' = FALSE
      /\ printThread' = reader[s].line
      /\ printer' = [printer EXCEPT ![reader[s].line] = "new"]
      /\ reader' = [reader EXCEPT ![s] = [at |-> "start", line |-> reader[s].line]]
  BY DEF CreateThread, GoesTo, shown, closing, list
<1>2. reader[s].line \in Line /\ reader[s].line # None
  BY <1>1 DEF LineInv, Line, None
<1>3. /\ reader' \in [Stream -> [at : ReaderAt, line : Line \cup {Empty}]] /\ LineInv'
      /\ reader'[s].at = "start"
      /\ \A r \in Stream : r # s => reader'[r] = reader[r]
  BY <1>1, <1>2, ReaderMoves DEF ReaderAt
<1>4. printer' \in [Printer -> PrinterAt] /\ printThread' \in Printer
  BY <1>1, <1>2 DEF TypeOK, PrinterAt, Printer
<1>5. TypeOK'
  BY <1>1, <1>3, <1>4 DEF TypeOK
<1>6. HandInv'
  <2> SUFFICES ASSUME ~crossed PROVE HandInv'
    BY <1>1 DEF HandInv
  <2>1. printThread = None /\ \A r \in Stream : r # s => ~Making(r)
    BY <1>1 DEF HandInv, Making
  <2>2. \A r \in Stream : r # s => ~Making(r)'
    BY <1>3, <2>1 DEF Making
  <2>3. printer'[printThread'] = "new" /\ \A p \in Printer : p # printThread' => printer'[p] = printer[p]
    BY <1>1, <1>2 DEF TypeOK, Printer
  <2>4. \A p \in Printer : printer[p] \in {"none", "dead"}
    BY <2>1 DEF HandInv, Printer, Line, None
  <2>5. \A q, r \in Stream : Making(q)' /\ Making(r)' => q = r
    BY <2>2
  <2>6. \A r \in Stream : reader'[r].at # "create" /\ (reader'[r].at = "start" => r = s)
    BY <1>3, <2>2 DEF Making
  <2> QED
    BY <1>1, <1>2, <2>3, <2>4, <2>5, <2>6 DEF HandInv
<1>7. TakeInv' /\ FailsOnlyByRace'
  BY <1>1, <1>2 DEF TakeInv, FailsOnlyByRace, TypeOK, Printer
<1> QED
  BY <1>3, <1>5, <1>6, <1>7

LEMMA StartStep ==
    ASSUME ConsoleInv, Runs, NEW s \in Stream, StartThread(s)
    PROVE  ConsoleInv'
<1> USE DEF ConsoleInv
<1>1. reader[s].at = "start"
  BY DEF StartThread
<1>2. CASE printThread # None /\ printer[printThread] \in {"new", "doomed"}
  <2>1. /\ UNCHANGED <<wrote, pipe, held, key, printed, disorder, printThread, hide, form, sender,
                       server, clash, torn, cash, crossed, late>>
        /\ printer' = [printer EXCEPT ![printThread] = IF printer[printThread] = "new" THEN "test" ELSE "dead"]
        /\ reader' = [reader EXCEPT ![s] = [at |-> "idle", line |-> Empty]]
    BY <1>2 DEF StartThread, GoesTo, shown, closing, list, history
  <2>2. reader' \in [Stream -> [at : ReaderAt, line : Line \cup {Empty}]] /\ LineInv'
    BY <2>1 DEF TypeOK, ReaderAt, LineInv
  <2>3. printer' \in [Printer -> PrinterAt] /\ printThread \in Printer
    BY <1>2, <2>1 DEF TypeOK, PrinterAt
  <2>4. TypeOK'
    BY <2>1, <2>2, <2>3 DEF TypeOK
  <2>5. HandInv'
    BY <1>1, <2>1, <2>3 DEF HandInv, TypeOK, Making
  <2>6. TakeInv' /\ FailsOnlyByRace'
    BY <2>1, <2>3 DEF TakeInv, FailsOnlyByRace, TypeOK
  <2> QED
    BY <2>2, <2>4, <2>5, <2>6
<1>3. CASE ~(printThread # None /\ printer[printThread] \in {"new", "doomed"})
  <2>1. Crash
    BY <1>3 DEF StartThread
  <2>2. crossed
    BY <1>1, <1>3 DEF HandInv
  <2> QED
    BY <2>1, <2>2, CrashKeeps
<1> QED
  BY <1>2, <1>3

\* The steps of the printing thread outside the list: the field, and who is at work.
LEMMA PrinterHand ==
    ASSUME TypeOK, HandInv, NEW p \in Printer, NEW at \in PrinterAt, MovesTo(p, at),
           UNCHANGED <<reader, printThread, crossed>>,
           printer[p] \notin {"none", "new", "doomed", "dead"}
    PROVE  HandInv' /\ printer' \in [Printer -> PrinterAt]
BY DEF MovesTo, HandInv, TypeOK, Making

LEMMA TestsStep ==
    ASSUME ConsoleInv, Runs, NEW p \in Printer, Test(p)
    PROVE  ConsoleInv'
<1> USE DEF ConsoleInv
<1>1. /\ UNCHANGED <<wrote, pipe, reader, held, key, printed, disorder, printThread, hide, form, sender,
                     server, clash, torn, cash, crossed, late>>
      /\ printer[p] = "test"
      /\ \/ MovesTo(p, "get") /\ (torn \/ Len(cash) > 0)
         \/ MovesTo(p, "done")
  BY DEF Test, More, shown, closing, list, history
<1>2. HandInv' /\ printer' \in [Printer -> PrinterAt]
  BY <1>1, PrinterHand DEF PrinterAt
<1>3. TypeOK' /\ LineInv' /\ FailsOnlyByRace'
  BY <1>1, <1>2 DEF TypeOK, LineInv, FailsOnlyByRace
<1>4. TakeInv'
  BY <1>1 DEF TakeInv, MovesTo, TypeOK
<1> QED
  BY <1>2, <1>3, <1>4

LEMMA GetStep ==
    ASSUME ConsoleInv, Runs, NEW p \in Printer, Get(p)
    PROVE  ConsoleInv'
<1> USE DEF ConsoleInv
<1>1. printer[p] = "get"
  BY DEF Get
<1>2. CASE (torn \/ cash = << >>) /\ Crash
  <2>1. crossed \/ torn
    BY <1>1, <1>2 DEF TakeInv
  <2> QED
    BY <1>2, <2>1, CrashKeeps
<1>3. CASE ~((torn \/ cash = << >>) /\ Crash)
  <2>1. PICK x \in IF torn \/ Taking # {} THEN DOMAIN wrote \cup {Empty}
                   ELSE {cash[i] : i \in DOMAIN cash \cap {1}} :
             held' = [held EXCEPT ![p] = x]
    BY <1>3 DEF Get
  <2>2. /\ UNCHANGED <<wrote, pipe, reader, key, printed, disorder, printThread, hide, form, sender,
                       server, clash, torn, cash, crossed, late>>
        /\ MovesTo(p, "remove")
    BY <1>3 DEF Get, shown, closing, list, history
  <2>3. x \in Line \cup {Empty}
    <3>1. DOMAIN wrote \subseteq Line
      BY ConsoleAssumption DEF TypeOK, Line
    <3>2. \A i \in DOMAIN cash : cash[i] \in Line
      BY DEF TypeOK
    <3> QED
      BY <2>1, <3>1, <3>2
  <2>4. ~crossed /\ ~torn => x \in Line
    <3>1. SUFFICES ASSUME ~crossed, ~torn PROVE x \in Line
      OBVIOUS
    <3>2. Taking = {}
      BY <1>1, <3>1 DEF Taking, HandInv
    <3>3. \A i \in DOMAIN cash : cash[i] \in Line
      BY DEF TypeOK
    <3> QED
      BY <2>1, <3>1, <3>2, <3>3
  <2>5. HandInv' /\ printer' \in [Printer -> PrinterAt]
    BY <1>1, <2>2, PrinterHand DEF PrinterAt
  <2>6. held' \in [Printer -> Line \cup {Empty}]
    BY <2>1, <2>3 DEF TypeOK
  <2>7. TypeOK' /\ LineInv' /\ FailsOnlyByRace'
    BY <2>2, <2>5, <2>6 DEF TypeOK, LineInv, FailsOnlyByRace
  <2>8. TakeInv'
    BY <1>1, <2>1, <2>2, <2>4 DEF TakeInv, MovesTo, TypeOK
  <2> QED
    BY <2>5, <2>7, <2>8
<1> QED
  BY <1>2, <1>3

LEMMA RemoveBeginsStep ==
    ASSUME ConsoleInv, Runs, NEW p \in Printer, RemoveBegins(p)
    PROVE  ConsoleInv'
<1> USE DEF ConsoleInv
<1>1. printer[p] = "remove"
  BY DEF RemoveBegins
<1>2. CASE (torn \/ cash = << >>) /\ Crash
  <2>1. crossed \/ torn
    BY <1>1, <1>2 DEF TakeInv
  <2> QED
    BY <1>2, <2>1, CrashKeeps
<1>3. CASE ~((torn \/ cash = << >>) /\ Crash)
  <2>1. /\ UNCHANGED <<wrote, pipe, reader, held, key, printed, disorder, printThread, hide, form, sender,
                       server, clash, crossed, late>>
        /\ MovesTo(p, "removing") /\ CallBegins
    BY <1>3 DEF RemoveBegins, shown, closing, list, history
  <2>2. cash' \in Seq(Line) /\ torn' \in BOOLEAN /\ (torn => torn') /\ (~torn' => cash' = cash)
    BY <2>1, CallBegun
  <2>3. HandInv' /\ printer' \in [Printer -> PrinterAt]
    BY <1>1, <2>1, PrinterHand DEF PrinterAt
  <2>4. TypeOK' /\ LineInv' /\ FailsOnlyByRace'
    BY <2>1, <2>2, <2>3 DEF TypeOK, LineInv, FailsOnlyByRace
  <2>5. TakeInv'
    BY <1>1, <2>1, <2>2 DEF TakeInv, MovesTo, TypeOK
  <2> QED
    BY <2>3, <2>4, <2>5
<1> QED
  BY <1>2, <1>3

LEMMA RemoveEndsStep ==
    ASSUME ConsoleInv, Runs, NEW p \in Printer, RemoveEnds(p)
    PROVE  ConsoleInv'
<1> USE DEF ConsoleInv
<1>1. printer[p] = "removing"
  BY DEF RemoveEnds
<1>2. CASE torn /\ Crash
  BY <1>2, CrashKeeps
<1>3. CASE ~(torn /\ Crash)
  <2>1. /\ UNCHANGED <<wrote, pipe, reader, held, key, printed, disorder, printThread, hide, form, sender,
                       server, clash, crossed, late, torn>>
        /\ MovesTo(p, "show")
        /\ cash' = IF torn THEN << >> ELSE SubSeq(cash, 2, Len(cash))
    BY <1>3 DEF RemoveEnds, CallEnds, FirstTaken, shown, closing, list, history
  <2>2. cash' \in Seq(Line)
    BY <2>1 DEF TypeOK
  <2>3. HandInv' /\ printer' \in [Printer -> PrinterAt]
    BY <1>1, <2>1, PrinterHand DEF PrinterAt
  <2>4. TypeOK' /\ LineInv' /\ FailsOnlyByRace'
    BY <2>1, <2>2, <2>3 DEF TypeOK, LineInv, FailsOnlyByRace
  <2>5. TakeInv'
    BY <1>1, <2>1 DEF TakeInv, HandInv, MovesTo, TypeOK
  <2> QED
    BY <2>3, <2>4, <2>5
<1> QED
  BY <1>2, <1>3

LEMMA ShowStep ==
    ASSUME ConsoleInv, Runs, NEW p \in Printer, Show(p)
    PROVE  ConsoleInv'
<1> USE DEF ConsoleInv
<1>1. printer[p] = "show"
  BY DEF Show
<1>2. CASE IF form = "closed" THEN clash /\ Crash ELSE held[p] = Empty /\ ~key /\ Crash
  <2>1. Empty \notin Line
    BY DEF Empty, Line
  <2>2. Crash /\ (crossed \/ torn \/ clash)
    BY <1>1, <1>2, <2>1 DEF TakeInv
  <2> QED
    BY <2>2, CrashKeeps
<1>3. CASE ~(IF form = "closed" THEN clash /\ Crash ELSE held[p] = Empty /\ ~key /\ Crash)
  <2>1. /\ UNCHANGED <<wrote, pipe, reader, printThread, hide, form, sender,
                       server, clash, crossed, late, torn, cash>>
        /\ MovesTo(p, "sleep") /\ held' = [held EXCEPT ![p] = Empty]
    BY <1>3 DEF Show, closing, list, history
  <2>2. key' \in BOOLEAN /\ disorder' \in BOOLEAN
    BY <1>3, Zenon DEF Show, TypeOK, shown
  <2>3. printed' \subseteq Line
    BY <1>3 DEF Show, TypeOK, shown, LineOf
  <2>4. HandInv' /\ printer' \in [Printer -> PrinterAt]
    BY <1>1, <2>1, PrinterHand DEF PrinterAt
  <2>5. TypeOK'
    BY <2>1, <2>2, <2>3, <2>4 DEF TypeOK
  <2>6. LineInv' /\ FailsOnlyByRace' /\ TakeInv'
    BY <1>1, <2>1 DEF LineInv, FailsOnlyByRace, TakeInv, MovesTo, TypeOK
  <2> QED
    BY <2>4, <2>5, <2>6
<1> QED
  BY <1>2, <1>3

LEMMA WakeStep ==
    ASSUME ConsoleInv, Runs, NEW p \in Printer, Wake(p)
    PROVE  ConsoleInv'
<1> USE DEF ConsoleInv
<1>1. /\ UNCHANGED <<wrote, pipe, reader, held, key, printed, disorder, printThread, hide, form, sender,
                     server, clash, crossed, late>>
      /\ printer[p] = "sleep"
      /\ \/ CallBegins /\ MovesTo(p, "clearing")
         \/ UNCHANGED <<cash, torn>> /\ MovesTo(p, "test")
  BY DEF Wake, shown, closing, list, history
<1>2. cash' \in Seq(Line) /\ torn' \in BOOLEAN /\ (torn => torn') /\ (~torn' => cash' = cash)
  BY <1>1, CallBegun DEF TypeOK
<1>3. HandInv' /\ printer' \in [Printer -> PrinterAt]
  BY <1>1, PrinterHand DEF PrinterAt
<1>4. TypeOK' /\ LineInv' /\ FailsOnlyByRace'
  BY <1>1, <1>2, <1>3 DEF TypeOK, LineInv, FailsOnlyByRace
<1>5. TakeInv'
  BY <1>1, <1>2 DEF TakeInv, MovesTo, TypeOK
<1> QED
  BY <1>3, <1>4, <1>5

LEMMA ClearEndsStep ==
    ASSUME ConsoleInv, Runs, NEW p \in Printer, ClearEnds(p)
    PROVE  ConsoleInv'
<1> USE DEF ConsoleInv
<1>1. /\ UNCHANGED <<wrote, pipe, reader, held, key, printed, disorder, printThread, hide, form, sender,
                     server, clash, crossed, late, torn>>
      /\ printer[p] = "clearing"
      /\ cash' = << >> /\ MovesTo(p, "test")
  BY DEF ClearEnds, CallEnds, shown, closing, list, history
<1>2. HandInv' /\ printer' \in [Printer -> PrinterAt]
  BY <1>1, PrinterHand DEF PrinterAt
<1>3. TypeOK' /\ LineInv' /\ FailsOnlyByRace'
  BY <1>1, <1>2 DEF TypeOK, LineInv, FailsOnlyByRace
<1>4. TakeInv'
  BY <1>1 DEF TakeInv, HandInv, MovesTo, TypeOK
<1> QED
  BY <1>2, <1>3, <1>4

LEMMA EndsStep ==
    ASSUME ConsoleInv, Runs, NEW p \in Printer, Ends(p)
    PROVE  ConsoleInv'
<1> USE DEF ConsoleInv
<1>1. /\ UNCHANGED <<wrote, pipe, reader, held, key, printed, disorder, hide, form, sender,
                     server, clash, crossed, late, torn, cash>>
      /\ printer[p] = "done" /\ printThread' = None
      /\ printer' = [printer EXCEPT ![p] = "dead"]
  BY DEF Ends, MovesTo, shown, closing, list, history
<1>2. TypeOK' /\ LineInv' /\ FailsOnlyByRace'
  BY <1>1 DEF TypeOK, LineInv, FailsOnlyByRace, PrinterAt
<1>3. HandInv'
  BY <1>1 DEF HandInv, TypeOK, Making
<1>4. TakeInv'
  BY <1>1 DEF TakeInv, TypeOK
<1> QED
  BY <1>2, <1>3, <1>4

LEMMA WindowStep ==
    ASSUME ConsoleInv, Runs, TickShowTrace \/ OnFormClosing \/ Ask \/ WaitEnds
    PROVE  ConsoleInv'
<1> USE DEF ConsoleInv
<1>1. /\ UNCHANGED <<wrote, pipe, reader, printer, held, key, printed, disorder, printThread,
                     server, crossed, late, torn, cash>>
      /\ form' \in {"open", "found", "ask", "wait", "closed"}
  BY DEF TickShowTrace, OnFormClosing, Ask, WaitEnds, Closes, printing, shown, closing, list, history, TypeOK, Runs
<1>2. hide' \in BOOLEAN /\ sender' \in BOOLEAN /\ clash' \in BOOLEAN
  BY DEF TickShowTrace, OnFormClosing, Ask, AskFor, WaitEnds, Closes, closing, history, TypeOK
<1>3. TypeOK'
  BY <1>1, <1>2 DEF TypeOK
<1>4. LineInv' /\ HandInv' /\ TakeInv' /\ FailsOnlyByRace'
  BY <1>1 DEF LineInv, HandInv, TakeInv, FailsOnlyByRace, Making
<1> QED
  BY <1>3, <1>4

LEMMA AbortStep ==
    ASSUME ConsoleInv, Runs, Abort
    PROVE  ConsoleInv'
<1> USE DEF ConsoleInv
<1>1. UNCHANGED <<wrote, pipe, reader, key, printed, disorder, printThread, hide, sender, server, crossed, late>>
  BY DEF Abort, shown
<1>2. CASE printThread = None
  <2>1. /\ form' \in {"open", "crashed"} /\ clash' = TRUE
        /\ UNCHANGED <<printer, held, cash, torn>>
    BY <1>2 DEF Abort, list
  <2>2. TypeOK'
    BY <1>1, <2>1 DEF TypeOK
  <2> QED
    BY <1>1, <2>1, <2>2 DEF LineInv, HandInv, TakeInv, FailsOnlyByRace, Making
<1>3. CASE printThread # None
  <2>1. /\ form' = "ask" /\ UNCHANGED clash
        /\ printer' = [printer EXCEPT ![printThread] =
                         IF printer[printThread] \in {"new", "doomed"} THEN "doomed" ELSE "dead"]
        /\ held' = [held EXCEPT ![printThread] = Empty]
        /\ (cash' = << >> /\ torn' = TRUE) \/ UNCHANGED <<cash, torn>>
    BY <1>3 DEF Abort, list
  <2>2. printThread \in Printer
    BY <1>3 DEF TypeOK
  <2>3. TypeOK'
    <3>1. printer' \in [Printer -> PrinterAt] /\ held' \in [Printer -> Line \cup {Empty}]
      BY <2>1, <2>2 DEF TypeOK, PrinterAt
    <3>2. << >> \in Seq(Line) /\ cash \in Seq(Line)
      BY DEF TypeOK
    <3>3. cash' \in Seq(Line) /\ torn' \in BOOLEAN
      BY <2>1, <3>2 DEF TypeOK
    <3> QED
      BY <1>1, <2>1, <3>1, <3>3 DEF TypeOK
  <2>4. LineInv' /\ FailsOnlyByRace'
    BY <1>1, <2>1 DEF LineInv, FailsOnlyByRace
  <2>5. HandInv'
    <3>1. /\ \A p \in Printer : p # printThread => printer'[p] = printer[p]
          /\ printer[printThread] \in {"new", "doomed"} => printer'[printThread] \in {"new", "doomed"}
      <4>1. printer \in [Printer -> PrinterAt]
        BY DEF TypeOK
      <4>2. \A p \in Printer : p # printThread => printer'[p] = printer[p]
        BY <2>1, <2>2, <4>1
      <4>3. printer'[printThread] = IF printer[printThread] \in {"new", "doomed"} THEN "doomed" ELSE "dead"
        BY <2>1, <2>2, <4>1, Zenon
      <4> QED
        BY <4>2, <4>3
    <3> QED
      BY <1>1, <3>1 DEF HandInv, Making
  <2>6. TakeInv'
    BY <1>1, <2>1, <2>2 DEF TakeInv, TypeOK
  <2> QED
    BY <2>3, <2>4, <2>5, <2>6
<1> QED
  BY <1>2, <1>3

-------------------------------------------------------------------------------

THEOREM ConsoleInvariance == Spec => []ConsoleInv
<1>1. Init => ConsoleInv
  <2> SUFFICES ASSUME Init PROVE ConsoleInv
    OBVIOUS
  <2>1. TypeOK
    <3>1. wrote = << >> /\ << >> \in Seq(Stream) /\ Len(wrote) <= MaxLines /\ cash = << >> /\ << >> \in Seq(Line)
      BY ConsoleAssumption DEF Init, Quiet
    <3>2. /\ pipe \in [Stream -> Seq(Line)]
          /\ reader \in [Stream -> [at : ReaderAt, line : Line \cup {Empty}]]
          /\ printer \in [Printer -> PrinterAt] /\ held \in [Printer -> Line \cup {Empty}]
      BY <3>1 DEF Init, Quiet, ReaderAt, PrinterAt
    <3> QED
      BY <3>1, <3>2 DEF Init, Quiet, TypeOK
  <2>2. LineInv /\ HandInv /\ TakeInv /\ FailsOnlyByRace
    BY DEF Init, Quiet, LineInv, HandInv, TakeInv, FailsOnlyByRace, Making
  <2> QED
    BY <2>1, <2>2 DEF ConsoleInv
<1>2. ConsoleInv /\ [Next]_vars => ConsoleInv'
  <2> SUFFICES ASSUME ConsoleInv, [Next]_vars PROVE ConsoleInv'
    OBVIOUS
  <2>1. CASE Runs /\ \E s \in Stream : ReaderStep(s)
    BY <2>1, ReceiveStep, AddStep, TestStep, CreateStep, StartStep DEF ReaderStep
  <2>2. CASE Runs /\ \E p \in Printer : PrinterStep(p)
    BY <2>2, TestsStep, GetStep, RemoveBeginsStep, RemoveEndsStep, ShowStep, WakeStep, ClearEndsStep,
       EndsStep DEF PrinterStep
  <2>3. CASE Runs /\ ((\E s \in Stream : Prints(s)) \/ ServerEnds \/ SendCtrlCode)
    BY <2>3, ServerStep
  <2>4. CASE Runs /\ (TickShowTrace \/ OnFormClosing \/ Ask \/ WaitEnds)
    BY <2>4, WindowStep
  <2>5. CASE Runs /\ Abort
    BY <2>5, AbortStep
  <2>6. CASE UNCHANGED vars
    BY <2>6 DEF vars, printing, shown, closing, list, history, ConsoleInv, TypeOK, LineInv, HandInv,
                TakeInv, FailsOnlyByRace, Making
  <2> QED
    BY <2>1, <2>2, <2>3, <2>4, <2>5, <2>6 DEF Next, FormStep
<1> QED
  BY <1>1, <1>2, PTL DEF Spec

\* Every variable of the console keeps its type.
THEOREM ConsoleTypeCorrect == Spec => []TypeOK
BY ConsoleInvariance, PTL DEF ConsoleInv

\* The console fails only where readers make two threads, calls of the list meet, or
\* closing comes between two steps of the printing thread.
THEOREM ConsoleFailsOnlyByRace == Spec => []FailsOnlyByRace
BY ConsoleInvariance, PTL DEF ConsoleInv

-------------------------------------------------------------------------------
(* Lines left in the list.                                                     *)

\* Somebody will print what is in the list, or its last reader came too late; the
\* thread in the field has ended only for the closing.
LeftInv ==
    Runs /\ ~crossed =>
        /\ ~torn /\ ~late /\ cash # << >> =>
              \/ \E s \in Stream : reader[s].at \in {"test", "create", "start"}
              \/ printThread # None /\ printer[printThread] # "done"
        /\ printThread # None =>
              /\ printer[printThread] # "none"
              /\ printer[printThread] \in {"doomed", "dead"} => form \notin {"open", "found"}

LEMMA LeftStep ==
    ASSUME ConsoleInv, LeftInv, [Next]_vars
    PROVE  LeftInv'
<1> USE DEF ConsoleInv
<1> SUFFICES ASSUME Runs', ~crossed' PROVE LeftInv'
  BY DEF LeftInv
<1>1. ~crossed /\ Runs
  <2>1. Runs
    BY DEF Next, Runs, vars, closing
  <2>2. CASE \E s \in Stream : TestThread(s)
    BY <2>1, <2>2, Zenon DEF TestThread
  <2>3. CASE UNCHANGED crossed
    BY <2>1, <2>3, Zenon
  <2>4. ASSUME NEW s \in Stream, Prints(s) \/ Receive(s) \/ AddEnds(s) \/ CreateThread(s) \/ StartThread(s)
        PROVE  UNCHANGED crossed
    BY <2>4 DEF Prints, Receive, AddEnds, CreateThread, StartThread, Crash, history
  <2>5. ASSUME NEW p \in Printer, PrinterStep(p) PROVE UNCHANGED crossed
    BY <2>5 DEF PrinterStep, Test, Get, RemoveBegins, RemoveEnds, Show, Wake, ClearEnds, Ends, Crash, history
  <2>6. CASE ServerEnds \/ TickShowTrace \/ OnFormClosing \/ FormStep \/ UNCHANGED vars
    <3>1. UNCHANGED crossed
      BY <2>6 DEF ServerEnds, TickShowTrace, OnFormClosing, FormStep, Abort, Ask, SendCtrlCode, WaitEnds,
             vars, history
    <3> QED
      BY <2>3, <3>1
  <2> QED
    BY <2>2, <2>3, <2>4, <2>5, <2>6 DEF Next, ReaderStep
<1> DEFINE Reading(s) == reader[s].at \in {"test", "create", "start"}
           Printing == printThread # None /\ printer[printThread] # "done"
           Ended == printThread # None =>
                        /\ printer[printThread] # "none"
                        /\ printer[printThread] \in {"doomed", "dead"} => form \notin {"open", "found"}
<1>2. ~Crash
  BY DEF Crash, Runs
<1>3. /\ ~torn /\ ~late /\ cash # << >> => (\E s \in Stream : Reading(s)) \/ Printing
      /\ Ended
  BY <1>1 DEF LeftInv
<1>4. SUFFICES /\ ~torn' /\ ~late' /\ cash' # << >> => (\E s \in Stream : Reading(s)') \/ Printing'
               /\ Ended'
  BY DEF LeftInv
\* A step that takes no line out and leaves the field and its thread alone.
<1>5. ASSUME UNCHANGED <<printThread, late>>, torn => torn', ~torn' => cash' = cash,
             \A s \in Stream : Reading(s) => Reading(s)',
             UNCHANGED printer, form' \in {"open", "found"} => form \in {"open", "found"}
      PROVE  /\ ~torn' /\ ~late' /\ cash' # << >> => (\E s \in Stream : Reading(s)') \/ Printing'
             /\ Ended'
  BY <1>3, <1>5
\* A step of the printing thread.
<1>6. ASSUME NEW p \in Printer, NEW at \in PrinterAt \ {"none", "doomed", "dead"}, MovesTo(p, at),
             printer[p] \notin {"none", "new", "doomed", "dead"},
             at = "done" => torn \/ cash = << >>,
             UNCHANGED <<printThread, reader, late, form>>, torn => torn',
             ~torn' /\ cash' # << >> => cash # << >>
      PROVE  /\ ~torn' /\ ~late' /\ cash' # << >> => (\E s \in Stream : Reading(s)') \/ Printing'
             /\ Ended'
  <2>1. printThread = p
    BY <1>1, <1>6 DEF HandInv
  <2>2. printer'[p] = at
    BY <1>6 DEF MovesTo, TypeOK
  <2>3. p # None
    BY DEF Printer, Line, None
  <2> QED
    BY <1>6, <2>1, <2>2, <2>3
<1>7. CASE \E s \in Stream : Prints(s) \/ Receive(s)
  BY <1>5, <1>7, CallBegun DEF Prints, Receive, printing, closing, list, history, TypeOK
<1>8. ASSUME NEW s \in Stream, AddEnds(s)
      PROVE  /\ ~torn' /\ ~late' /\ cash' # << >> => (\E r \in Stream : Reading(r)') \/ Printing'
             /\ Ended'
  <2>1. Reading(s)'
    BY <1>8 DEF AddEnds, GoesTo, TypeOK
  <2> QED
    BY <1>3, <1>8, <2>1 DEF AddEnds, printing, closing
<1>9. ASSUME NEW s \in Stream, TestThread(s)
      PROVE  /\ ~torn' /\ ~late' /\ cash' # << >> => (\E r \in Stream : Reading(r)') \/ Printing'
             /\ Ended'
  <2>1. UNCHANGED <<printer, printThread, form>>
    BY <1>9 DEF TestThread, printing, closing
  <2>2. CASE printThread = None
    <3>1. Reading(s)'
      BY <1>9, <2>2 DEF TestThread, GoesTo, TypeOK
    <3> QED
      BY <2>1, <2>2, <3>1
  <2>3. CASE printThread # None
    <3>1. ~late' => printer[printThread] # "done"
      BY <1>9, <2>3, Zenon DEF TestThread
    <3> QED
      BY <1>3, <2>1, <2>3, <3>1
  <2> QED
    BY <2>2, <2>3
<1>10. ASSUME NEW s \in Stream, CreateThread(s) \/ StartThread(s)
       PROVE  Printing' /\ Ended'
  <2>1. CASE CreateThread(s)
    <3>1. reader[s].line \in Line /\ reader[s].line # None
      BY <2>1 DEF LineInv, CreateThread, Line, None
    <3>2. printThread' = reader[s].line /\ printer'[printThread'] = "new"
      BY <2>1, <3>1 DEF CreateThread, TypeOK, Printer
    <3> QED
      BY <3>1, <3>2
  <2>2. CASE StartThread(s)
    <3>1. printThread # None /\ printer[printThread] \in {"new", "doomed"}
      BY <1>1, <2>2 DEF HandInv, StartThread
    <3>2. UNCHANGED <<printThread, form>> /\ printThread \in Printer
      BY <2>2, <3>1 DEF StartThread, closing, TypeOK
    <3>3. printer'[printThread] = IF printer[printThread] = "new" THEN "test" ELSE "dead"
      BY <2>2, <3>1, <3>2 DEF StartThread, TypeOK
    <3> QED
      BY <1>3, <3>1, <3>2, <3>3
  <2> QED
    BY <1>10, <2>1, <2>2
<1>11. ASSUME NEW p \in Printer, PrinterStep(p)
       PROVE  /\ ~torn' /\ ~late' /\ cash' # << >> => (\E s \in Stream : Reading(s)') \/ Printing'
              /\ Ended'
  <2> DEFINE Goal == /\ ~torn' /\ ~late' /\ cash' # << >> => (\E s \in Stream : Reading(s)') \/ Printing'
                     /\ Ended'
  <2>1. CASE Test(p)
    <3>1. cash = << >> \/ Len(cash) > 0
      BY DEF TypeOK
    <3>2. PICK at \in {"get", "done"} : MovesTo(p, at) /\ (at = "done" => torn \/ cash = << >>)
      BY <2>1, <3>1 DEF Test, More
    <3> QED
      BY <1>6, <2>1, <3>2 DEF Test, PrinterAt, closing, list, history
  <2>2. CASE Get(p)
    <3>1. printer[p] = "get" /\ MovesTo(p, "remove")
          /\ UNCHANGED <<printThread, reader, late, form, torn, cash>>
      BY <1>2, <2>2 DEF Get, closing, list, history
    <3> QED
      BY <1>6, <3>1 DEF PrinterAt
  <2>3. CASE RemoveBegins(p)
    BY <1>2, <1>6, <2>3, CallBegun DEF RemoveBegins, PrinterAt, closing, history
  <2>4. CASE RemoveEnds(p)
    <3>1. printer[p] = "removing" /\ MovesTo(p, "show")
          /\ UNCHANGED <<printThread, reader, late, form, torn>>
          /\ cash' = IF torn THEN << >> ELSE SubSeq(cash, 2, Len(cash))
      BY <1>2, <2>4 DEF RemoveEnds, CallEnds, FirstTaken, closing, history
    <3>2. cash = << >> => SubSeq(cash, 2, Len(cash)) = << >>
      OBVIOUS
    <3> QED
      BY <1>6, <3>1, <3>2 DEF PrinterAt
  <2>5. CASE Show(p)
    BY <1>2, <1>6, <2>5 DEF Show, PrinterAt, closing, list, history
  <2>6. CASE Wake(p)
    BY <1>6, <2>6, CallBegun DEF Wake, PrinterAt, closing, list, history
  <2>7. CASE ClearEnds(p)
    BY <1>6, <2>7 DEF ClearEnds, CallEnds, PrinterAt, closing, list, history
  <2>8. CASE Ends(p)
    <3>1. printer[p] = "done" /\ printThread' = None
          /\ UNCHANGED <<reader, late, torn, cash>>
      BY <2>8 DEF Ends, list, history
    <3>2. printThread = p
      BY <1>1, <3>1 DEF HandInv
    <3> QED
      BY <1>3, <3>1, <3>2
  <2> QED
    BY <1>11, <2>1, <2>2, <2>3, <2>4, <2>5, <2>6, <2>7, <2>8 DEF PrinterStep
<1>12. CASE \/ ServerEnds \/ TickShowTrace \/ OnFormClosing \/ Ask \/ SendCtrlCode \/ WaitEnds
            \/ UNCHANGED vars
  BY <1>5, <1>12 DEF ServerEnds, TickShowTrace, OnFormClosing, Ask, SendCtrlCode, WaitEnds, Closes,
         vars, printing, closing, list, history
<1>13. CASE Abort
  <2>1. UNCHANGED <<reader, printThread, late>>
    BY <1>13 DEF Abort
  <2>2. CASE printThread = None
    BY <1>3, <1>13, <2>1, <2>2 DEF Abort, list
  <2>3. CASE printThread # None
    <3>1. printThread \in Printer
      BY <2>3 DEF TypeOK
    <3>2. form' = "ask" /\ printer'[printThread] \in {"doomed", "dead"}
      BY <1>13, <2>3, <3>1, Zenon DEF Abort, TypeOK
    <3> QED
      BY <2>1, <2>3, <3>2
  <2> QED
    BY <2>2, <2>3
<1> QED
  BY <1>7, <1>8, <1>9, <1>10, <1>11, <1>12, <1>13 DEF Next, ReaderStep, FormStep

-------------------------------------------------------------------------------
(* The order of lines: printed, at the window, in the list, in a reader's hand, *)
(* in the pipe.                                                                *)

Stored == {cash[i] : i \in 1..Len(cash)}
Shown == {held[p] : p \in {q \in Printer : printer[q] = "show"}}
Coming(s) == {pipe[s][i] : i \in 1..Len(pipe[s])}
                 \cup {l \in {reader[s].line} : reader[s].at = "adding"}

Before(A, B) == \A a \in A, b \in B : wrote[a] = wrote[b] => a < b

\* What is still to come of a stream comes in order.
PipeInv ==
    \A s \in Stream :
        /\ \A l \in Coming(s) : l \in 1..Len(wrote) /\ wrote[l] = s
        /\ \A i, j \in 1..Len(pipe[s]) : i < j => pipe[s][i] < pipe[s][j]
        /\ reader[s].at = "adding" => \A i \in 1..Len(pipe[s]) : reader[s].line < pipe[s][i]

\* What has come came before it, in order.
CameInv ==
    /\ printed \cup Shown \cup Stored \subseteq 1..Len(wrote)
    /\ \A s \in Stream : Before(printed \cup Shown \cup Stored, Coming(s))
    /\ Before(printed \cup Shown, Stored) /\ Before(printed, Shown)
    /\ \A i, j \in 1..Len(cash) : i < j /\ wrote[cash[i]] = wrote[cash[j]] => cash[i] < cash[j]
    /\ \A p \in Printer : printer[p] \in {"remove", "removing"} => held[p] = cash[1]
    /\ ~disorder

OrderInv == PipeInv /\ (~crossed /\ ~torn => CameInv)

LEMMA CrashOrder ==
    ASSUME ConsoleInv, OrderInv, Crash
    PROVE  OrderInv'
<1>1. /\ pipe' = [s \in Stream |-> << >>]
      /\ reader' = [s \in Stream |-> [at |-> "idle", line |-> Empty]]
      /\ printer' = [p \in Printer |-> "none"] /\ cash' = << >>
      /\ UNCHANGED <<wrote, printed, disorder, crossed, torn>>
  BY DEF Crash, Quiet, shown, history
<1>2. Shown' = {} /\ Stored' = {} /\ \A s \in Stream : Coming(s)' = {}
  BY <1>1 DEF Shown, Stored, Coming
<1>3. PipeInv'
  BY <1>1, <1>2 DEF PipeInv
<1>4. ~crossed' /\ ~torn' => CameInv'
  BY <1>1, <1>2 DEF OrderInv, CameInv, Before
<1> QED
  BY <1>3, <1>4 DEF OrderInv

\* A step that brings no line further, but may have the printing thread find the first.
LEMMA OrderFrame ==
    ASSUME ConsoleInv, OrderInv, UNCHANGED <<wrote, pipe, printed, disorder>>,
           crossed => crossed', torn => torn',
           \A s \in Stream : reader'[s].at = "adding" =>
               reader[s].at = "adding" /\ reader'[s].line = reader[s].line,
           ~crossed' /\ ~torn' =>
               /\ cash' = cash \/ cash' = << >>
               /\ \A p \in Printer :
                     /\ printer'[p] = "show" => printer[p] = "show" /\ held'[p] = held[p]
                     /\ printer'[p] \in {"remove", "removing"} => held'[p] = cash'[1]
    PROVE  OrderInv'
<1>1. \A s \in Stream : Coming(s)' \subseteq Coming(s)
  BY DEF Coming
<1>2. PipeInv'
  BY <1>1 DEF OrderInv, PipeInv
<1>3. ASSUME ~crossed', ~torn' PROVE CameInv'
  <2>1. CameInv
    BY <1>3 DEF OrderInv
  <2>2. Stored' \subseteq Stored
    BY <1>3 DEF Stored
  <2>3. Shown' \subseteq Shown
    BY <1>3 DEF Shown
  <2>4. \A i, j \in 1..Len(cash') : i < j /\ wrote'[cash'[i]] = wrote'[cash'[j]] => cash'[i] < cash'[j]
    BY <1>3, <2>1 DEF CameInv
  <2> QED
    BY <1>1, <1>3, <2>1, <2>2, <2>3, <2>4 DEF CameInv, Before
<1> QED
  BY <1>2, <1>3 DEF OrderInv

LEMMA PrintsOrder ==
    ASSUME ConsoleInv, OrderInv, NEW s \in Stream, Prints(s)
    PROVE  OrderInv'
<1> USE DEF ConsoleInv
<1> DEFINE n == Len(wrote) + 1
<1>1. /\ wrote' = Append(wrote, s)
      /\ pipe' = [pipe EXCEPT ![s] = Append(pipe[s], n)]
      /\ UNCHANGED <<reader, printer, held, cash, printed, disorder, crossed, torn>>
  BY DEF Prints, printing, shown, list, history
<1>2. /\ Len(wrote) \in Nat /\ Len(wrote') = n /\ wrote'[n] = s
      /\ \A l \in 1..Len(wrote) : wrote'[l] = wrote[l] /\ l \in 1..n /\ l < n
  BY <1>1 DEF TypeOK
<1>3. /\ \A r \in Stream : r # s => pipe'[r] = pipe[r]
      /\ Len(pipe[s]) \in Nat /\ Len(pipe'[s]) = Len(pipe[s]) + 1 /\ pipe'[s][Len(pipe[s]) + 1] = n
      /\ \A i \in 1..Len(pipe[s]) : pipe'[s][i] = pipe[s][i]
  <2>1. pipe[s] \in Seq(Line) /\ pipe'[s] = Append(pipe[s], n)
    BY <1>1 DEF TypeOK
  <2>2. \A r \in Stream : r # s => pipe'[r] = pipe[r]
    BY <1>1 DEF TypeOK
  <2> HIDE DEF n
  <2>3. Len(pipe'[s]) = Len(pipe[s]) + 1 /\ pipe'[s][Len(pipe[s]) + 1] = n
        /\ \A i \in 1..Len(pipe[s]) : pipe'[s][i] = pipe[s][i]
    BY <2>1
  <2> QED
    BY <2>1, <2>2, <2>3
<1>4. \A r \in Stream : Coming(r)' \subseteq Coming(r) \cup {l \in {n} : r = s}
  <2> HIDE DEF n
  <2>1. \A r \in Stream : r # s => Coming(r)' = Coming(r)
    BY <1>1, <1>3 DEF Coming
  <2>2. \A i \in 1..Len(pipe'[s]) : i \in 1..Len(pipe[s]) \/ i = Len(pipe[s]) + 1
    BY <1>3
  <2>3. Coming(s)' \subseteq Coming(s) \cup {n}
    BY <1>1, <1>3, <2>2 DEF Coming
  <2> QED
    BY <2>1, <2>3
<1>5. \A r \in Stream : \A l \in Coming(r) : l \in 1..Len(wrote) /\ wrote[l] = r
  BY DEF OrderInv, PipeInv
<1>6. PipeInv'
  <2>1. \A r \in Stream : \A l \in Coming(r)' : l \in 1..Len(wrote') /\ wrote'[l] = r
    BY <1>2, <1>4, <1>5
  <2>2. \A i \in 1..Len(pipe[s]) : pipe[s][i] < n
    BY <1>2, <1>5 DEF Coming
  <2>3. \A i, j \in 1..Len(pipe'[s]) : i < j => pipe'[s][i] < pipe'[s][j]
    <3> SUFFICES ASSUME NEW i \in 1..Len(pipe'[s]), NEW j \in 1..Len(pipe'[s]), i < j
                 PROVE  pipe'[s][i] < pipe'[s][j]
      OBVIOUS
    <3> HIDE DEF n
    <3>1. i \in 1..Len(pipe[s]) /\ (j \in 1..Len(pipe[s]) \/ j = Len(pipe[s]) + 1)
      BY <1>3
    <3> QED
      BY <1>3, <2>2, <3>1 DEF OrderInv, PipeInv
  <2>4. reader[s].at = "adding" => \A i \in 1..Len(pipe'[s]) : reader[s].line < pipe'[s][i]
    <3> SUFFICES ASSUME reader[s].at = "adding", NEW i \in 1..Len(pipe'[s])
                 PROVE  reader[s].line < pipe'[s][i]
      OBVIOUS
    <3>1. reader[s].line < n
      BY <1>2, <1>5 DEF Coming
    <3> HIDE DEF n
    <3>2. i \in 1..Len(pipe[s]) \/ i = Len(pipe[s]) + 1
      BY <1>3
    <3> QED
      BY <1>3, <3>1, <3>2 DEF OrderInv, PipeInv
  <2> QED
    BY <1>1, <1>3, <2>1, <2>3, <2>4 DEF OrderInv, PipeInv
<1>7. ASSUME ~crossed', ~torn' PROVE CameInv'
  <2>1. CameInv
    BY <1>1, <1>7 DEF OrderInv
  <2>2. Shown' = Shown /\ Stored' = Stored
    BY <1>1 DEF Shown, Stored
  <2> DEFINE past == printed \cup Shown \cup Stored
  <2>3. past \subseteq 1..Len(wrote)
    BY <2>1 DEF CameInv
  <2>4. \A a \in past : a < n /\ wrote'[a] = wrote[a]
    BY <1>2, <2>3
  <2>5. \A r \in Stream : Before(past, Coming(r))'
    <3> HIDE DEF n
    <3> QED
      BY <1>1, <1>2, <1>4, <1>5, <2>1, <2>2, <2>4 DEF CameInv, Before
  <2>6. Before(printed \cup Shown, Stored)' /\ Before(printed, Shown)'
    BY <1>1, <2>1, <2>2, <2>4 DEF CameInv, Before
  <2>7. \A i, j \in 1..Len(cash') : i < j /\ wrote'[cash'[i]] = wrote'[cash'[j]] => cash'[i] < cash'[j]
    BY <1>1, <2>1, <2>4 DEF CameInv, Stored
  <2>8. (printed \cup Shown \cup Stored)' \subseteq 1..Len(wrote')
    BY <1>1, <1>2, <2>2, <2>3
  <2> QED
    BY <1>1, <2>1, <2>5, <2>6, <2>7, <2>8, <2>2 DEF CameInv
<1> QED
  BY <1>6, <1>7 DEF OrderInv

LEMMA ReceiveOrder ==
    ASSUME ConsoleInv, OrderInv, NEW s \in Stream, Receive(s)
    PROVE  OrderInv'
<1> USE DEF ConsoleInv
<1>1. /\ UNCHANGED <<wrote, printer, held, printed, disorder, crossed>>
      /\ reader[s].at = "idle" /\ pipe[s] # << >>
      /\ pipe' = [pipe EXCEPT ![s] = Tail(pipe[s])]
      /\ \/ UNCHANGED <<reader, cash, torn>>
         \/ /\ reader' = [reader EXCEPT ![s] = [at |-> "adding", line |-> Head(pipe[s])]]
            /\ CallBegins
  BY DEF Receive, printing, shown, list, history
<1>2. (torn => torn') /\ (~torn' => cash' = cash)
  BY <1>1, CallBegun
<1>3. /\ \A r \in Stream : r # s => pipe'[r] = pipe[r] /\ reader'[r] = reader[r]
      /\ Len(pipe[s]) \in Nat \ {0} /\ Len(pipe'[s]) = Len(pipe[s]) - 1
      /\ \A i \in 1..Len(pipe'[s]) : pipe'[s][i] = pipe[s][i + 1]
      /\ \/ reader'[s].at = "idle"
         \/ reader'[s].at = "adding" /\ reader'[s].line = pipe[s][1]
  <2>1. pipe[s] \in Seq(Line) /\ pipe'[s] = Tail(pipe[s])
    BY <1>1 DEF TypeOK
  <2>2. \A r \in Stream : r # s => pipe'[r] = pipe[r] /\ reader'[r] = reader[r]
    BY <1>1 DEF TypeOK
  <2>3. /\ Len(pipe[s]) \in Nat \ {0} /\ Len(pipe'[s]) = Len(pipe[s]) - 1
        /\ \A i \in 1..Len(pipe'[s]) : pipe'[s][i] = pipe[s][i + 1]
    <3>1. Len(pipe[s]) \in Nat \ {0}
      BY <1>1, <2>1, EmptySeq
    <3>2. /\ Len(Tail(pipe[s])) = Len(pipe[s]) - 1
          /\ \A i \in 1..Len(Tail(pipe[s])) : Tail(pipe[s])[i] = pipe[s][i + 1]
      BY <1>1, <2>1, HeadTailProperties
    <3> QED
      BY <2>1, <3>1, <3>2
  <2>4. \/ reader'[s].at = "idle"
        \/ reader'[s].at = "adding" /\ reader'[s].line = pipe[s][1]
    BY <1>1, <2>1 DEF TypeOK
  <2> QED
    BY <2>2, <2>3, <2>4
<1>4. \A i \in 1..Len(pipe'[s]) : i + 1 \in 1..Len(pipe[s]) /\ 1 < i + 1 /\ 1 \in 1..Len(pipe[s])
  BY <1>3
<1>5. \A r \in Stream : Coming(r)' \subseteq Coming(r)
  <2>1. \A r \in Stream : r # s => Coming(r)' = Coming(r)
    BY <1>3 DEF Coming
  <2>2. Coming(s)' \subseteq Coming(s)
    BY <1>3, <1>4 DEF Coming
  <2> QED
    BY <2>1, <2>2
<1>6. PipeInv'
  <2>1. \A i, j \in 1..Len(pipe'[s]) : i < j => pipe'[s][i] < pipe'[s][j]
    <3> SUFFICES ASSUME NEW i \in 1..Len(pipe'[s]), NEW j \in 1..Len(pipe'[s]), i < j
                 PROVE  pipe[s][i + 1] < pipe[s][j + 1]
      BY <1>3
    <3>1. i + 1 \in 1..Len(pipe[s]) /\ j + 1 \in 1..Len(pipe[s]) /\ i + 1 < j + 1
      BY <1>3
    <3> QED
      BY <3>1 DEF OrderInv, PipeInv
  <2>2. reader'[s].at = "adding" => \A i \in 1..Len(pipe'[s]) : reader'[s].line < pipe'[s][i]
    BY <1>3, <1>4 DEF OrderInv, PipeInv
  <2> QED
    BY <1>1, <1>3, <1>5, <2>1, <2>2 DEF OrderInv, PipeInv
<1>7. ASSUME ~crossed', ~torn' PROVE CameInv'
  <2>1. CameInv /\ cash' = cash
    BY <1>1, <1>2, <1>7 DEF OrderInv
  <2>2. Shown' = Shown /\ Stored' = Stored
    BY <1>1, <2>1 DEF Shown, Stored
  <2> QED
    BY <1>1, <1>5, <2>1, <2>2 DEF CameInv, Before
<1> QED
  BY <1>6, <1>7 DEF OrderInv

LEMMA AddOrder ==
    ASSUME ConsoleInv, OrderInv, NEW s \in Stream, AddEnds(s)
    PROVE  OrderInv'
<1> USE DEF ConsoleInv
<1> DEFINE n == reader[s].line
<1>1. /\ UNCHANGED <<wrote, pipe, printer, held, printed, disorder, crossed, torn>>
      /\ reader[s].at = "adding"
      /\ cash' = IF torn THEN << >> ELSE Append(cash, n)
      /\ reader' = [reader EXCEPT ![s] = [at |-> "test", line |-> n]]
  BY DEF AddEnds, GoesTo, CallEnds, printing, shown, list, history
<1>2. /\ \A r \in Stream : r # s => reader'[r] = reader[r]
      /\ reader'[s].at = "test"
  BY <1>1 DEF TypeOK
<1>3. /\ \A r \in Stream : Coming(r)' \subseteq Coming(r)
      /\ \A c \in Coming(s)' : n < c
  <2>1. \A r \in Stream : Coming(r)' \subseteq Coming(r)
    BY <1>1, <1>2 DEF Coming
  <2>2. \A c \in Coming(s)' : \E i \in 1..Len(pipe[s]) : c = pipe[s][i]
    BY <1>1, <1>2 DEF Coming
  <2> QED
    BY <1>1, <2>1, <2>2 DEF OrderInv, PipeInv
<1>4. PipeInv'
  BY <1>1, <1>2, <1>3 DEF OrderInv, PipeInv
<1>5. ASSUME ~crossed', ~torn' PROVE CameInv'
  <2>1. CameInv /\ cash' = Append(cash, n)
    BY <1>1, <1>5 DEF OrderInv
  <2>2. n \in Coming(s) /\ n \in 1..Len(wrote) /\ wrote[n] = s /\ n \in Line
    BY <1>1 DEF OrderInv, PipeInv, Coming, LineInv
  <2>3. /\ Len(cash) \in Nat /\ Len(cash') = Len(cash) + 1 /\ cash'[Len(cash) + 1] = n
        /\ \A i \in 1..Len(cash) : cash'[i] = cash[i]
    <3>1. cash \in Seq(Line)
      BY DEF TypeOK
    <3> HIDE DEF n
    <3> QED
      BY <2>1, <2>2, <3>1
  <2>4. \A i \in 1..Len(cash') : i \in 1..Len(cash) \/ i = Len(cash) + 1
    BY <2>3
  <2>5. Shown' = Shown /\ Stored' \subseteq Stored \cup {n}
    <3> HIDE DEF n
    <3> QED
      BY <1>1, <2>3, <2>4 DEF Shown, Stored
  <2>6. \A a \in printed \cup Shown \cup Stored : wrote[a] = s => a < n
    BY <2>1, <2>2 DEF CameInv, Before
  <2>7. (printed \cup Shown \cup Stored)' \subseteq 1..Len(wrote')
    BY <1>1, <2>1, <2>2, <2>5 DEF CameInv
  <2>8. \A r \in Stream : Before(printed \cup Shown \cup Stored, Coming(r))'
    <3>1. \A r \in Stream : \A c \in Coming(r)' : wrote[c] = r
      BY <1>3 DEF OrderInv, PipeInv
    <3>2. \A r \in Stream : Before({n}, Coming(r)')
      BY <1>3, <2>2, <3>1 DEF Before
    <3> HIDE DEF n
    <3> QED
      BY <1>1, <1>3, <2>1, <2>5, <3>2 DEF CameInv, Before
  <2>9. Before(printed \cup Shown, Stored)' /\ Before(printed, Shown)'
    <3> HIDE DEF n
    <3> QED
      BY <1>1, <2>1, <2>2, <2>5, <2>6 DEF CameInv, Before
  <2>10. \A i, j \in 1..Len(cash') : i < j /\ wrote'[cash'[i]] = wrote'[cash'[j]] => cash'[i] < cash'[j]
    <3> SUFFICES ASSUME NEW i \in 1..Len(cash'), NEW j \in 1..Len(cash'), i < j,
                        wrote[cash'[i]] = wrote[cash'[j]]
                 PROVE  cash'[i] < cash'[j]
      BY <1>1
    <3>1. i \in 1..Len(cash)
      BY <2>3
    <3>2. CASE j \in 1..Len(cash)
      BY <2>1, <2>3, <3>1, <3>2 DEF CameInv
    <3>3. CASE j = Len(cash) + 1
      BY <2>2, <2>3, <2>6, <3>1, <3>3 DEF Stored
    <3> QED
      BY <2>4, <3>2, <3>3
  <2>11. \A p \in Printer : printer'[p] \in {"remove", "removing"} => held'[p] = cash'[1]
    <3> SUFFICES ASSUME NEW p \in Printer, printer[p] \in {"remove", "removing"}
                 PROVE  held[p] = cash'[1]
      BY <1>1
    <3>1. cash # << >>
      BY <1>1, <1>5 DEF TakeInv
    <3>2. 1 \in 1..Len(cash)
      BY <3>1 DEF TypeOK
    <3> QED
      BY <2>1, <2>3, <3>2 DEF CameInv
  <2> QED
    BY <1>1, <2>1, <2>7, <2>8, <2>9, <2>10, <2>11 DEF CameInv
<1> QED
  BY <1>4, <1>5 DEF OrderInv

LEMMA RemoveEndsOrder ==
    ASSUME ConsoleInv, OrderInv, NEW p \in Printer, RemoveEnds(p)
    PROVE  OrderInv'
<1> USE DEF ConsoleInv
<1>1. CASE torn /\ Crash
  BY <1>1, CrashOrder
<1>2. CASE ~(torn /\ Crash)
  <2>1. /\ UNCHANGED <<wrote, pipe, reader, held, printed, disorder, crossed, torn>>
        /\ printer[p] = "removing" /\ MovesTo(p, "show")
        /\ cash' = IF torn THEN << >> ELSE SubSeq(cash, 2, Len(cash))
    BY <1>2 DEF RemoveEnds, CallEnds, FirstTaken, shown, history
  <2>2. \A s \in Stream : Coming(s)' = Coming(s)
    BY <2>1 DEF Coming
  <2>3. PipeInv'
    BY <2>1, <2>2 DEF OrderInv, PipeInv
  <2>4. ASSUME ~crossed', ~torn' PROVE CameInv'
    <3>1. CameInv /\ cash # << >> /\ held[p] = cash[1] /\ cash' = SubSeq(cash, 2, Len(cash))
      BY <2>1, <2>4 DEF OrderInv, TakeInv, CameInv
    <3>2. /\ Len(cash) \in Nat \ {0} /\ Len(cash') = Len(cash) - 1
          /\ \A i \in 1..Len(cash') : cash'[i] = cash[i + 1]
      <4>1. cash \in Seq(Line)
        BY DEF TypeOK
      <4>2. Len(cash) \in Nat \ {0}
        BY <3>1, <4>1, EmptySeq
      <4> QED
        BY <3>1, <4>1, <4>2, TailIsSubSeq, HeadTailProperties
    <3>3. \A i \in 1..Len(cash') : i + 1 \in 1..Len(cash) /\ 1 < i + 1 /\ 1 \in 1..Len(cash)
      BY <3>2
    <3>4. Stored' \subseteq Stored /\ cash[1] \in Stored
      BY <3>2, <3>3 DEF Stored
    <3>5. \A q \in Printer : q # p => printer'[q] \in {"none", "dead"}
      BY <2>1, <2>4 DEF HandInv, MovesTo, TypeOK
    <3>6. printer'[p] = "show"
      BY <2>1 DEF MovesTo, TypeOK
    <3>7. Shown' \subseteq {cash[1]}
      BY <2>1, <3>1, <3>5 DEF Shown
    <3>8. Before({cash[1]}, Stored')
      BY <3>1, <3>2, <3>3 DEF CameInv, Before, Stored
    <3>9. \A i, j \in 1..Len(cash') : i < j /\ wrote'[cash'[i]] = wrote'[cash'[j]] => cash'[i] < cash'[j]
      <4>1. \A i, j \in 1..Len(cash') : i < j => i + 1 < j + 1
        BY <3>2
      <4> QED
        BY <2>1, <3>1, <3>2, <3>3, <4>1 DEF CameInv
    <3>10. (printed \cup Shown \cup Stored)' \subseteq printed \cup Stored
      BY <2>1, <3>4, <3>7
    <3>11. Before(printed \cup Shown, Stored)' /\ Before(printed, Shown)'
      BY <2>1, <3>1, <3>4, <3>7, <3>8 DEF CameInv, Before
    <3> QED
      BY <2>1, <2>2, <3>1, <3>5, <3>6, <3>9, <3>10, <3>11 DEF CameInv, Before
  <2> QED
    BY <2>3, <2>4 DEF OrderInv
<1> QED
  BY <1>1, <1>2

LEMMA ShowOrder ==
    ASSUME ConsoleInv, OrderInv, NEW p \in Printer, Show(p)
    PROVE  OrderInv'
<1> USE DEF ConsoleInv
<1>1. CASE Crash
  BY <1>1, CrashOrder
<1>2. CASE ~Crash
  <2>1. /\ UNCHANGED <<wrote, pipe, reader, cash, crossed, torn>>
        /\ printer[p] = "show" /\ MovesTo(p, "sleep")
        /\ held' = [held EXCEPT ![p] = Empty]
        /\ \/ UNCHANGED <<printed, disorder>>
           \/ printed' = printed \cup LineOf(held[p])
    BY <1>2 DEF Show, shown, list, history
  <2>2. \/ UNCHANGED disorder
        \/ disorder' = (disorder \/ \E l \in printed :
                            held[p] # Empty /\ l >= held[p] /\ wrote[l] = wrote[held[p]])
    BY <1>2, Zenon DEF Show, shown
  <2>3. \A s \in Stream : Coming(s)' = Coming(s)
    BY <2>1 DEF Coming
  <2>4. PipeInv'
    BY <2>1, <2>3 DEF OrderInv, PipeInv
  <2>5. ASSUME ~crossed', ~torn' PROVE CameInv'
    <3>1. CameInv /\ held[p] \in Line /\ held[p] \in Shown
      BY <2>1, <2>5 DEF OrderInv, TakeInv, Shown
    <3>2. ~disorder'
      <4>1. ASSUME NEW l \in printed, l >= held[p], wrote[l] = wrote[held[p]] PROVE FALSE
        <5>1. l < held[p]
          BY <3>1, <4>1 DEF CameInv, Before
        <5>2. l \in Nat /\ held[p] \in Nat
          BY <3>1, ConsoleAssumption DEF TypeOK, Line
        <5> QED
          BY <4>1, <5>1, <5>2
      <4>2. ~disorder
        BY <3>1 DEF CameInv
      <4> QED
        BY <2>2, <4>1, <4>2, Zenon
    <3>3. printed' \subseteq printed \cup {held[p]}
      BY <2>1 DEF LineOf
    <3>4. \A q \in Printer : printer'[q] \in {"none", "dead", "sleep"}
      BY <2>1, <2>5 DEF HandInv, MovesTo, TypeOK
    <3>5. Shown' = {} /\ Stored' = Stored
      BY <2>1, <3>4 DEF Shown, Stored
    <3>6. (printed \cup Shown \cup Stored)' \subseteq printed \cup Shown \cup Stored
      BY <3>1, <3>3, <3>5
    <3>7. printed' \subseteq printed \cup Shown
      BY <3>1, <3>3
    <3> QED
      BY <2>1, <2>3, <3>1, <3>2, <3>4, <3>5, <3>6, <3>7 DEF CameInv, Before
  <2> QED
    BY <2>4, <2>5 DEF OrderInv
<1> QED
  BY <1>1, <1>2

\* The other steps bring no line further.
LEMMA OrderStep ==
    ASSUME ConsoleInv, OrderInv, [Next]_vars
    PROVE  OrderInv'
<1> USE DEF ConsoleInv
\* A reader that takes no line from the pipe and stores none.
<1>1. ASSUME NEW s \in Stream, TestThread(s) \/ CreateThread(s) \/ StartThread(s) PROVE OrderInv'
  <2>1. CASE Crash
    BY <2>1, CrashOrder
  <2>2. CASE ~Crash
    <3>1. /\ UNCHANGED <<wrote, pipe, held, cash, printed, disorder, torn>>
          /\ crossed => crossed'
          /\ \A r \in Stream : reader'[r].at = "adding" => reader'[r] = reader[r]
      <4>1. UNCHANGED <<wrote, pipe, held, cash, printed, disorder, torn>>
        BY <1>1, <2>2 DEF TestThread, CreateThread, StartThread, printing, shown, list
      <4>2. crossed => crossed'
        <5>1. CASE TestThread(s)
          BY <5>1, Zenon DEF TestThread
        <5>2. CASE CreateThread(s) \/ StartThread(s)
          BY <2>2, <5>2 DEF CreateThread, StartThread, history
        <5> QED
          BY <1>1, <5>1, <5>2
      <4>3. reader' = [reader EXCEPT ![s] = reader'[s]] /\ reader'[s].at # "adding"
        BY <1>1, <2>2 DEF TestThread, CreateThread, StartThread, GoesTo, TypeOK
      <4> QED
        BY <4>1, <4>2, <4>3 DEF TypeOK
    <3>2. ASSUME NEW p \in Printer, printer'[p] \in {"remove", "removing", "show"}
          PROVE  printer'[p] = printer[p]
      BY <1>1, <2>2, <3>2 DEF TestThread, CreateThread, StartThread, printing, TypeOK
    <3>3. ~crossed' /\ ~torn' =>
            \A p \in Printer : printer[p] \in {"remove", "removing"} => held[p] = cash[1]
      BY <3>1 DEF OrderInv, CameInv
    <3> QED
      BY <3>1, <3>2, <3>3, OrderFrame
  <2> QED
    BY <2>1, <2>2
\* A step of the printing thread to a place where it holds nothing.
<1>2. ASSUME NEW p \in Printer, NEW at, at \notin {"remove", "removing", "show"}, MovesTo(p, at),
             UNCHANGED <<wrote, pipe, reader, held, printed, disorder, crossed>>,
             printer[p] \notin {"none", "dead"},
             torn => torn', ~torn' => cash' = cash \/ cash' = << >>
      PROVE  OrderInv'
  <2>1. ASSUME ~crossed, NEW q \in Printer PROVE printer'[q] \notin {"remove", "removing", "show"}
    BY <1>2, <2>1 DEF HandInv, MovesTo, TypeOK
  <2> QED
    BY <1>2, <2>1, OrderFrame
<1>3. ASSUME NEW p \in Printer, Test(p) \/ Wake(p) \/ ClearEnds(p) \/ Ends(p) PROVE OrderInv'
  <2>1. PICK at \in {"get", "done", "clearing", "test", "dead"} : MovesTo(p, at)
    BY <1>3 DEF Test, Wake, ClearEnds, Ends
  <2>2. UNCHANGED <<wrote, pipe, reader, held, printed, disorder, crossed>>
    BY <1>3 DEF Test, Wake, ClearEnds, Ends, shown, history
  <2>3. (torn => torn') /\ (~torn' => cash' = cash \/ cash' = << >>)
    BY <1>3, CallBegun DEF Test, Wake, ClearEnds, CallEnds, Ends, list
  <2>4. printer[p] \notin {"none", "dead"}
    BY <1>3 DEF Test, Wake, ClearEnds, Ends
  <2> QED
    BY <1>2, <2>1, <2>2, <2>3, <2>4
\* It looks at the first line, and has it taken out.
<1>4. ASSUME NEW p \in Printer, Get(p) \/ RemoveBegins(p) PROVE OrderInv'
  <2>1. CASE Crash
    BY <2>1, CrashOrder
  <2>2. CASE ~Crash
    <3>1. /\ UNCHANGED <<wrote, pipe, reader, printed, disorder, crossed>>
          /\ printer[p] \in {"get", "remove"}
      BY <1>4, <2>2 DEF Get, RemoveBegins, shown, history
    <3>2. (torn => torn') /\ (~torn' => cash' = cash)
      BY <1>4, <2>2, CallBegun DEF Get, RemoveBegins, list
    <3>3. PICK at \in {"remove", "removing"} : MovesTo(p, at)
      BY <1>4, <2>2 DEF Get, RemoveBegins
    <3>4. ASSUME ~crossed', ~torn' PROVE held'[p] = cash[1]
      <4>1. CASE Get(p)
        <5>1. Taking = {} /\ ~torn
          BY <3>1, <3>2, <3>4, <4>1 DEF Get, HandInv, Taking
        <5>2. PICK x \in {cash[i] : i \in DOMAIN cash \cap {1}} : held' = [held EXCEPT ![p] = x]
          BY <2>2, <4>1, <5>1 DEF Get
        <5> QED
          BY <5>2 DEF TypeOK
      <4>2. CASE RemoveBegins(p)
        <5>1. printer[p] = "remove" /\ UNCHANGED held
          BY <2>2, <4>2 DEF RemoveBegins
        <5> QED
          BY <3>1, <3>2, <3>4, <5>1 DEF OrderInv, CameInv
      <4> QED
        BY <1>4, <4>1, <4>2
    <3>5. ASSUME ~crossed', NEW q \in Printer, printer'[q] \in {"remove", "removing", "show"}
          PROVE  q = p /\ printer'[q] # "show"
      BY <3>1, <3>3, <3>5 DEF HandInv, MovesTo, TypeOK
    <3> QED
      BY <3>1, <3>2, <3>4, <3>5, OrderFrame
  <2> QED
    BY <2>1, <2>2
<1>5. CASE Abort
  <2>1. UNCHANGED <<wrote, pipe, reader, printed, disorder, crossed>>
    BY <1>5 DEF Abort, shown
  <2>2. (torn => torn') /\ (~torn' => cash' = cash)
    BY <1>5, Zenon DEF Abort, list
  <2>3. ASSUME NEW p \in Printer, printer'[p] \in {"remove", "removing", "show"}
        PROVE  printer'[p] = printer[p] /\ held'[p] = held[p]
    <3>1. CASE printThread = None
      BY <1>5, <3>1 DEF Abort
    <3>2. CASE printThread # None
      <4>1. /\ printer' = [printer EXCEPT ![printThread] =
                             IF printer[printThread] \in {"new", "doomed"} THEN "doomed" ELSE "dead"]
            /\ held' = [held EXCEPT ![printThread] = Empty]
        BY <1>5, <3>2 DEF Abort
      <4> QED
        BY <2>3, <4>1 DEF TypeOK
    <3> QED
      BY <3>1, <3>2
  <2>4. ~crossed' /\ ~torn' =>
            \A p \in Printer : printer[p] \in {"remove", "removing"} => held[p] = cash[1]
    BY <2>1, <2>2 DEF OrderInv, CameInv
  <2> QED
    BY <2>1, <2>2, <2>3, <2>4, OrderFrame
<1>6. CASE \/ ServerEnds \/ TickShowTrace \/ OnFormClosing \/ Ask \/ SendCtrlCode \/ WaitEnds
           \/ UNCHANGED vars
  <2>1. UNCHANGED <<wrote, pipe, reader, printer, held, cash, printed, disorder, crossed, torn>>
    BY <1>6 DEF ServerEnds, TickShowTrace, OnFormClosing, Ask, SendCtrlCode, WaitEnds,
           vars, printing, shown, list, history
  <2> QED
    BY <2>1 DEF OrderInv, PipeInv, CameInv, Before, Coming, Shown, Stored
<1> QED
  BY <1>1, <1>3, <1>4, <1>5, <1>6, PrintsOrder, ReceiveOrder, AddOrder, RemoveEndsOrder, ShowOrder
     DEF Next, ReaderStep, PrinterStep, FormStep

-------------------------------------------------------------------------------
(* What follows from them.                                                     *)

\* One thread prints, as long as no two readers make a thread at once.
LEMMA OneAtWork ==
    ASSUME HandInv, ~crossed
    PROVE  AtWork = {} \/ AtWork = {printThread}
BY DEF HandInv, AtWork

\* For any number of lines, nobody is missing to print what is left in the list, but
\* where the last line met a thread that was about to end, or closing stopped it
\* (Form1.cs:214, :224, :237).
THEOREM NobodyMissing == Spec => []NoneLeft
<1>1. Init => LeftInv
  BY DEF Init, Quiet, LeftInv
<1>2. ConsoleInv /\ LeftInv => NoneLeft
  <2> SUFFICES ASSUME ConsoleInv, LeftInv, Runs, ~crossed, ~torn, cash # << >>, ~late,
                      \A s \in Stream : reader[s].at = "idle",
                      \A p \in Printer : printer[p] \in {"none", "dead"}
               PROVE  form \notin {"open", "found"} /\ printThread # None
    BY DEF NoneLeft
  <2>1. printThread # None
    BY DEF LeftInv
  <2>2. printer[printThread] \in {"none", "dead"}
    BY <2>1 DEF ConsoleInv, TypeOK
  <2> QED
    BY <2>1, <2>2 DEF LeftInv
<1> QED
  BY <1>1, <1>2, LeftStep, ConsoleInvariance, PTL DEF Spec

\* For any number of lines and streams, one thread prints, and it prints the lines of a
\* stream in the order they came (Form1.cs:214-217, :229-236): the list, the line taken
\* and the lines printed are in order as long as no calls of the list meet and no two
\* readers make a thread at once.
THEOREM LinesAreInOrder == Spec => []LinesInOrder
<1>1. Init => OrderInv
  <2> SUFFICES ASSUME Init PROVE OrderInv
    OBVIOUS
  <2>1. printed = {} /\ Shown = {} /\ Stored = {} /\ cash = << >> /\ \A s \in Stream : Coming(s) = {}
    BY DEF Init, Quiet, Shown, Stored, Coming
  <2>2. PipeInv
    BY <2>1 DEF Init, Quiet, PipeInv
  <2>3. CameInv
    <3>1. ~disorder /\ (\A p \in Printer : printer[p] = "none") /\ Len(cash) = 0
      BY <2>1 DEF Init, Quiet
    <3> QED
      BY <2>1, <3>1 DEF CameInv, Before
  <2> QED
    BY <2>2, <2>3 DEF OrderInv
<1>2. ConsoleInv /\ OrderInv => LinesInOrder
  <2> SUFFICES ASSUME ConsoleInv, OrderInv, ~crossed, ~torn
               PROVE  Cardinality(AtWork) <= 1 /\ ~disorder
    BY DEF LinesInOrder
  <2>1. Cardinality(AtWork) <= 1
    <3>1. AtWork = {} \/ AtWork = {printThread}
      BY OneAtWork DEF ConsoleInv
    <3>2. Cardinality({}) = 0 /\ Cardinality({printThread}) = 1
      BY FS_EmptySet, FS_Singleton, Zenon
    <3>3. CASE AtWork = {}
      BY <3>2, <3>3
    <3>4. CASE AtWork = {printThread}
      BY <3>2, <3>4
    <3> QED
      BY <3>1, <3>3, <3>4
  <2> QED
    BY <2>1 DEF OrderInv, CameInv
<1> QED
  BY <1>1, <1>2, OrderStep, ConsoleInvariance, PTL DEF Spec

===============================================================================
