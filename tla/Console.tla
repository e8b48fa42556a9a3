-------------------------------- MODULE Console --------------------------------
(* The server's console, ServerForm/Form1.cs: two threads read what the server  *)
(* prints and store the lines in an ArrayList, a thread made when there is none *)
(* takes them out and hands them to the window, and closing the window stops    *)
(* that thread, has the server told to close and waits for its end.  No lock    *)
(* protects the list or the field that holds the printing thread.               *)
EXTENDS Integers, FiniteSets, Sequences

CONSTANTS Stream,      \* the server's redirected output streams
          MaxLines,    \* bound: lines the server prints
          KeyLine      \* the line with the key for control codes

ASSUME ConsoleAssumption == MaxLines \in Nat /\ KeyLine \in 1..MaxLines

Line == 1..MaxLines
Empty == 0             \* a slot of the list with no line in it
None == 0              \* no printing thread

\* A printing thread has the number of the line whose storing made it.
Printer == Line

VARIABLES
    server,      \* up, told to close, gone
    wrote,       \* the stream of each line printed so far
    pipe,        \* lines not read yet, by stream
    reader,      \* where the thread of a stream is in SetOutputHandler, and its line
    printer,     \* where a printing thread is in printLogThreadWork
    held,        \* the line it took
    cash,        \* m_logPrintCash
    printThread, \* m_logPrintThread
    hide,        \* m_showtraceCheckbox
    key,         \* m_ctrlCodeKey is known
    printed,     \* lines handed to the window
    form,        \* where OnFormClosing is
    sender,      \* the thread that sends the control code is to run
    torn,        \* calls of the list have met: what it holds is unknown
    \* For the properties only:
    crossed,     \* a reader found no printing thread while another was making one
    disorder,    \* a line was printed again, or after a later one of its stream
    late,        \* the last line stored found a printing thread past its last test
    clash        \* closing met a printing thread between two steps that go together

list == <<cash, torn>>
history == <<crossed, late, clash>>
shown == <<printed, disorder>>
closing == <<form, sender, server>>
printing == <<printer, held, key, shown>>
vars == <<wrote, pipe, reader, printing, printThread, hide, closing, list, history>>

ReaderAt == {"idle", "adding", "test", "create", "start"}
PrinterAt == {"none", "new", "doomed", "test", "get", "remove", "removing", "show",
              "sleep", "clearing", "done", "dead"}

TypeOK ==
    /\ server \in {"up", "told", "gone"} /\ form \in {"open", "found", "ask", "wait", "closed", "crashed"}
    /\ wrote \in Seq(Stream) /\ Len(wrote) <= MaxLines
    /\ pipe \in [Stream -> Seq(Line)]
    /\ reader \in [Stream -> [at : ReaderAt, line : Line \cup {Empty}]]
    /\ printer \in [Printer -> PrinterAt] /\ held \in [Printer -> Line \cup {Empty}]
    /\ cash \in Seq(Line)
    /\ printThread \in Printer \cup {None}
    /\ {sender, hide, key, torn, crossed, disorder, late, clash} \subseteq BOOLEAN
    /\ printed \subseteq Line

\* The threads and what they share, when the console starts and when it is gone.
Quiet(pp, rd, pr, h, c, t) ==
    /\ pp = [s \in Stream |-> << >>]
    /\ rd = [s \in Stream |-> [at |-> "idle", line |-> Empty]]
    /\ pr = [p \in Printer |-> "none"] /\ h = [p \in Printer |-> Empty]
    /\ c = << >> /\ t = None

Init ==
    /\ Quiet(pipe, reader, printer, held, cash, printThread)
    /\ server = "up" /\ form = "open" /\ sender = FALSE /\ wrote = << >>
    /\ hide = FALSE /\ key = FALSE /\ printed = {}
    /\ torn = FALSE /\ crossed = FALSE /\ disorder = FALSE /\ late = FALSE /\ clash = FALSE

Runs == form # "crashed"

\* An exception nothing catches ends the console; nobody acts on the server any more.
Crash == /\ form' = "crashed"
         /\ Quiet(pipe', reader', printer', held', cash', printThread')
         /\ UNCHANGED <<wrote, key, shown, hide, server, sender, torn, history>>

-------------------------------------------------------------------------------
(* Calls of the ArrayList.  One that meets no other does what it is for; when  *)
(* two meet, lines may be lost, repeated, swapped, or leave an empty slot, and  *)
(* nothing is known of the list from then on.                                  *)

Taking == {p \in Printer : printer[p] \in {"removing", "clearing"}}
Adding == {s \in Stream : reader[s].at = "adding"}

\* A call begins, while others are under way or not.
CallBegins ==
    /\ torn' = (torn \/ Taking \cup Adding # {})
    /\ cash' = IF torn' THEN << >> ELSE cash

CallEnds(exact) == cash' = (IF torn THEN << >> ELSE exact) /\ UNCHANGED torn

-------------------------------------------------------------------------------
(* The server, and the threads that read its output: SetOutputHandler.         *)

Prints(s) ==
    /\ server # "gone" /\ Len(wrote) < MaxLines
    /\ wrote' = Append(wrote, s)
    /\ pipe' = [pipe EXCEPT ![s] = Append(@, Len(wrote) + 1)]
    /\ UNCHANGED <<reader, printing, printThread, hide, closing, list, history>>

\* It ends when told, or by itself.
ServerEnds ==
    /\ server # "gone" /\ server' = "gone"
    /\ UNCHANGED <<wrote, pipe, reader, printing, printThread, hide, form, sender, list, history>>

Receive(s) ==
    /\ reader[s].at = "idle" /\ pipe[s] # << >>
    /\ pipe' = [pipe EXCEPT ![s] = Tail(@)]
    /\ IF hide THEN UNCHANGED <<reader, list>>
       ELSE /\ reader' = [reader EXCEPT ![s] = [at |-> "adding", line |-> Head(pipe[s])]]
            /\ CallBegins
    /\ UNCHANGED <<wrote, printing, printThread, hide, closing, history>>

GoesTo(s, at) ==
    reader' = [reader EXCEPT ![s] = [at |-> at, line |-> IF at = "idle" THEN Empty ELSE @.line]]

AddEnds(s) ==
    /\ reader[s].at = "adding"
    /\ CallEnds(Append(cash, reader[s].line))
    /\ GoesTo(s, "test")
    /\ UNCHANGED <<wrote, pipe, printing, printThread, hide, closing, history>>

TestThread(s) ==
    /\ reader[s].at = "test"
    /\ GoesTo(s, IF printThread = None THEN "create" ELSE "idle")
    /\ late' = (late \/ (printThread # None /\ printer[printThread] = "done"))
    /\ crossed' = (crossed \/ (printThread = None /\ \E r \in Stream : reader[r].at = "create"))
    /\ UNCHANGED <<wrote, pipe, printing, printThread, hide, closing, list, clash>>

CreateThread(s) ==
    /\ reader[s].at = "create"
    /\ printThread' = reader[s].line
    /\ printer' = [printer EXCEPT ![reader[s].line] = "new"]
    /\ GoesTo(s, "start")
    /\ late' = FALSE
    /\ UNCHANGED <<wrote, pipe, held, key, shown, hide, closing, list, crossed, clash>>

\* It starts the thread the field now holds; there may be none, or a started one.
StartThread(s) ==
    /\ reader[s].at = "start"
    /\ IF printThread # None /\ printer[printThread] \in {"new", "doomed"}
       THEN /\ printer' = [printer EXCEPT ![printThread] = IF @ = "new" THEN "test" ELSE "dead"]
            /\ GoesTo(s, "idle")
            /\ UNCHANGED <<wrote, pipe, held, key, shown, printThread, hide, closing, list, history>>
       ELSE Crash

-------------------------------------------------------------------------------
(* The printing thread: printLogThreadWork.                                    *)

MovesTo(p, at) == printer' = [printer EXCEPT ![p] = at]

\* Mutants: a line too many, a line too few.
MoreOrNone(c) == Len(c) >= 0
MoreThanOne(c) == Len(c) > 1

\* The test for lines in the list.
More(c) == Len(c) > 0

Test(p) ==
    /\ printer[p] = "test"
    /\ \/ (torn \/ More(cash)) /\ MovesTo(p, "get")
       \/ (torn \/ ~More(cash)) /\ MovesTo(p, "done")
    /\ UNCHANGED <<wrote, pipe, reader, held, key, shown, printThread, hide, closing, list, history>>

\* m_logPrintCash[0], which raises where there is none; another printing thread may be
\* taking lines out.
Get(p) ==
    /\ printer[p] = "get"
    /\ \/ /\ \E x \in IF torn \/ Taking # {} THEN DOMAIN wrote \cup {Empty}
                    ELSE {cash[i] : i \in DOMAIN cash \cap {1}} :
                 held' = [held EXCEPT ![p] = x]
          /\ MovesTo(p, "remove")
          /\ UNCHANGED <<wrote, pipe, reader, key, shown, printThread, hide, closing, list, history>>
       \/ (torn \/ cash = << >>) /\ Crash

\* RemoveAt(0), which raises likewise.
RemoveBegins(p) ==
    /\ printer[p] = "remove"
    /\ \/ /\ torn \/ cash # << >>
          /\ CallBegins
          /\ MovesTo(p, "removing")
          /\ UNCHANGED <<wrote, pipe, reader, held, key, shown, printThread, hide, closing, history>>
       \/ (torn \/ cash = << >>) /\ Crash

\* Mutant: the last is taken out.
LastTaken(c) == SubSeq(c, 1, Len(c) - 1)

FirstTaken(c) == SubSeq(c, 2, Len(c))

RemoveEnds(p) ==
    /\ printer[p] = "removing"
    /\ \/ /\ CallEnds(FirstTaken(cash))
          /\ MovesTo(p, "show")
          /\ UNCHANGED <<wrote, pipe, reader, held, key, shown, printThread, hide, closing, history>>
       \/ torn /\ Crash

\* Mutant: an empty slot is taken for a line.
AnySlot(x) == {x}

LineOf(x) == {x} \ {Empty}

\* delegateUpdateText: learn the key, have the window show the line.  A window that
\* is disposed of takes no lines, and raises where that comes after the test; looking
\* for the key in an empty slot raises.
Show(p) ==
    /\ printer[p] = "show"
    /\ \/ /\ IF form = "closed" THEN UNCHANGED <<key, shown>>
             ELSE /\ held[p] # Empty \/ key
                  /\ key' = (key \/ held[p] = KeyLine)
                  /\ printed' = printed \cup LineOf(held[p])
                  /\ disorder' = (disorder \/ \E l \in printed :
                                      held[p] # Empty /\ l >= held[p] /\ wrote[l] = wrote[held[p]])
          /\ MovesTo(p, "sleep")
          /\ held' = [held EXCEPT ![p] = Empty]
          /\ UNCHANGED <<wrote, pipe, reader, printThread, hide, closing, list, history>>
       \/ IF form = "closed" THEN clash /\ Crash ELSE held[p] = Empty /\ ~key /\ Crash

\* After the sleep the rest is cleared, if no lines are to be shown.
Wake(p) ==
    /\ printer[p] = "sleep"
    /\ \/ hide /\ (torn \/ cash # << >>) /\ CallBegins /\ MovesTo(p, "clearing")
       \/ (~hide \/ torn \/ cash = << >>) /\ MovesTo(p, "test") /\ UNCHANGED list
    /\ UNCHANGED <<wrote, pipe, reader, held, key, shown, printThread, hide, closing, history>>

ClearEnds(p) ==
    /\ printer[p] = "clearing"
    /\ CallEnds(<< >>)
    /\ MovesTo(p, "test")
    /\ UNCHANGED <<wrote, pipe, reader, held, key, shown, printThread, hide, closing, history>>

Ends(p) ==
    /\ printer[p] = "done"
    /\ printThread' = None
    /\ MovesTo(p, "dead")
    /\ UNCHANGED <<wrote, pipe, reader, held, key, shown, hide, closing, list, history>>

-------------------------------------------------------------------------------
(* The window's thread, and the thread that sends the control code.            *)

TickShowTrace ==
    /\ form = "open" /\ hide' = ~hide
    /\ UNCHANGED <<wrote, pipe, reader, printing, printThread, closing, list, history>>

OnFormClosing ==
    /\ form = "open"
    /\ form' = IF printThread # None THEN "found" ELSE "ask"
    /\ UNCHANGED <<wrote, pipe, reader, printing, printThread, hide, sender, server, list, history>>

\* The field is read again.  When it is empty by then the exception reaches the
\* window's message loop, which asks whether to go on.  A thread aborted within a
\* call of the list leaves that half done; the field keeps the aborted thread.
Abort ==
    /\ form = "found"
    /\ IF printThread = None
       THEN /\ form' \in {"open", "crashed"}
            /\ clash' = TRUE
            /\ UNCHANGED <<printer, held, list>>
       ELSE /\ form' = "ask"
            /\ printer' = [printer EXCEPT ![printThread] = IF @ \in {"new", "doomed"} THEN "doomed" ELSE "dead"]
            /\ IF printer[printThread] \in {"removing", "clearing"}
               THEN cash' = << >> /\ torn' = TRUE
               ELSE UNCHANGED list
            /\ held' = [held EXCEPT ![printThread] = Empty]
            /\ UNCHANGED clash
    /\ UNCHANGED <<wrote, pipe, reader, key, shown, printThread, hide, sender, server, crossed, late>>

\* The window is disposed of; a thread may be on its way to it.
Closes == form' = "closed" /\ clash' = (clash \/ \E p \in Printer : printer[p] = "show")

\* Mutant: the control code is only sent where no thread was printing.
AskIfQuiet == printThread = None

AskFor == TRUE

\* sendCtrlCode(1), unless the server has exited.
Ask ==
    /\ form = "ask"
    /\ IF server = "gone" THEN Closes /\ UNCHANGED sender
       ELSE form' = "wait" /\ sender' = AskFor /\ UNCHANGED clash
    /\ UNCHANGED <<wrote, pipe, reader, printing, printThread, hide, server, list, crossed, late>>

\* sendCtrlCodeByThread; the server obeys if it finds its own key in the packet.
SendCtrlCode ==
    /\ sender /\ sender' = FALSE
    /\ server' = IF server = "up" /\ key THEN "told" ELSE server
    /\ UNCHANGED <<wrote, pipe, reader, printing, printThread, hide, form, list, history>>

\* WaitForExit waits for the server and for the end of what its streams hold.
WaitEnds ==
    /\ form = "wait" /\ server = "gone"
    /\ \A s \in Stream : pipe[s] = << >> /\ reader[s].at = "idle"
    /\ Closes
    /\ UNCHANGED <<wrote, pipe, reader, printing, printThread, hide, sender, server, list, crossed, late>>

-------------------------------------------------------------------------------

ReaderStep(s) == Receive(s) \/ AddEnds(s) \/ TestThread(s) \/ CreateThread(s) \/ StartThread(s)

PrinterStep(p) ==
    \/ Test(p) \/ Get(p) \/ RemoveBegins(p) \/ RemoveEnds(p)
    \/ Show(p) \/ Wake(p) \/ ClearEnds(p) \/ Ends(p)

FormStep == Abort \/ Ask \/ SendCtrlCode \/ WaitEnds

Next ==
    /\ Runs
    /\ \/ \E s \in Stream : Prints(s) \/ ReaderStep(s)
       \/ \E p \in Printer : PrinterStep(p)
       \/ ServerEnds \/ TickShowTrace \/ OnFormClosing \/ FormStep

Spec == Init /\ [][Next]_vars

\* Threads that can run do; a server that was told to close ends.
FairSpec ==
    /\ Spec
    /\ WF_vars(Runs /\ \E s \in Stream : ReaderStep(s)) /\ WF_vars(Runs /\ FormStep)
    /\ WF_vars(Runs /\ server = "told" /\ ServerEnds)

-------------------------------------------------------------------------------
(* Properties.                                                                 *)

AtWork == {p \in Printer : printer[p] \notin {"none", "new", "doomed", "dead"}}

\* What the console does without a lock fails in three ways only: two readers make a
\* thread at once, calls of the list meet, or closing comes between two steps of the
\* printing thread that go together.
FailsOnlyByRace == form = "crashed" => crossed \/ torn \/ clash

\* But for the first two, one thread prints, and prints the lines of a stream once and
\* in the order they came.
LinesInOrder ==
    ~crossed /\ ~torn => Cardinality(AtWork) <= 1 /\ ~disorder

\* Lines are left with nobody to print them only where the last to come met a thread
\* that was about to end, or closing has stopped the thread: the former are printed
\* when a further line comes (Form1.cs:214, :224, :237).
NoneLeft ==
    /\ Runs /\ ~crossed /\ ~torn /\ cash # << >>
    /\ \A s \in Stream : reader[s].at = "idle"
    /\ \A p \in Printer : printer[p] \in {"none", "dead"}
    => late \/ (form \notin {"open", "found"} /\ printThread # None)

\* Once the line with the key has been printed, closing ends: the server is told, and
\* nothing the console does while it waits keeps it from reading the server's last lines.
ClosingEnds ==
    form = "ask" /\ KeyLine \in printed ~> form \in {"closed", "crashed"}

===============================================================================
