------------------------------ MODULE OnThread -------------------------------
(***************************************************************************)
(* One library call made on a thread of its own and waited for by the main *)
(* thread, which Ctrl-C may interrupt (python/blobly/events.py,            *)
(* _on_thread; uds._cancellable gives it an on_interrupt).                 *)
(*                                                                         *)
(* The main thread's pc: "start" (in t.start()), "wait" (in _sliced),      *)
(* "mark" (abandoned.set()), "ask" (the while condition), "poll"           *)
(* (on_interrupt and done.wait(0.02), under its except), "out".            *)
(* A call may end by itself; a cancel that finds it in progress ends it;   *)
(* a cancel before it began is not its.                                    *)
(***************************************************************************)
EXTENDS Integers

CONSTANTS OnInterrupt,    \* BOOLEAN: an on_interrupt was given
          MaxInterrupts   \* bound

ASSUME ThreadAssumption == OnInterrupt \in BOOLEAN /\ MaxInterrupts \in Nat

VARIABLES
    main,        \* pc of the main thread
    worker,      \* "none", "ready", "began", "going", "calling", "ending", "dead"
    began, abandoned, done,   \* the three events
    late,        \* time.monotonic() has passed given_up
    cancelled,   \* the call in progress was cancelled
    outcome,     \* "none", "answer", "interrupted"
    cut,         \* history: where a further interrupt struck outside every try: "none", "mark", "ask"
    interrupts

callVars == <<main, worker, began, abandoned, done, late, cancelled, outcome, cut, interrupts>>

CallInit ==
    /\ main = "start" /\ worker = "none" /\ began = FALSE /\ abandoned = FALSE /\ done = FALSE
    /\ late = FALSE /\ cancelled = FALSE /\ outcome = "none" /\ cut = "none" /\ interrupts = 0

-------------------------------------------------------------------------------
(* The worker: run() *)

\* Mutant: `began` is never set.
WorkerBegins_silent ==
    /\ worker = "ready" /\ worker' = "began"
    /\ UNCHANGED <<main, began, abandoned, done, late, cancelled, outcome, cut, interrupts>>

\* `began` is set before `abandoned` is asked about: the main thread does the reverse.
WorkerBegins ==
    /\ worker = "ready" /\ began' = TRUE /\ worker' = "began"
    /\ UNCHANGED <<main, abandoned, done, late, cancelled, outcome, cut, interrupts>>

WorkerDecides ==
    /\ worker = "began" /\ worker' = IF abandoned THEN "ending" ELSE "going"
    /\ UNCHANGED <<main, began, abandoned, done, late, cancelled, outcome, cut, interrupts>>

WorkerCalls ==
    /\ worker = "going" /\ worker' = "calling"
    /\ UNCHANGED <<main, began, abandoned, done, late, cancelled, outcome, cut, interrupts>>

\* The call returns or raises; either is carried to the main thread.
CallEnds ==
    /\ worker = "calling" /\ worker' = "ending"
    /\ UNCHANGED <<main, began, abandoned, done, late, cancelled, outcome, cut, interrupts>>

WorkerEnds ==
    /\ worker = "ending" /\ worker' = "dead" /\ done' = TRUE
    /\ UNCHANGED <<main, began, abandoned, late, cancelled, outcome, cut, interrupts>>

-------------------------------------------------------------------------------
(* The main thread *)

\* The thread exists from within t.start(), which returns once it runs.
Spawns ==
    /\ main = "start" /\ worker = "none" /\ worker' = "ready"
    /\ UNCHANGED <<main, began, abandoned, done, late, cancelled, outcome, cut, interrupts>>

Started ==
    /\ main = "start" /\ worker # "none" /\ main' = "wait"
    /\ UNCHANGED <<worker, began, abandoned, done, late, cancelled, outcome, cut, interrupts>>

WaitAnswered ==
    /\ main = "wait" /\ done /\ main' = "out" /\ outcome' = "answer"
    /\ UNCHANGED <<worker, began, abandoned, done, late, cancelled, cut, interrupts>>

\* Mutant: the main thread leaves without a word.
Marks_not ==
    /\ main = "mark" /\ main' = "ask"
    /\ UNCHANGED <<worker, began, abandoned, done, late, cancelled, outcome, cut, interrupts>>

Marks ==
    /\ main = "mark" /\ abandoned' = TRUE /\ main' = "ask"
    /\ UNCHANGED <<worker, began, done, late, cancelled, outcome, cut, interrupts>>

\* The while condition.
GoesOn == OnInterrupt /\ ~done /\ (began \/ ~late)

Asks ==
    /\ main = "ask"
    /\ IF GoesOn THEN main' = "poll" /\ UNCHANGED outcome
       ELSE main' = "out" /\ outcome' = "interrupted"
    /\ UNCHANGED <<worker, began, abandoned, done, late, cancelled, cut, interrupts>>

\* Mutant: the cancel is asked for only until given_up.
Polls_a_second ==
    /\ main = "poll" /\ main' = "ask"
    /\ cancelled' = (cancelled \/ (began /\ worker = "calling" /\ ~late))
    /\ UNCHANGED <<worker, began, abandoned, done, late, outcome, cut, interrupts>>

\* on_interrupt, when the call may have begun, and 20 ms of done.wait.
Polls ==
    /\ main = "poll" /\ main' = "ask"
    /\ cancelled' = (cancelled \/ (began /\ worker = "calling"))
    /\ UNCHANGED <<worker, began, abandoned, done, late, outcome, cut, interrupts>>

\* Where an interrupt leads: the wait's is handled, one in the poll is held back, any other
\* (in the except clause, before the inner try) leaves the function.
Landing == CASE main \in {"start", "wait"} -> "mark" [] main = "poll" -> "ask" [] OTHER -> "out"

Interrupt ==
    /\ main # "out" /\ interrupts < MaxInterrupts /\ interrupts' = interrupts + 1
    /\ main' = Landing
    /\ IF Landing = "out" THEN outcome' = "interrupted" /\ cut' = main ELSE UNCHANGED <<outcome, cut>>
    /\ UNCHANGED <<worker, began, abandoned, done, late, cancelled>>

\* given_up passes: one second behind the interrupt.
GivesUp ==
    /\ main \in {"ask", "poll"} /\ ~late /\ late' = TRUE
    /\ UNCHANGED <<main, worker, began, abandoned, done, cancelled, outcome, cut, interrupts>>

-------------------------------------------------------------------------------
Workers == WorkerBegins \/ WorkerDecides \/ WorkerCalls \/ CallEnds \/ WorkerEnds
Mains == Started \/ WaitAnswered \/ Marks \/ Asks \/ Polls

Over == main = "out" /\ worker \in {"none", "dead"} /\ UNCHANGED callVars

\* A thread start() was interrupted in may never run.
CallNext == Workers \/ Mains \/ Spawns \/ Interrupt \/ GivesUp \/ Over

CallSpec == CallInit /\ [][CallNext]_callVars

\* Both threads run; a thread whose start was interrupted need not, and a call that nobody
\* cancels need not end.
Goes == WorkerDecides \/ WorkerCalls \/ (cancelled /\ CallEnds) \/ WorkerEnds
CallFairness == WF_callVars(Goes) /\ WF_callVars(GivesUp) /\ WF_callVars(Mains)

FairCallSpec == CallSpec /\ CallFairness

-------------------------------------------------------------------------------
(* Properties *)

\* An interrupted UDS request: once the caller has its KeyboardInterrupt, the call has returned
\* or is never made, however many interrupts struck in t.start(), in the wait and in the inner
\* try; only one that strikes in the except clause itself (events.py 303-305) leaves it running.
NothingLeftRunning ==
    OnInterrupt /\ main = "out" /\ cut = "none" => worker \notin {"going", "calling"}

\* With or without an on_interrupt, a worker that has not asked when its caller leaves will
\* find the call abandoned and never makes it: also when a further interrupt cut the polling
\* short, unless it struck before `abandoned` was set (events.py 303).
NeverMadeLate ==
    main = "out" /\ cut # "mark" /\ worker \in {"none", "ready", "began"} => abandoned

\* What the docstring of _on_thread says of every further interrupt: on_interrupt "is asked every
\* 20 ms until the call has returned, a further interrupt meanwhile held back" (events.py 282-283).
FurtherInterruptsHeldBack == OnInterrupt /\ main = "out" => worker \notin {"going", "calling"}

\* The caller gets the thread back: a call that would not end by itself is cancelled.
Leaves == interrupts > 0 ~> main = "out"
===============================================================================
