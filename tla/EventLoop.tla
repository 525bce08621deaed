------------------------------ MODULE EventLoop ------------------------------
(***************************************************************************)
(* The Python package's event loop (python/blobly/events.py, EventLoop)    *)
(* and the wait it rests on (wait_on, Project._wait_frame): one thread,    *)
(* callbacks that may take time, raise, register further handlers and call *)
(* run() themselves.                                                       *)
(*                                                                         *)
(* A call of run() is a record on `stack`; while its pc is "call" the      *)
(* callback named by `call` is running on top of it.  Time passes in       *)
(* callbacks, in waits and between runs; the loop's own code takes none.   *)
(***************************************************************************)
EXTENDS Integers, SequencesExt

CONSTANTS Handlers, Monitors, Clocks,  \* message and health handlers, timers, that may be registered
          Channels, NeedsReader,       \* NeedsReader: channels whose ladder moves only while read
          ChannelOf,                   \* the channel a handler or monitor names
          Wants,                       \* the ids a message handler matches
          Ids, States,                 \* frame ids; states of a controller's ladder ("" : unknown)
          Period,                      \* of each timer
          Durations,                   \* what run() is asked for
          HEALTH_POLL, LONGEST_WAIT,
          MaxTime, MaxDepth, MaxRuns, MaxFrames, MaxMoves, MaxRaises   \* bounds

ASSUME LoopAssumption ==
    /\ NeedsReader \subseteq Channels
    /\ ChannelOf \in [Handlers \cup Monitors -> Channels] /\ Wants \in [Handlers -> SUBSET Ids]
    /\ Period \in [Clocks -> Nat \ {0}] /\ Durations \subseteq Nat
    /\ {HEALTH_POLL, LONGEST_WAIT} \subseteq Nat \ {0}
    /\ {MaxTime, MaxDepth, MaxRuns, MaxFrames, MaxMoves, MaxRaises} \subseteq Nat

VARIABLES
    now,                         \* _now()
    on_msg, on_health, timers,   \* _on_msg, _on_health, _timers: sequences, as registered
    said,                        \* _Health.said
    due, active,                 \* _Timer.due, _Timer.active
    pending,                     \* _pending: [n, handlers, left], the handlers as registered when the
                                 \* frame was taken, and where those stand that are still to be called
    stack,                       \* the run() calls in progress, the innermost last
    raising,                     \* an exception is on its way out of the innermost callback
    rr,                          \* _rr: the channel the next wait looks at first
    wire, ladder,                \* frames queued on each channel, each controller's state
    seen, owed,                  \* history: frames each handler was given; handlers a frame owes
    told, born,                  \* history: what each monitor was last told; when a timer was registered
    ended,                       \* history: when each timer's callback last began or ended
    passed,                      \* history: frames taken elsewhere while a read channel had one
    count                        \* how often each bounded thing has happened

registry == <<on_msg, on_health, timers>>
loop     == <<registry, said, due, active, pending, stack, raising, rr>>
history  == <<seen, owed, told, born, ended, passed>>
loopVars     == <<now, loop, wire, ladder, history, count>>

NoCall == [k |-> "none", x |-> "none", n |-> 0]
Top    == stack[Len(stack)]
With(a) == [stack EXCEPT ![Len(stack)] = a]      \* the innermost run() goes on as a
InCallback == stack # <<>> /\ Top.pc = "call"
Bump(c) == count' = [count EXCEPT ![c] = @ + 1]

LoopInit ==
    /\ now = 0 /\ on_msg = <<>> /\ on_health = <<>> /\ timers = <<>>
    /\ said = [m \in Monitors |-> ""] /\ due = [t \in Clocks |-> 0] /\ active = [t \in Clocks |-> FALSE]
    /\ pending = <<>> /\ stack = <<>> /\ raising = FALSE /\ rr = 0
    /\ wire = [c \in Channels |-> <<>>] /\ ladder = [c \in Channels |-> ""]
    /\ seen = [h \in Handlers |-> <<>>] /\ owed = {} /\ told = [m \in Monitors |-> ""]
    /\ born = [t \in Clocks |-> 0] /\ ended = [t \in Clocks |-> 0]
    /\ passed = [c \in Channels |-> 0]
    /\ count = [run |-> 0, frame |-> 0, taken |-> 0, move |-> 0, raise |-> 0]

-------------------------------------------------------------------------------
(* What the script does, between runs or in a callback: register, run(), raise *)

Scripted == (stack = <<>> \/ InCallback) /\ ~raising

OnMessage(h) ==
    /\ Scripted /\ ~Contains(on_msg, h) /\ on_msg' = Append(on_msg, h)
    /\ UNCHANGED <<now, on_health, timers, said, due, active, pending, stack, raising, rr, wire, ladder,
                   history, count>>

OnHealth(m) ==
    /\ Scripted /\ ~Contains(on_health, m) /\ on_health' = Append(on_health, m)
    /\ said' = [said EXCEPT ![m] = ""] /\ told' = [told EXCEPT ![m] = ""]
    /\ UNCHANGED <<now, on_msg, timers, due, active, pending, stack, raising, rr, wire, ladder, seen, owed,
                   born, ended, passed, count>>

OnTimer(t) ==
    /\ Scripted /\ ~Contains(timers, t) /\ timers' = Append(timers, t)
    /\ due' = [due EXCEPT ![t] = now + Period[t]] /\ active' = [active EXCEPT ![t] = FALSE]
    /\ born' = [born EXCEPT ![t] = now] /\ ended' = [ended EXCEPT ![t] = now]
    /\ UNCHANGED <<now, on_msg, on_health, said, pending, stack, raising, rr, wire, ladder, seen, owed,
                   told, passed, count>>

\* _forget, which the pytest plugin calls after each test: no run() is in progress.
Forget ==
    /\ stack = <<>> /\ registry # <<<<>>, <<>>, <<>>>>
    /\ on_msg' = <<>> /\ on_health' = <<>> /\ timers' = <<>> /\ pending' = <<>>
    /\ passed' = [c \in Channels |-> 0]
    /\ UNCHANGED <<now, said, due, active, stack, raising, rr, wire, ladder, seen, owed, told, born, ended, count>>

\* One pass of the loop begins: `list(self._timers)` and `now` are read.
Pass(a) == [a EXCEPT !.pc = "timers", !.at = now, !.i = 1, !.n = Len(timers), !.call = NoCall]

Run(d) ==
    /\ Scripted /\ Len(stack) < MaxDepth /\ count.run < MaxRuns /\ now + d <= MaxTime
    /\ stack' = Append(stack, Pass([pc |-> "timers", deadline |-> now + d, next_health |-> now, at |-> now,
                                    i |-> 1, n |-> 0, until |-> now, call |-> NoCall]))
    /\ Bump("run")
    /\ UNCHANGED <<now, registry, said, due, active, pending, raising, rr, wire, ladder, history>>

-------------------------------------------------------------------------------
(* Timers *)

\* _past_grid: the first point of a timer's grid after `at`.
PastGrid(d, p, at) == IF d > at THEN d ELSE d + ((at - d) \div p + 1) * p

\* The timers of this pass still to be fired.
Ripe(a) == {i \in a.i .. a.n : ~active[timers[i]] /\ a.at >= due[timers[i]]}

\* _fire: on its grid before the call, so a run() inside it neither fires it nor waits on it.
TimerFires ==
    LET i == Min(Ripe(Top))  t == timers[i] IN
    /\ stack # <<>> /\ Top.pc = "timers" /\ now < Top.deadline /\ Ripe(Top) # {}
    /\ due' = [due EXCEPT ![t] = PastGrid(@, Period[t], now)] /\ active' = [active EXCEPT ![t] = TRUE]
    /\ ended' = [ended EXCEPT ![t] = now]
    /\ stack' = With([Top EXCEPT !.pc = "call", !.i = i + 1, !.call = [k |-> "timers", x |-> t, n |-> 0]])
    /\ UNCHANGED <<now, registry, said, pending, raising, rr, wire, ladder, seen, owed, told, born, passed, count>>

\* The timers are done, or out of time: health is next if it is time for it, then the deadline,
\* then the frames an outer run() took up.
AfterHealth(a) == IF now >= a.deadline THEN Front(stack) ELSE With([a EXCEPT !.pc = "pending", !.call = NoCall])

TimersDone ==
    /\ stack # <<>> /\ Top.pc = "timers" /\ (now >= Top.deadline \/ Ripe(Top) = {})
    /\ stack' = IF on_health # <<>> /\ now >= Top.next_health /\ now < Top.deadline
                THEN With([Top EXCEPT !.pc = "health", !.i = 1, !.n = Len(on_health),
                                      !.next_health = now + HEALTH_POLL])
                ELSE AfterHealth(Top)
    /\ UNCHANGED <<now, registry, said, due, active, pending, raising, rr, wire, ladder, history, count>>

-------------------------------------------------------------------------------
(* Health *)

\* The handlers of this poll with something to be told.
News(a) == {i \in a.i .. a.n : ladder[ChannelOf[on_health[i]]] \notin {"", said[on_health[i]]}}

HealthTells ==
    LET i == Min(News(Top))  m == on_health[i] IN
    /\ stack # <<>> /\ Top.pc = "health" /\ now < Top.deadline /\ News(Top) # {}
    /\ said' = [said EXCEPT ![m] = ladder[ChannelOf[m]]]
    /\ told' = [told EXCEPT ![m] = ladder[ChannelOf[m]]]
    /\ stack' = With([Top EXCEPT !.pc = "call", !.i = i + 1, !.call = [k |-> "health", x |-> m, n |-> 0]])
    /\ UNCHANGED <<now, registry, due, active, pending, raising, rr, wire, ladder, seen, owed, born, ended,
                   passed, count>>

HealthDone ==
    /\ stack # <<>> /\ Top.pc = "health" /\ (now >= Top.deadline \/ News(Top) = {})
    /\ stack' = AfterHealth(Top)
    /\ UNCHANGED <<now, registry, said, due, active, pending, raising, rr, wire, ladder, history, count>>

-------------------------------------------------------------------------------
(* Frames *)

\* _to_read: every channel a message handler names, then a monitor's where its ladder needs it.
Reads == FoldLeft(LAMBDA cs, x : IF Contains(cs, ChannelOf[x]) THEN cs ELSE Append(cs, ChannelOf[x]), <<>>,
                  on_msg \o SelectSeq(on_health, LAMBDA m : ChannelOf[m] \in NeedsReader))

\* The handlers of a frame are called in turn, each passed before it is called.
Calls(e) == [pending EXCEPT ![1].left = e.left \ {Min(e.left)}]

\* _dispatch_pending: the oldest frame's next handler ...
Dispatch ==
    LET e == pending[1]  h == e.handlers[Min(e.left)] IN
    /\ stack # <<>> /\ Top.pc \in {"pending", "deliver"} /\ pending # <<>> /\ e.left # {}
    /\ pending' = Calls(e)
    /\ seen' = [seen EXCEPT ![h] = Append(@, e.n)] /\ owed' = owed \ {<<e.n, h>>}
    /\ stack' = With([Top EXCEPT !.pc = "call", !.call = [k |-> Top.pc, x |-> h, n |-> e.n]])
    /\ UNCHANGED <<now, registry, said, due, active, raising, rr, wire, ladder, told, born, ended, passed, count>>

\* ... or, when it has none left, the next frame.
DispatchPops ==
    /\ stack # <<>> /\ Top.pc \in {"pending", "deliver"} /\ pending # <<>>
    /\ pending[1].left = {} /\ pending' = Tail(pending)
    /\ UNCHANGED <<now, registry, said, due, active, stack, raising, rr, wire, ladder, history, count>>

\* Mutant: a wait is as long as a timer whose callback is running allows.
Waited_active == {due[t] : t \in Range(timers)}

\* The times a wait must not run past.
Waited == {due[t] : t \in {u \in Range(timers) : ~active[u]}}

Wake(a) == Min({a.deadline} \cup Waited \cup (IF on_health = <<>> THEN {} ELSE {a.next_health}))

\* wait_on: until the next timer, health poll or deadline, and no longer than LONGEST_WAIT.
Waiting(a) == [a EXCEPT !.pc = "wait", !.at = now, !.until = Max({now, Min({Wake(a), now + LONGEST_WAIT})})]

DispatchDone ==
    /\ stack # <<>> /\ Top.pc \in {"pending", "deliver"} /\ pending = <<>>
    /\ stack' = IF now >= Top.deadline THEN Front(stack)
                ELSE With(IF Top.pc = "pending" THEN Waiting(Top) ELSE Pass(Top))
    /\ UNCHANGED <<now, registry, said, due, active, pending, raising, rr, wire, ladder, history, count>>

\* What one look finds: the channels read that have a frame, counted from rr.
Found == {k \in 0 .. Len(Reads) - 1 : wire[Reads[((rr + k) % Len(Reads)) + 1]] # <<>>}

\* Frames are looked for while there is time, and once in any case.
Looking(a) == a.pc = "wait" /\ (now < a.until \/ now = a.at)

\* The next look begins behind the channel that was read; a single channel is simply read.
Resume(i) == IF Len(Reads) = 1 THEN rr ELSE i + 1

\* A frame is taken off its channel, for the handlers registered now that match it.
WaitTakes ==
    LET i  == (rr + Min(Found)) % Len(Reads)
        c  == Reads[i + 1]
        id == Head(wire[c])
        n  == count.taken + 1
        matching == {k \in DOMAIN on_msg : ChannelOf[on_msg[k]] = c /\ id \in Wants[on_msg[k]]}
    IN  /\ stack # <<>> /\ Looking(Top) /\ Reads # <<>> /\ Found # {}
        /\ wire' = [wire EXCEPT ![c] = Tail(@)] /\ rr' = Resume(i)
        /\ pending' = Append(pending, [n |-> n, handlers |-> on_msg, left |-> matching])
        /\ stack' = With([Top EXCEPT !.pc = "deliver"])
        /\ owed' = owed \cup {<<n, on_msg[k]>> : k \in matching}
        /\ passed' = [d \in Channels |-> IF d # c /\ Contains(Reads, d) /\ wire[d] # <<>> THEN passed[d] + 1
                                         ELSE 0]
        /\ Bump("taken")
        /\ UNCHANGED <<now, registry, said, due, active, raising, ladder, seen, told, born, ended>>

\* Time is up, or there was nothing to wait on: the loop goes round, or ends.
WaitEnds ==
    /\ stack # <<>> /\ Top.pc = "wait" /\ now >= Top.until /\ ~(Looking(Top) /\ Reads # <<>> /\ Found # {})
    /\ stack' = IF now >= Top.deadline THEN Front(stack) ELSE With(Pass(Top))
    /\ UNCHANGED <<now, registry, said, due, active, pending, raising, rr, wire, ladder, history, count>>

\* The project is stopped or reloaded under the wait: its error is raised (_passing).
WaitRaises ==
    /\ stack # <<>> /\ Top.pc = "wait" /\ count.raise < MaxRaises /\ Bump("raise")
    /\ stack' = Front(stack) /\ raising' = (Len(stack) > 1)
    /\ UNCHANGED <<now, registry, said, due, active, pending, rr, wire, ladder, history>>

-------------------------------------------------------------------------------
(* How a callback ends *)

\* Mutant: the points a long callback ran over are left due.
TimerEnds_once(t) ==
    /\ active' = [active EXCEPT ![t] = FALSE] /\ ended' = [ended EXCEPT ![t] = now] /\ UNCHANGED due

\* _fire's finally: on its grid again, so points a long callback ran over are skipped.
TimerEnds(t) ==
    /\ active' = [active EXCEPT ![t] = FALSE] /\ ended' = [ended EXCEPT ![t] = now]
    /\ due' = [due EXCEPT ![t] = PastGrid(@, Period[t], now)]

CallbackReturns ==
    /\ InCallback /\ ~raising
    /\ stack' = With([Top EXCEPT !.pc = Top.call.k, !.call = NoCall])
    /\ IF Top.call.k = "timers" THEN TimerEnds(Top.call.x) ELSE UNCHANGED <<due, active, ended>>
    /\ UNCHANGED <<now, registry, said, pending, raising, rr, wire, ladder, seen, owed, told, born, passed, count>>

CallbackRaises ==
    /\ InCallback /\ ~raising /\ count.raise < MaxRaises /\ raising' = TRUE /\ Bump("raise")
    /\ UNCHANGED <<now, registry, said, due, active, pending, stack, rr, wire, ladder, history>>

\* The callback that called the run() an exception came out of goes on.
CallbackCatches ==
    /\ InCallback /\ raising /\ raising' = FALSE
    /\ UNCHANGED <<now, registry, said, due, active, pending, stack, rr, wire, ladder, history, count>>

\* Mutant: a frame whose handler raised stays pending.
Abandoned_never(c) == FALSE

\* The frame being dispatched when its handler raised is the oldest, unless a run() inside the
\* handler has finished it.
Abandoned(c) == c.k \in {"pending", "deliver"} /\ pending # <<>> /\ pending[1].n = c.n

\* The exception leaves the callback, and the run() that called it with it.
Unwinds ==
    /\ InCallback /\ raising
    /\ pending' = IF Abandoned(Top.call) THEN Tail(pending) ELSE pending
    /\ owed' = {o \in owed : ~(Abandoned(Top.call) /\ o[1] = Top.call.n)}
    /\ IF Top.call.k = "timers" THEN TimerEnds(Top.call.x) ELSE UNCHANGED <<due, active, ended>>
    /\ stack' = Front(stack) /\ raising' = (Len(stack) > 1)
    /\ UNCHANGED <<now, registry, said, rr, wire, ladder, seen, told, born, passed, count>>

-------------------------------------------------------------------------------
(* Time, the wires and the controllers: external *)

Tick ==
    /\ now < MaxTime /\ now' = now + 1
    /\ UNCHANGED <<loop, wire, ladder, history, count>>

\* A callback, or the script between two runs, takes its time ...
Works == Scripted /\ Tick
\* ... a wait with nothing to read sleeps.
Sleeps == stack # <<>> /\ Top.pc = "wait" /\ now < Top.until /\ (Reads = <<>> \/ Found = {}) /\ Tick

Arrives(c, id) ==
    /\ count.frame < MaxFrames /\ Bump("frame") /\ wire' = [wire EXCEPT ![c] = Append(@, id)]
    /\ UNCHANGED <<now, loop, ladder, history>>

LadderMoves(c, s) ==
    /\ count.move < MaxMoves /\ s # ladder[c] /\ Bump("move") /\ ladder' = [ladder EXCEPT ![c] = s]
    /\ UNCHANGED <<now, loop, wire, history>>

-------------------------------------------------------------------------------
LoopSteps == \/ TimerFires \/ TimersDone \/ HealthTells \/ HealthDone \/ Dispatch \/ DispatchPops
             \/ DispatchDone \/ WaitTakes \/ WaitEnds \/ Unwinds

LoopNext ==
    \/ \E h \in Handlers : OnMessage(h)
    \/ \E m \in Monitors : OnHealth(m)
    \/ \E t \in Clocks : OnTimer(t)
    \/ \E d \in Durations : Run(d)
    \/ LoopSteps \/ CallbackReturns
    \/ WaitRaises \/ CallbackRaises \/ CallbackCatches
    \/ Forget \/ Works \/ Sleeps
    \/ \E c \in Channels : (\E id \in Ids : Arrives(c, id)) \/ (\E s \in States : LadderMoves(c, s))

LoopSpec == LoopInit /\ [][LoopNext]_loopVars

\* The thread runs, a callback returns, and time passes in a wait - only there: a loop that
\* waits for no time at all gains none.
LoopFairness == WF_loopVars(LoopSteps) /\ WF_loopVars(CallbackReturns) /\ WF_loopVars(Sleeps)

FairLoopSpec == LoopSpec /\ LoopFairness

-------------------------------------------------------------------------------
(* Properties: the rules of python/tests/test_events.py, A1 .. A6, for every schedule *)

Runs == [pc : {"timers", "health", "pending", "wait", "deliver", "call"}, deadline : Nat, next_health : Nat,
         at : Nat, i : Nat, n : Nat, until : Nat,
         call : [k : {"none", "timers", "health", "pending", "deliver"},
                 x : Handlers \cup Monitors \cup Clocks \cup {"none"}, n : Nat]]

\* The loop's state stays within its types; in particular no run() but the innermost is
\* anywhere but in a callback.
LoopTypeOK ==
    /\ now \in 0 .. MaxTime /\ raising \in BOOLEAN /\ rr \in Nat
    /\ on_msg \in Seq(Handlers) /\ on_health \in Seq(Monitors) /\ timers \in Seq(Clocks)
    /\ said \in [Monitors -> States] /\ told \in [Monitors -> States]
    /\ due \in [Clocks -> Nat] /\ active \in [Clocks -> BOOLEAN]
    /\ pending \in Seq([n : Nat, handlers : Seq(Handlers), left : SUBSET Nat])
    /\ \A e \in Range(pending) : e.left \subseteq DOMAIN e.handlers
    /\ stack \in Seq(Runs) /\ \A i \in 1 .. Len(stack) - 1 : stack[i].pc = "call"

\* A step that calls a callback of kind k.
Begins(k) == /\ stack # <<>> /\ Len(stack') = Len(stack) /\ Top.pc # "call"
             /\ Top'.pc = "call" /\ Top'.call.k = k

\* A1: no handler is given a frame twice, or a later one before an earlier one, however deep
\* the run() that took it up.
EachOnceInOrder == \A h \in Handlers : \A i \in 2 .. Len(seen[h]) : seen[h][i - 1] < seen[h][i]

\* A1: a frame taken up reaches every handler it matches, unless one of them raised, by the
\* time the script has the thread back.
TakenReachesAll == stack = <<>> => owed = {} /\ pending = <<>>

\* A2: no timer, health handler or frame is taken up by a run() whose deadline has passed.
NothingTakenUpLate ==
    [][ Begins("timers") \/ Begins("health") \/ count'.taken > count.taken => now < Top.deadline ]_loopVars

\* A3: no wait runs past a timer that is due and not running, one registered in a callback of
\* this run() included.
NoDueTimerWaits ==
    stack # <<>> /\ Top.pc = "wait" /\ now < Top.until =>
        \A t \in Range(timers) : active[t] \/ due[t] > now

\* A4: a health handler is told only known states, and never the same one twice running.
HealthIsNews ==
    [][ Begins("health") => LET m == Top'.call.x IN told'[m] \notin {"", told[m]} ]_loopVars

\* A6: a timer stays on the grid of its registration, and its next point lies behind the last
\* beginning and end of its callback: points run over are skipped.
KeepsItsGrid ==
    \A t \in Range(timers) : (due[t] - born[t]) % Period[t] = 0 /\ (active[t] \/ due[t] > ended[t])

\* No channel that is read is passed over more often than there are others.
NoneStarved == \A c \in Channels : Contains(Reads, c) => passed[c] < Len(Reads)

\* A3: a run() returns, once its callbacks do: it never waits again and again for no time.
RunReturns == stack # <<>> ~> stack = <<>>
===============================================================================
