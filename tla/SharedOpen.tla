------------------------------ MODULE SharedOpen ------------------------------
(***************************************************************************)
(* The registry of shared wires: who opens the physical driver of one key, *)
(* who joins it, who waits, and how a generation leaves                    *)
(* (blobly/transport/shared.v: shared_open_events, fail_open,              *)
(* fail_and_close, finish_close, shared_remove_entry, the end of close).   *)
(*                                                                         *)
(* Keys are independent, so there is one.  A generation is a SharedEntry;  *)
(* what happens inside a running one is SharedPark, reduced here to: its   *)
(* reader may meet a fatal error, and so may a joiner's boundary drain.    *)
(***************************************************************************)
EXTENDS Integers, FiniteSets

CONSTANTS Openers,   \* threads that open the wire and close it again
          Specs,     \* canonical specs asked for: two of them conflict
          MaxGens,   \* bound on the generations started
          Faults     \* what goes wrong: "factory", "reconcile", "reader", "joiner"

ASSUME OpenAssumption ==
    /\ IsFiniteSet(Openers) /\ MaxGens \in Nat \ {0}
    /\ Faults \subseteq {"factory", "reconcile", "reader", "joiner"}

Gens == 1 .. MaxGens

VARIABLES
    registry,   \* the generation the key belongs to, 0 for none
    gens,       \* how many generations were started
    entry,      \* per generation: [state, refs, spec, failure, raw_closed, settled, done, driver]
    reader,     \* per generation: where its reader is
    opener      \* per thread: [pc, spec, waited, gen, after]

vars == <<registry, gens, entry, reader, opener>>

NoEntry == [state |-> "none", refs |-> 0, spec |-> "none", failure |-> FALSE, raw_closed |-> FALSE,
            settled |-> FALSE, done |-> FALSE, driver |-> "none"]
NoOpen(at) == [pc |-> at, spec |-> "none", waited |-> 0, gen |-> 0, after |-> "none"]

Init ==
    /\ registry = 0 /\ gens = 0
    /\ entry = [g \in Gens |-> NoEntry]
    /\ reader = [g \in Gens |-> "none"]
    /\ opener = [o \in Openers |-> NoOpen("idle")]

-------------------------------------------------------------------------------
(* shared_open_events *)

Open(o, s) ==
    /\ opener[o].pc = "idle"
    /\ opener' = [opener EXCEPT ![o] = [NoOpen("loop") EXCEPT !.spec = s]]
    /\ UNCHANGED <<registry, gens, entry, reader>>

\* The attempt this caller waited on has left the registry: the key is free, or another's.
WaitedIsGone(o) == opener[o].waited # 0 /\ registry # opener[o].waited

\* Its open failure, if it had one, is this caller's answer; else this caller opens afresh.
LearnOutcome(o) ==
    /\ opener[o].pc = "loop" /\ WaitedIsGone(o)
    /\ opener' = [opener EXCEPT ![o] = IF entry[@.waited].failure
                                       THEN [@ EXCEPT !.pc = "refused"]
                                       ELSE [@ EXCEPT !.waited = 0]]
    /\ UNCHANGED <<registry, gens, entry, reader>>

\* The key is free: reserve it, then run the factory outside the registry lock.
Reserve(o) ==
    /\ opener[o].pc = "loop" /\ ~WaitedIsGone(o) /\ registry = 0 /\ gens < MaxGens
    /\ gens' = gens + 1 /\ registry' = gens + 1
    /\ entry' = [entry EXCEPT ![gens + 1] = [NoEntry EXCEPT !.state = "opening", !.spec = opener[o].spec]]
    /\ opener' = [opener EXCEPT ![o] = [@ EXCEPT !.pc = "making", !.gen = gens + 1]]
    /\ UNCHANGED reader

\* The key is held.  A contradicting spec is refused at once ...
FoundConflict(o) ==
    /\ opener[o].pc = "loop" /\ ~WaitedIsGone(o) /\ registry # 0
    /\ entry[registry].state \in {"opening", "running"} /\ entry[registry].spec # opener[o].spec
    /\ opener' = [opener EXCEPT ![o].pc = "conflict"]
    /\ UNCHANGED <<registry, gens, entry, reader>>

\* ... an attempt is waited for ...
FoundOpening(o) ==
    /\ opener[o].pc = "loop" /\ ~WaitedIsGone(o) /\ registry # 0
    /\ entry[registry].state = "opening" /\ entry[registry].spec = opener[o].spec
    /\ opener' = [opener EXCEPT ![o] = [@ EXCEPT !.pc = "settling", !.waited = registry]]
    /\ UNCHANGED <<registry, gens, entry, reader>>

\* ... a generation on its way out is waited out ...
FoundLeaving(o) ==
    /\ opener[o].pc = "loop" /\ ~WaitedIsGone(o) /\ registry # 0
    /\ entry[registry].state \notin {"opening", "running"}
    /\ opener' = [opener EXCEPT ![o].pc = IF opener[o].waited # 0 THEN "unsettled" ELSE "asleep"]
    /\ UNCHANGED <<registry, gens, entry, reader>>

\* ... a running one is joined.
FoundRunning(o) ==
    /\ opener[o].pc = "loop" /\ ~WaitedIsGone(o) /\ registry # 0
    /\ entry[registry].state = "running" /\ entry[registry].spec = opener[o].spec
    /\ entry' = [entry EXCEPT ![registry].refs = @ + 1]
    /\ opener' = [opener EXCEPT ![o] = [@ EXCEPT !.pc = "admit", !.gen = registry]]
    /\ UNCHANGED <<registry, gens, reader>>

\* Woken by the opener closing `settled` of the attempt waited on.  (A caller at "unsettled"
\* waits on the channel this turn of the loop made for itself: nobody else has it.)
Settled(o) ==
    /\ opener[o].pc = "settling" /\ entry[opener[o].waited].settled
    /\ opener' = [opener EXCEPT ![o].pc = "loop"]
    /\ UNCHANGED <<registry, gens, entry, reader>>

SleepEnds(o) ==
    /\ opener[o].pc = "asleep" /\ opener' = [opener EXCEPT ![o].pc = "loop"]
    /\ UNCHANGED <<registry, gens, entry, reader>>

\* make(spec): the driver is open ...
Made(o) ==
    /\ opener[o].pc = "making"
    /\ entry' = [entry EXCEPT ![opener[o].gen].driver = "open"]
    /\ opener' = [opener EXCEPT ![o].pc = "reconciling"]
    /\ UNCHANGED <<registry, gens, reader>>

\* fail_open: the failure is recorded, then the generation is finished and its waiters told.
FailOpen(o) ==
    /\ entry' = [entry EXCEPT ![opener[o].gen] = [@ EXCEPT !.state = "failed", !.failure = TRUE]]
    /\ opener' = [opener EXCEPT ![o] = [@ EXCEPT !.pc = "finish", !.after = "settle"]]
    /\ UNCHANGED <<registry, gens, reader>>

\* ... or make refused.
MakeFails(o) == "factory" \in Faults /\ opener[o].pc = "making" /\ FailOpen(o)

\* The controller's policy is part of the attempt: only then does the entry run.
Reconciled(o) ==
    /\ opener[o].pc = "reconciling"
    /\ entry' = [entry EXCEPT ![opener[o].gen] = [@ EXCEPT !.state = "running", !.refs = 1]]
    /\ reader' = [reader EXCEPT ![opener[o].gen] = "reading"]
    /\ opener' = [opener EXCEPT ![o].pc = "settle"]
    /\ UNCHANGED <<registry, gens>>

Reconcile(o) ==
    \/ Reconciled(o)
    \/ "reconcile" \in Faults /\ opener[o].pc = "reconciling" /\ FailOpen(o)

\* Every path out of the attempt closes `settled`; the opener has a handle or its error.
Settle(o) ==
    LET g == opener[o].gen IN
    /\ opener[o].pc = "settle"
    /\ entry' = [entry EXCEPT ![g].settled = TRUE]
    /\ opener' = [opener EXCEPT ![o] = [@ EXCEPT !.pc = IF entry[g].failure THEN "refused" ELSE "open"]]
    /\ UNCHANGED <<registry, gens, reader>>

\* admit: a running generation takes the joiner ...
Admitted(o) ==
    /\ opener[o].pc = "admit" /\ entry[opener[o].gen].state = "running"
    /\ opener' = [opener EXCEPT ![o].pc = "open"]
    /\ UNCHANGED <<registry, gens, entry, reader>>

\* ... one that has failed is not admitted to, and a controller that will not be set
\* listen-only closes the handle again ...
AdmitRefused(o) ==
    /\ opener[o].pc = "admit"
    /\ entry[opener[o].gen].state = "running" => "reconcile" \in Faults
    /\ opener' = [opener EXCEPT ![o] =
            [@ EXCEPT !.pc = "release",
                      !.after = IF entry[opener[o].gen].state = "running" THEN "idle" ELSE "loop"]]
    /\ UNCHANGED <<registry, gens, entry, reader>>

\* ... and the joiner's own drain may find the driver dead.
AdmitFatal(o) ==
    /\ "joiner" \in Faults
    /\ opener[o].pc = "admit" /\ entry[opener[o].gen].state = "running"
    /\ entry' = [entry EXCEPT ![opener[o].gen].state = "failed"]
    /\ opener' = [opener EXCEPT ![o] = [@ EXCEPT !.pc = "finish", !.after = "await"]]
    /\ UNCHANGED <<registry, gens, reader>>

-------------------------------------------------------------------------------
(* finish_close: release the driver once, then leave the registry *)

\* Mutant: only the reader closes the driver; anybody else goes on to the registry.
FinishClaims_skip(o) ==
    /\ opener[o].pc = "finish"
    /\ opener' = [opener EXCEPT ![o].pc = "removing"]
    /\ UNCHANGED <<registry, gens, entry, reader>>

\* raw_closed is claimed; the claimant closes the driver and goes on when it has, anybody
\* else goes on at once.
Claimant(g) == ~entry[g].raw_closed /\ entry[g].driver = "open"
ClaimRaw(g) == [entry EXCEPT ![g] = [@ EXCEPT !.raw_closed = TRUE,
                                              !.driver = IF Claimant(g) THEN "closing"
                                                           ELSE entry[g].driver]]

\* Mutant: the key is deleted whoever owns it by now.
shared_remove_entry_any(g) == 0

\* Remove only this generation: a replacement may own the key by now.
shared_remove_entry(g) == IF registry = g THEN 0 ELSE registry

FinishClaims(o) ==
    LET g == opener[o].gen IN
    /\ opener[o].pc = "finish" /\ entry' = ClaimRaw(g)
    /\ opener' = [opener EXCEPT ![o].pc = IF Claimant(g) THEN "closing_raw" ELSE "removing"]
    /\ UNCHANGED <<registry, gens, reader>>

FinishCloses(o) ==
    /\ opener[o].pc = "closing_raw" /\ entry' = [entry EXCEPT ![opener[o].gen].driver = "closed"]
    /\ opener' = [opener EXCEPT ![o].pc = "removing"]
    /\ UNCHANGED <<registry, gens, reader>>

FinishRemoves(o) ==
    LET g == opener[o].gen IN
    /\ opener[o].pc = "removing" /\ entry' = [entry EXCEPT ![g].state = "closed"]
    /\ registry' = shared_remove_entry(g)
    /\ opener' = [opener EXCEPT ![o] = IF @.after = "close" THEN NoOpen("idle")
                                       ELSE [@ EXCEPT !.pc = opener[o].after, !.after = "none"]]
    /\ UNCHANGED <<gens, reader>>

\* A joiner whose drain was fatal waits for the reader to be gone, then closes its handle.
Await(o) ==
    LET g == opener[o].gen IN
    /\ opener[o].pc = "await" /\ entry[g].done
    /\ entry' = [entry EXCEPT ![g].done = FALSE]
    /\ opener' = [opener EXCEPT ![o].pc = "release", ![o].after = "loop"]
    /\ UNCHANGED <<registry, gens, reader>>

\* SharedHandle.close: the last reference of a running wire ends it.
Close(o) ==
    /\ opener[o].pc = "open"
    /\ opener' = [opener EXCEPT ![o].pc = "release", ![o].after = "idle"]
    /\ UNCHANGED <<registry, gens, entry, reader>>

\* Mutant: any close ends the wire.
Release_unshared(o) ==
    LET g == opener[o].gen IN
    /\ opener[o].pc = "release" /\ entry[g].state = "running"
    /\ entry' = [entry EXCEPT ![g].refs = @ - 1, ![g].state = "closing"]
    /\ opener' = [opener EXCEPT ![o] = [@ EXCEPT !.pc = "await_reader", !.after = "close"]]
    /\ UNCHANGED <<registry, gens, reader>>

ReleaseLast(o) ==
    /\ opener[o].pc = "release"
    /\ entry[opener[o].gen].refs = 1 /\ entry[opener[o].gen].state = "running"
    /\ entry' = [entry EXCEPT ![opener[o].gen] = [@ EXCEPT !.refs = entry[opener[o].gen].refs - 1,
                                                            !.state = "closing"]]
    /\ opener' = [opener EXCEPT ![o] = [@ EXCEPT !.pc = "await_reader", !.after = "close"]]
    /\ UNCHANGED <<registry, gens, reader>>

\* A joiner whose generation was found dead closes its handle and tries again.
ReleaseOther(o) ==
    /\ opener[o].pc = "release"
    /\ ~(entry[opener[o].gen].refs = 1 /\ entry[opener[o].gen].state = "running")
    /\ entry' = [entry EXCEPT ![opener[o].gen].refs = @ - 1]
    /\ opener' = [opener EXCEPT ![o] = IF @.after = "loop"
                                       THEN [@ EXCEPT !.pc = "loop", !.after = "none", !.gen = 0]
                                       ELSE NoOpen("idle")]
    /\ UNCHANGED <<registry, gens, reader>>

Release(o) == ReleaseLast(o) \/ ReleaseOther(o)

AwaitReader(o) ==
    LET g == opener[o].gen IN
    /\ opener[o].pc = "await_reader" /\ entry[g].done
    /\ entry' = [entry EXCEPT ![g].done = FALSE]
    /\ opener' = [opener EXCEPT ![o].pc = "finish"]
    /\ UNCHANGED <<registry, gens, reader>>

\* The caller has its error and gives up, or tries again later.
Answered(o) ==
    /\ opener[o].pc \in {"refused", "conflict"} /\ opener' = [opener EXCEPT ![o] = NoOpen("idle")]
    /\ UNCHANGED <<registry, gens, entry, reader>>

-------------------------------------------------------------------------------
(* The reader of a generation *)

\* A fatal read on a running wire, in the reader's own turn ...
ReaderFails(g) ==
    /\ "reader" \in Faults /\ reader[g] = "reading" /\ entry[g].state = "running"
    /\ entry' = [entry EXCEPT ![g].state = "failed"]
    /\ reader' = [reader EXCEPT ![g] = "finish"]
    /\ UNCHANGED <<registry, gens, opener>>

\* ... or in a parked drain, which gives drain_mu up before it takes the failure: a joiner
\* may meet the same error in between.
ReaderDrainFails(g) ==
    /\ "reader" \in Faults /\ reader[g] = "reading" /\ entry[g].state = "running"
    /\ reader' = [reader EXCEPT ![g] = "failing"]
    /\ UNCHANGED <<registry, gens, entry, opener>>

ReaderTakesFailure(g) ==
    /\ reader[g] = "failing"
    /\ entry' = [entry EXCEPT ![g].state = IF @ = "running" THEN "failed" ELSE @]
    /\ reader' = [reader EXCEPT ![g] = "finish"]
    /\ UNCHANGED <<registry, gens, opener>>

ReaderClaims(g) ==
    /\ reader[g] = "finish" /\ entry' = ClaimRaw(g)
    /\ reader' = [reader EXCEPT ![g] = IF Claimant(g) THEN "closing_raw" ELSE "removing"]
    /\ UNCHANGED <<registry, gens, opener>>

ReaderCloses(g) ==
    /\ reader[g] = "closing_raw" /\ entry' = [entry EXCEPT ![g].driver = "closed"]
    /\ reader' = [reader EXCEPT ![g] = "removing"]
    /\ UNCHANGED <<registry, gens, opener>>

ReaderRemoves(g) ==
    /\ reader[g] = "removing"
    /\ entry' = [entry EXCEPT ![g] = [@ EXCEPT !.state = "closed", !.done = TRUE]]
    /\ registry' = shared_remove_entry(g)
    /\ reader' = [reader EXCEPT ![g] = "exited"]
    /\ UNCHANGED <<gens, opener>>

\* Mutant: the reader polls on.
ReaderExits_never(g) ==
    /\ reader[g] = "reading" /\ entry[g].state # "running" /\ UNCHANGED vars

\* A reader that finds the wire no longer running leaves, and says so.
ReaderExits(g) ==
    /\ reader[g] = "reading" /\ entry[g].state # "running"
    /\ entry' = [entry EXCEPT ![g].done = TRUE]
    /\ reader' = [reader EXCEPT ![g] = "exited"]
    /\ UNCHANGED <<registry, gens, opener>>

-------------------------------------------------------------------------------
Opens(o) ==
    \/ LearnOutcome(o) \/ Reserve(o) \/ Settled(o) \/ SleepEnds(o)
    \/ FoundConflict(o) \/ FoundOpening(o) \/ FoundLeaving(o) \/ FoundRunning(o)
    \/ Made(o) \/ MakeFails(o) \/ Reconcile(o) \/ Settle(o)
    \/ Admitted(o) \/ AdmitRefused(o) \/ AdmitFatal(o)
    \/ FinishClaims(o) \/ FinishCloses(o) \/ FinishRemoves(o)
    \/ Await(o) \/ Release(o) \/ AwaitReader(o) \/ Answered(o)

ReaderStep(g) == \/ ReaderTakesFailure(g) \/ ReaderClaims(g) \/ ReaderCloses(g) \/ ReaderRemoves(g)
                 \/ ReaderExits(g)

\* The bound is reached: a caller that would need another generation stands still.
Exhausted == gens = MaxGens /\ UNCHANGED vars

Next ==
    \/ \E o \in Openers : Opens(o) \/ Close(o) \/ \E s \in Specs : Open(o, s)
    \/ \E g \in Gens : ReaderStep(g) \/ ReaderFails(g) \/ ReaderDrainFails(g)
    \/ Exhausted

Spec == Init /\ [][Next]_vars

\* Every thread that has begun keeps going; nobody has to open, close or fail.
Fairness ==
    /\ \A o \in Openers : WF_vars(Opens(o))
    /\ \A g \in Gens : WF_vars(ReaderStep(g))

FairSpec == Spec /\ Fairness

-------------------------------------------------------------------------------
(* Properties *)

Pcs == {"idle", "loop", "settling", "unsettled", "asleep", "making", "reconciling", "settle", "admit",
        "open", "finish", "closing_raw", "removing", "await", "release", "await_reader", "refused",
        "conflict"}

Entries(Count) ==
    [state : {"none", "opening", "running", "closing", "failed", "closed"},
     refs : Count, spec : Specs \cup {"none"}, failure : BOOLEAN,
     raw_closed : BOOLEAN, settled : BOOLEAN, done : BOOLEAN,
     driver : {"none", "open", "closing", "closed"}]
Threads == [pc : Pcs, spec : Specs \cup {"none"}, waited : 0 .. MaxGens, gen : 0 .. MaxGens,
            after : {"none", "settle", "await", "loop", "idle", "close"}]
ReaderPcs == {"none", "reading", "failing", "finish", "closing_raw", "removing", "exited"}

\* The registry, its generations and the threads that open it stay within their types; no
\* generation is referenced by a negative number of handles.
TypeOK ==
    /\ registry \in 0 .. gens /\ gens \in 0 .. MaxGens
    /\ entry \in [Gens -> Entries(Nat)] /\ reader \in [Gens -> ReaderPcs]
    /\ opener \in [Openers -> Threads]

\* Contract 7 of docs/one_reader_per_wire.md: two physical opens of one wire never overlap -
\* a driver is released before its generation's key can be opened again.
NoPhysicalOverlap == Cardinality({g \in Gens : entry[g].driver \in {"open", "closing"}}) <= 1

\* What holds of contract 7 whatever fails: a driver that nobody has claimed to close owns the
\* key, so that no two drivers of one wire are in use at once - two finishers, a reader and a
\* joiner, one of which removes the key under the other's driver.close(), included.
InUseOwnsTheKey == \A g \in Gens : entry[g].driver = "open" => registry = g

\* A running generation owns the key: nobody's late clean-up detaches a replacement.
RunningIsRegistered == \A g \in Gens : entry[g].state \in {"opening", "running"} => registry = g

\* A handle is only ever issued on a generation whose driver was opened, and for as long as
\* it is out another handle's close does not end that generation under it.
HandlesHaveDrivers ==
    \A o \in Openers : opener[o].pc = "open" =>
        /\ entry[opener[o].gen].driver # "none"
        /\ entry[opener[o].gen].state # "closing"

\* Callers that waited for an attempt share its outcome: they never start an attempt of their
\* own while the one they waited for has failed and not been answered.
WaitersShareTheRefusal ==
    [][\A o \in Openers : opener[o].pc = "loop" /\ opener'[o].pc = "making" =>
            opener[o].waited = 0 \/ ~entry[opener[o].waited].failure]_vars

\* A generation is joined only once its attempt is over: none of its handles is left behind
\* by a reconcile that fails afterwards.
FailedOpensHaveNoHandles ==
    \A g \in Gens : entry[g].failure => entry[g].refs = 0

\* Nobody waits for an outcome that cannot come: every open is answered - a handle, a
\* refusal, a conflict.  (A caller at the bound on generations is not counted.)
OpenReturns ==
    \A o \in Openers : opener[o].pc = "loop" ~>
        opener[o].pc \in {"open", "refused", "conflict"} \/ gens = MaxGens

\* A close ends, and so does the open of somebody waiting for the outcome of an attempt
\* that fails.
CloseReturns == \A o \in Openers : opener[o].pc = "release" /\ opener[o].after = "idle"
                                     ~> opener[o].pc = "idle"
RefusalReturns == \A o \in Openers : opener[o].pc = "settling" /\ entry[opener[o].waited].failure
                                     ~> opener[o].pc = "refused"
===============================================================================
