------------------------------ MODULE Background ------------------------------
(***************************************************************************)
(* What goes on in the background of a run, and what is left of it: the    *)
(* cyclic senders of cyclic.py, the recordings and replays of replay.py,   *)
(* the faults of faults.py, and the tests of a suite (pytest_plugin.py)    *)
(* that share one run.                                                     *)
(*                                                                         *)
(* Every operation of the script here is one hold of _lib.state_lock, but  *)
(* for a replay's controls, which are one library call and take no lock,   *)
(* and a start, whose two looks at what an earlier run left are two steps  *)
(* of one hold.  The engine's threads go on meanwhile, and one inside a    *)
(* call (a send, a receive, a write) may outlive the bound within which a  *)
(* stop waits for it.                                                      *)
(***************************************************************************)
EXTENDS Integers, Sequences, FiniteSets

CONSTANTS
    Projects,       \* the Project objects of the script
    Suite,          \* the project of the test suite
    Nobody,         \* no project
    Names,          \* message names a fault is armed on
    SharedNames,    \* those that two messages of the channel have
    Durations,      \* what a fault is asked to last, in half milliseconds
    MaxRuns, MaxTests, MaxStarted, MaxFrames    \* bounds of the search

ASSUME BackgroundAssumption ==
    /\ Suite \in Projects /\ Nobody \notin Projects /\ SharedNames \subseteq Names
    /\ Durations \subseteq Nat \ {0} /\ {MaxRuns, MaxTests, MaxStarted, MaxFrames} \subseteq Nat

VARIABLES
    run,        \* whose run is on (Nobody between runs), and its number
    starting,   \* the project inside start, holding the lock, and whether it read its senders
    sender,     \* every CyclicSender, by number, with its loop in the engine
    rec,        \* every Recording, with its readers and its writer in the engine
    replay,     \* every Replay, with its worker in the engine
    fault,      \* per message name, the fault armed
    handlers,   \* the tests whose handlers and timers are registered
    heard,      \* the tests whose frames the channel's handle holds unread; open or not
    test        \* the test that runs, or ran last

vars == <<run, starting, sender, rec, replay, fault, handlers, heard, test>>

None    == -1                                     \* Python's None
NoFault == [ms |-> None, test |-> 0]
Frames  == [open |-> FALSE, of |-> {}]
Still   == [by |-> Nobody, read |-> FALSE]        \* no start is under way

Init ==
    /\ run = [project |-> Nobody, number |-> 0] /\ starting = Still
    /\ sender = <<>> /\ rec = <<>> /\ replay = <<>>
    /\ fault = [m \in Names |-> NoFault]
    /\ handlers = {} /\ heard = Frames
    /\ test = [on |-> FALSE, number |-> 0]

\* The script acts inside a test, once it has the lock.
Acting == test.on /\ starting = Still
Started(p) == run.project = p
Room == Len(sender) + Len(rec) + Len(replay) < MaxStarted

-------------------------------------------------------------------------------
(* Cyclic senders *)

\* cyclic._start_raw, _start_message: a loop of the run's, held in the project's _senders.
SendCyclic(p) ==
    /\ Acting /\ Started(p) /\ Room
    /\ sender' = Append(sender,
            [project |-> p, run |-> run.number, test |-> test.number, known |-> TRUE, loop |-> "idle",
             asked |-> FALSE, sent |-> 0, seen |-> 0, final |-> None, skipped |-> FALSE])
    /\ UNCHANGED <<run, starting, rec, replay, fault, handlers, heard, test>>

\* Project._senders: every sender of the project that has no final status yet.
Senders(p) == {s \in DOMAIN sender : sender[s].project = p /\ sender[s].final = None}

\* CyclicSender._ended: its final status, its handle let go.
Ended(x, count) == [x EXCEPT !.final = count, !.known = FALSE]

\* CyclicSender.stop: the loop inside a send past the bound is only asked.
Stopped(x) ==
    IF x.final # None THEN x
    ELSE IF ~x.known THEN Ended(x, x.seen)
    ELSE IF x.loop = "sending" THEN [x EXCEPT !.asked = TRUE]
    ELSE Ended([x EXCEPT !.asked = TRUE, !.loop = "out", !.seen = x.sent], x.sent)

StopSender(s) ==
    /\ Acting
    /\ sender' = [sender EXCEPT ![s] = Stopped(@)]
    /\ UNCHANGED <<run, starting, rec, replay, fault, handlers, heard, test>>

\* CyclicSender._read.
Seen(x) == IF x.known THEN [x EXCEPT !.seen = x.sent] ELSE Ended(x, x.seen)

\* CyclicSender.status, period_ms: what the engine says, or the last of it once a start let it go.
Status(s) ==
    /\ Acting /\ sender[s].final = None
    /\ sender' = [sender EXCEPT ![s] = Seen(@)]
    /\ UNCHANGED <<run, starting, rec, replay, fault, handlers, heard, test>>

\* What the channel's own handle hears, if it is open: a frame of a sender or a replay.
Hears == heard' = IF heard.open THEN [heard EXCEPT !.of = @ \cup {test.number}] ELSE heard

\* The sender's loop: into a send, and out of it.
LoopSends(s) ==
    /\ sender[s].loop = "idle" /\ sender[s].sent < MaxFrames
    /\ sender' = [sender EXCEPT ![s].loop = "sending"]
    /\ UNCHANGED <<run, starting, rec, replay, fault, handlers, heard, test>>

LoopSent(s) ==
    /\ sender[s].loop = "sending"
    /\ sender' = [sender EXCEPT ![s].sent = @ + 1, ![s].loop = IF sender[s].asked THEN "out" ELSE "idle"]
    /\ Hears
    /\ UNCHANGED <<run, starting, rec, replay, fault, handlers, test>>

-------------------------------------------------------------------------------
(* Recordings *)

\* Replays.record: started and held in one hold.
Record(p) ==
    /\ Acting /\ Started(p) /\ Room
    /\ rec' = Append(rec,
            [project |-> p, run |-> run.number, held |-> TRUE, h |-> TRUE, last |-> None,
             reader |-> "on", writer |-> "on", asked |-> FALSE, frames |-> 0, failed |-> FALSE])
    /\ UNCHANGED <<run, starting, sender, replay, fault, handlers, heard, test>>

\* A reader into a receive and out of it, which may have failed, and the recording keeps that; asked,
\* or its wire closed, it ends.
ReaderBegins(r) ==
    /\ rec[r].reader = "on"
    /\ rec' = [rec EXCEPT ![r].reader = "busy"]
    /\ UNCHANGED <<run, starting, sender, replay, fault, handlers, heard, test>>

ReaderRead(r) ==
    /\ rec[r].reader = "busy"
    /\ \E failed \in BOOLEAN, reader \in {"on", "out"} :
        /\ reader = "out" => failed \/ rec[r].asked
        /\ rec' = [rec EXCEPT ![r].reader = reader, ![r].failed = @ \/ failed]
    /\ UNCHANGED <<run, starting, sender, replay, fault, handlers, heard, test>>

\* The writer: a frame written, or the write failed, which the recording keeps; asked, it writes
\* what is queued and ends.
WriterBegins(r) ==
    /\ rec[r].writer = "on" /\ rec[r].frames < MaxFrames
    /\ rec' = [rec EXCEPT ![r].writer = "busy"]
    /\ UNCHANGED <<run, starting, sender, replay, fault, handlers, heard, test>>

WriterWrote(r) ==
    /\ rec[r].writer = "busy"
    /\ \E failed \in BOOLEAN, writer \in {"on"} \cup (IF rec[r].asked THEN {"out"} ELSE {}) :
        rec' = [rec EXCEPT ![r].frames = IF failed THEN @ ELSE @ + 1, ![r].failed = @ \/ failed, ![r].writer = writer]
    /\ UNCHANGED <<run, starting, sender, replay, fault, handlers, heard, test>>

\* Recorder.stop: its readers and its writer end, but for one inside a call past the bound, which is
\* an error the recording keeps.
EndedRecorder(x) ==
    LET out(thread) == IF thread = "busy" THEN "busy" ELSE "out"
    IN  [x EXCEPT !.asked = TRUE, !.reader = out(@), !.writer = out(@),
                  !.failed = @ \/ "busy" \in {x.reader, x.writer}]

\* Mutant: the handle is let go of also when the library refused the stop.
StoppedRecordingLetsGo(x) ==
    IF ~x.h THEN x ELSE [EndedRecorder(x) EXCEPT !.last = x.frames, !.held = FALSE, !.h = FALSE]

\* Recording.stop: the counts as they stand; the handle is kept when the library refuses, for the
\* counts of a writer that outlived the bound.
StoppedRecording(x) ==
    IF ~x.h THEN x ELSE [EndedRecorder(x) EXCEPT !.last = x.frames, !.held = FALSE, !.h = EndedRecorder(x).failed]

StopRecording(r) ==
    /\ Acting
    /\ rec' = [rec EXCEPT ![r] = StoppedRecording(@)]
    /\ UNCHANGED <<run, starting, sender, replay, fault, handlers, heard, test>>

\* Recording.counts.
Counts(x) == IF x.h THEN x.frames ELSE x.last

-------------------------------------------------------------------------------
(* Replays *)

\* Replay.__init__: a player of the run's, and its worker.
StartReplay(p, paused) ==
    /\ Acting /\ Started(p) /\ Room
    /\ replay' = Append(replay,
            [run |-> run.number, is |-> IF paused THEN "paused" ELSE "playing", cmd |-> "none",
             worker |-> "on", asked |-> FALSE])
    /\ UNCHANGED <<run, starting, sender, rec, fault, handlers, heard, test>>

\* Replay.pause, resume, seek (a finished one is left paused, resumed it plays again): refused once
\* it is stopped, whichever thread stopped it.  Of a worker inside a send it is an error in the
\* end, and applied when the worker next can.
Control(r, is) ==
    /\ test.on /\ ~replay[r].asked
    /\ replay' = [replay EXCEPT ![r] = IF @.worker = "busy" THEN [@ EXCEPT !.cmd = is]
                                                           ELSE [@ EXCEPT !.is = is, !.cmd = "none"]]
    /\ UNCHANGED <<run, starting, sender, rec, fault, handlers, heard, test>>

\* The worker, at the top of its loop: a control that is waiting, or the player runs out.
PlayerTurns(r) ==
    /\ replay[r].worker = "on" /\ ~replay[r].asked
    /\ \/ /\ replay[r].cmd # "none"
          /\ replay' = [replay EXCEPT ![r].is = replay[r].cmd, ![r].cmd = "none"]
       \/ /\ replay[r].is = "playing"
          /\ replay' = [replay EXCEPT ![r].is = "finished"]
    /\ UNCHANGED <<run, starting, sender, rec, fault, handlers, heard, test>>

\* The worker: into a send, and out of it; stopped meanwhile, it sends no more and ends.
PlayerSends(r) ==
    /\ replay[r].worker = "on" /\ replay[r].is = "playing" /\ ~replay[r].asked
    /\ replay' = [replay EXCEPT ![r].worker = "busy"]
    /\ UNCHANGED <<run, starting, sender, rec, fault, handlers, heard, test>>

PlayerSent(r) ==
    /\ replay[r].worker = "busy"
    /\ replay' = [replay EXCEPT ![r].worker = IF replay[r].asked THEN "out" ELSE "on"]
    /\ Hears
    /\ UNCHANGED <<run, starting, sender, rec, fault, handlers, test>>

\* Session.stop: the worker ends, but for one inside a send past the bound.
EndedSession(x) == [x EXCEPT !.asked = TRUE, !.worker = IF @ = "busy" THEN "busy" ELSE "out"]

\* Replay.stop.
StopReplay(r) ==
    /\ test.on
    /\ replay' = [replay EXCEPT ![r] = EndedSession(@)]
    /\ UNCHANGED <<run, starting, sender, rec, fault, handlers, heard, test>>

-------------------------------------------------------------------------------
(* Faults *)

\* faults._duration: whole milliseconds, rounded up; 0, until cleared, for None.
Duration(half_ms) == IF half_ms = None THEN 0 ELSE (half_ms + 1) \div 2

\* Faults._arm: by a Message, whose name no other message may share, or by a name.
Arm(m, asked, by_message) ==
    /\ Acting /\ run.project # Nobody
    /\ by_message => m \notin SharedNames
    /\ fault' = [fault EXCEPT ![m] = [ms |-> Duration(asked), test |-> test.number]]
    /\ UNCHANGED <<run, starting, sender, rec, replay, handlers, heard, test>>

\* clear_fault; or the time of one is over.
Lift(m) ==
    /\ Acting \/ fault[m].ms > 0
    /\ fault[m] # NoFault
    /\ fault' = [fault EXCEPT ![m] = NoFault]
    /\ UNCHANGED <<run, starting, sender, rec, replay, handlers, heard, test>>

Cleared == [m \in Names |-> NoFault]

-------------------------------------------------------------------------------
(* The run, and the tests that share it *)

\* Mutant: replays and recordings are not asked.
ReleasedOfSenders == \A s \in DOMAIN sender : sender[s].loop = "out"

\* released: no loop, worker or reader of a stopped run is still inside a call; a recording's writer
\* is not asked.
Released ==
    /\ \A s \in DOMAIN sender : sender[s].loop = "out"
    /\ \A r \in DOMAIN rec : rec[r].reader = "out"
    /\ \A r \in DOMAIN replay : replay[r].worker = "out"

\* Who starts: the script in a test, or the suite's fixture before one.
Starting(p) ==
    /\ starting = Still /\ run.project = Nobody /\ run.number < MaxRuns
    /\ test.on \/ (p = Suite /\ test.number < MaxTests)

\* Mutant: the senders are left for the library to let go.
StartLooksAway(p) ==
    /\ Starting(p)
    /\ starting' = [by |-> p, read |-> Released]
    /\ UNCHANGED <<run, sender, rec, replay, fault, handlers, heard, test>>

\* Project.start: with everything released, the senders an earlier stop of this project left say
\* their last ...
StartLooks(p) ==
    /\ Starting(p)
    /\ starting' = [by |-> p, read |-> Released]
    /\ sender' = [s \in DOMAIN sender |-> IF Released /\ s \in Senders(p) THEN Stopped(sender[s]) ELSE sender[s]]
    /\ UNCHANGED <<run, rec, replay, fault, handlers, heard, test>>

\* cyclic_retire: the library lets a handle of an earlier run go, read or not.
Retired(x) ==
    [x EXCEPT !.known = FALSE,
              !.skipped = @ \/ (x.final = None /\ ~(starting.read /\ x.project = starting.by))]

\* ... and bb_start looks for itself: refused until released, it clears the faults, and brings the
\* run up or fails; an earlier run's handles go only with a run that is up.
StartRuns ==
    /\ starting # Still
    /\ starting' = Still
    /\ \/ ~Released /\ UNCHANGED <<run, sender, fault>>
       \/ Released /\ fault' = Cleared /\ UNCHANGED <<run, sender>>
       \/ /\ Released /\ fault' = Cleared
          /\ run' = [project |-> starting.by, number |-> run.number + 1]
          /\ sender' = [s \in DOMAIN sender |-> Retired(sender[s])]
    /\ UNCHANGED <<rec, replay, handlers, heard, test>>

\* Project.stop: the channels closed and the recordings it holds stopped; then bb_stop, which ends
\* every replay and recording of the library and the run's loops; then the status of each sender
\* kept.
Stop(p) ==
    /\ Acting /\ Started(p)
    /\ heard' = Frames
    /\ rec' = [r \in DOMAIN rec |->
                EndedRecorder(IF rec[r].project = p /\ rec[r].held THEN StoppedRecording(rec[r]) ELSE rec[r])]
    /\ run' = [run EXCEPT !.project = Nobody]
    /\ replay' = [r \in DOMAIN replay |-> EndedSession(replay[r])]
    /\ sender' = [s \in DOMAIN sender |-> IF s \in Senders(p) THEN Stopped(sender[s]) ELSE sender[s]]
    /\ UNCHANGED <<starting, fault, handlers, test>>

\* Project.on_message, after: a handler or a timer of the test.
Register ==
    /\ Acting
    /\ handlers' = handlers \cup {test.number}
    /\ UNCHANGED <<run, starting, sender, rec, replay, fault, heard, test>>

\* pytest_plugin._reopen: closed, opened and read once.
Reopened == [open |-> TRUE, of |-> {}]

\* pytest_plugin.project, before the test, once the project is started: an earlier test may have
\* stopped it.
TestBegins ==
    /\ ~test.on /\ Started(Suite) /\ test.number < MaxTests
    /\ heard' = Reopened
    /\ test' = [on |-> TRUE, number |-> test.number + 1]
    /\ UNCHANGED <<run, starting, sender, rec, replay, fault, handlers>>

\* Mutant: the suite's teardown leaves the senders a test began.
TestEndsOnly ==
    /\ Acting
    /\ test' = [test EXCEPT !.on = FALSE]
    /\ handlers' = {}
    /\ fault' = IF Started(Suite) THEN Cleared ELSE fault
    /\ UNCHANGED <<run, starting, sender, rec, replay, heard>>

\* ... and after it: EventLoop._forget, Project._stop_senders, clear_faults.
TestEnds ==
    /\ Acting
    /\ test' = [test EXCEPT !.on = FALSE]
    /\ handlers' = {}
    /\ IF Started(Suite)
       THEN /\ sender' = [s \in DOMAIN sender |-> IF s \in Senders(Suite) THEN Stopped(sender[s]) ELSE sender[s]]
            /\ fault' = Cleared
       ELSE UNCHANGED <<sender, fault>>
    /\ UNCHANGED <<run, starting, rec, replay, heard>>

Next ==
    \/ StartRuns \/ TestBegins \/ TestEnds \/ Register
    \/ \E p \in Projects :
        \/ StartLooks(p) \/ Stop(p) \/ SendCyclic(p) \/ Record(p)
        \/ \E paused \in BOOLEAN : StartReplay(p, paused)
    \/ \E s \in DOMAIN sender : StopSender(s) \/ Status(s) \/ LoopSends(s) \/ LoopSent(s)
    \/ \E r \in DOMAIN rec :
        \/ StopRecording(r) \/ ReaderBegins(r) \/ ReaderRead(r) \/ WriterBegins(r) \/ WriterWrote(r)
    \/ \E r \in DOMAIN replay :
        \/ PlayerTurns(r) \/ PlayerSends(r) \/ PlayerSent(r) \/ StopReplay(r)
        \/ \E is \in {"playing", "paused"} : Control(r, is)
    \/ \E m \in Names : Lift(m) \/ \E asked \in Durations \cup {None}, by_message \in BOOLEAN : Arm(m, asked, by_message)

Spec == Init /\ [][Next]_vars

-------------------------------------------------------------------------------

TypeOK ==
    /\ run.project \in Projects \cup {Nobody} /\ run.number \in 0 .. MaxRuns
    /\ starting \in [by : Projects \cup {Nobody}, read : BOOLEAN]
    /\ \A s \in DOMAIN sender :
        /\ sender[s].loop \in {"idle", "sending", "out"} /\ sender[s].sent \in 0 .. MaxFrames
        /\ sender[s].final \in -1 .. MaxFrames
    /\ \A r \in DOMAIN rec :
        /\ {rec[r].reader, rec[r].writer} \subseteq {"on", "busy", "out"} /\ rec[r].last \in -1 .. MaxFrames
    /\ \A r \in DOMAIN replay :
        /\ replay[r].worker \in {"on", "busy", "out"} /\ replay[r].is \in {"playing", "paused", "finished"}
    /\ handlers \cup heard.of \subseteq 1 .. MaxTests

\* A sender's final status counts every frame of a loop that is out, one that outlived the stop of
\* its run included, unless a start let its handle go unread: its own project's, which found the
\* process still held at its first look and free at its second, or another project's.
FinalCountsAll ==
    \A s \in DOMAIN sender : sender[s].final # None =>
        sender[s].loop = "out" /\ (sender[s].final = sender[s].sent \/ sender[s].skipped)

\* CyclicSender.status has no such exception: "after a stop, what it had done when it ended".
FinalCountsWhatItDid ==
    \A s \in DOMAIN sender : sender[s].final # None => sender[s].final = sender[s].sent

\* Recording.counts after a stop on any thread is what the file holds, also where the stop failed
\* because the writer was still in a write.
RecordingCountsAll == \A r \in DOMAIN rec : Counts(rec[r]) = rec[r].frames

\* Nothing in the background outlives its run: once a run is over, every sender, recording and
\* replay of it was asked to end, whoever held it, and once the next is on none of their threads is
\* still inside a call on a wire.
NothingOutlivesItsRun ==
    LET over(x) == run.project = Nobody \/ x.run # run.number
        past(x) == run.project # Nobody /\ x.run # run.number
    IN  /\ \A s \in DOMAIN sender :
            (over(sender[s]) => sender[s].asked) /\ (past(sender[s]) => sender[s].loop = "out")
        /\ \A r \in DOMAIN rec : (over(rec[r]) => rec[r].asked) /\ (past(rec[r]) => rec[r].reader = "out")
        /\ \A r \in DOMAIN replay :
            (over(replay[r]) => replay[r].asked) /\ (past(replay[r]) => replay[r].worker = "out")

\* A test begins as if it were alone: no sender goes on from an earlier test, no fault of one is
\* armed, no handler of one is registered and no frame from before it is unread, whatever the
\* earlier tests left and whether or not they stopped the project (pytest_plugin.project).
TestInheritsNothing ==
    test.on =>
        /\ \A s \in DOMAIN sender : sender[s].test # test.number => sender[s].asked
        /\ \A m \in Names : fault[m] # NoFault => fault[m].test = test.number
        /\ handlers \cup heard.of \subseteq {test.number}
================================================================================
