-------------------------------- MODULE Project --------------------------------
(***************************************************************************)
(* python/blobly/project.py, generators.py and the Nodes of nodes.py:      *)
(* Project objects of one process, loaded into the one library, started    *)
(* and stopped by several threads, while others use the Channels,          *)
(* Messages, Generators and Nodes they took earlier.                       *)
(*                                                                         *)
(* load, start, stop, open and close run under _lib.state_lock; a send and *)
(* the reads of a wait do not.  A Python object keeps the index its row or *)
(* message had when it was listed, and the library takes indexes: what     *)
(* keeps an old object from reaching another row is the generation of the  *)
(* load and the number of the run, compared before each call.              *)
(***************************************************************************)
EXTENDS Integers, Sequences, FiniteSets, Functions

CONSTANTS
    Projects,       \* the Project objects
    Threads,        \* the threads that share them
    Managers,       \* those of them that load, start and stop
    Users,          \* those of them that use the channels and what is listed
    Nobody,         \* no thread, no project
    Nothing,        \* no call was carried out
    Layouts,        \* what a project file may hold when it is read: its rows' names, in order
    Databases,      \* what a run may list, of a row or of the project: names, in order
    Listings,       \* bound: the kinds of object a behaviour lists
    MaxLoads, MaxRuns, MaxObjects, MaxHandles   \* bounds of the search

ASSUME ProjectAssumption ==
    /\ Nobody \notin Projects \cup Threads /\ Managers \cup Users = Threads
    /\ Listings \subseteq SUBSET {"messages", "generators", "nodes"}
    /\ {MaxLoads, MaxRuns, MaxObjects, MaxHandles} \subseteq Nat

VARIABLES
    lock,       \* the holder of _lib.state_lock between two steps
    state,      \* _lib.state: whose load the library holds, which load, which run
    lib,        \* libblobly: the loaded rows, the run and what it lists
    proj,       \* per Project: its load, started, its channels
    chan,       \* every Channel made: its project, its row's name, its load, its handle
    item,       \* every Message, Generator and Node made: its name, the run it was listed in last
    listing,    \* per home (a Channel's messages, a Project's generators, its nodes): the objects, their run
    handle,     \* every bus handle opened, by number (bb_next is never reused)
    thread,     \* where each thread stands between two holds of the lock
    served      \* the call the library carried out in the last step, Nothing for none

vars == <<lock, state, lib, proj, chan, item, listing, handle, thread, served>>

NoRun == -1     \* Python's None
Idle  == [pc |-> "idle", project |-> Nobody, chan |-> Nothing, item |-> Nothing, h |-> 0, run |-> 0]
Gone  == [is |-> "closed", row |-> Nothing, run |-> 0]
Quiet == served' = Nothing

\* Objects go by where they were made: a Channel by its load, an object listed by its home and run,
\* and both by the index they had there and keep.
Indexes(lists) == UNION {DOMAIN l : l \in lists}
Names(lists)   == UNION {Range(l) : l \in lists}
Channels == [load : 1 .. MaxLoads, index : Indexes(Layouts)]

\* A home of listed objects, and the project it belongs to.
MessagesOf(c)   == <<"messages", c>>
GeneratorsOf(p) == <<"generators", p>>
NodesOf(p)      == <<"nodes", p>>
Homes == {MessagesOf(c) : c \in Channels} \cup {GeneratorsOf(p) : p \in Projects} \cup {NodesOf(p) : p \in Projects}
IsMessage(k)   == k.home[1] = "messages"
IsGenerator(k) == k.home[1] = "generators"
IsNode(k)      == k.home[1] = "nodes"
HomeProject(home) == IF home[1] = "messages" THEN chan[home[2]].project ELSE home[2]

Init ==
    /\ lock = Nobody
    /\ state = [owner |-> Nobody, gen |-> 0, run |-> 0]
    /\ lib \in [rows : {<<>>}, running : {FALSE}, releasing : {FALSE}, run : {0}, names : {<<>>}, lists : Listings]
    /\ proj = [p \in Projects |-> [gen |-> 0, started |-> FALSE, channels |-> <<>>]]
    /\ chan = <<>> /\ item = <<>> /\ handle = <<>>   \* functions of no object, and no handle
    /\ listing = [home \in Homes |-> [items |-> <<>>, run |-> NoRun]]
    /\ thread = [t \in Threads |-> Idle]
    /\ served = Nothing

-------------------------------------------------------------------------------
(* What a call asks before it uses an index *)

\* Channel._current: the library's load is this channel's.
Current(c) == state.owner = chan[c].project /\ state.gen = chan[c].gen

SameRun(run) == state.run = run

\* A call that holds the lock from its first check to its last.
Holding(t) == lock = Nobody /\ thread[t] = Idle

\* The engine's answers by index: the row's name, the name listed.
RowAt(i)  == IF i \in DOMAIN lib.rows THEN lib.rows[i] ELSE Nothing
NameAt(i) == IF i \in DOMAIN lib.names THEN lib.names[i] ELSE Nothing

\* Channel.messages is refused on another load's row, Project.generators and
\* Project.nodes unless it is started; the library refuses all without a run.
MayList(home) ==
    /\ lib.running /\ home[1] \in lib.lists
    /\ IF home[1] = "messages" THEN Current(home[2]) ELSE proj[home[2]].started

\* Channel.messages: re-read in each run, keeping each Message still at its position under its name.
Kept(home, i) ==
    LET old == listing[home].items
    IN  i \in DOMAIN old /\ item[old[i]].name = lib.names[i]
Listed(home) ==
    [i \in DOMAIN lib.names |->
        IF Kept(home, i) THEN listing[home].items[i] ELSE [home |-> home, run |-> state.run, index |-> i]]

Relist(home) ==
    LET listed == Range(Listed(home))
    IN  /\ MayList(home)
        /\ IF listing[home].run = state.run
           THEN UNCHANGED <<item, listing>>
           ELSE /\ Cardinality(DOMAIN item \cup listed) <= MaxObjects
                /\ item' = [k \in DOMAIN item \cup listed |->
                                [name |-> IF k \in DOMAIN item THEN item[k].name ELSE lib.names[k.index],
                                 run  |-> IF k \in listed THEN state.run ELSE item[k].run]]
                /\ listing' = [listing EXCEPT ![home] = [items |-> Listed(home), run |-> state.run]]

\* Mutant: an object is used by its index without asking whether its home still lists it.
LiveOnceListed(k) == Relist(k.home)

\* Message._live, Generator._live, Node._live: its home re-read, and this object still in it.
Live(k) == Relist(k.home) /\ item'[k].run = state.run

\* What a call by object k means, and what the library does with its indexes.
Meant(k) ==
    [project |-> HomeProject(k.home), number |-> lib.run,
     what |-> <<IF IsMessage(k) THEN chan[k.home[2]].name ELSE Nothing, item[k].name>>]
Got(k) ==
    [project |-> state.owner, number |-> lib.run,
     what |-> <<IF IsMessage(k) THEN RowAt(k.home[2].index) ELSE Nothing, NameAt(k.index)>>]
Serve(meant, got) == served' = [meant |-> meant, got |-> got]

-------------------------------------------------------------------------------
(* Load, start, stop *)

\* Project._load: the old channels are closed, and each that is still at its position under its
\* name is kept and current again; the others are made anew.
KeepsRow(p, rows, i) ==
    LET old == proj[p].channels IN i \in DOMAIN old /\ chan[old[i]].name = rows[i]
NewChannels(p, rows) ==
    [i \in DOMAIN rows |->
        IF KeepsRow(p, rows, i) THEN proj[p].channels[i] ELSE [load |-> state.gen + 1, index |-> i]]

\* bb_load is refused while a run is on or still letting go.
LoadInto(p, rows) ==
    LET old == Range(proj[p].channels)
        new == Range(NewChannels(p, rows))
    IN
    /\ ~lib.running /\ ~lib.releasing /\ state.gen < MaxLoads
    /\ Cardinality(DOMAIN chan \cup new) <= MaxObjects
    /\ chan' = [c \in DOMAIN chan \cup new |->
                    [project |-> IF c \in DOMAIN chan THEN chan[c].project ELSE p,
                     name    |-> IF c \in DOMAIN chan THEN chan[c].name ELSE rows[c.index],
                     gen     |-> IF c \in new THEN state.gen + 1 ELSE chan[c].gen,
                     h       |-> IF c \in DOMAIN chan \ old THEN chan[c].h ELSE 0]]
    /\ handle' = [h \in DOMAIN handle |->
                    IF \E c \in old : chan[c].h = h THEN Gone ELSE handle[h]]
    /\ proj' = [proj EXCEPT ![p].gen = state.gen + 1, ![p].channels = NewChannels(p, rows)]

Load(t, p) ==
    /\ Holding(t)
    /\ \E rows \in Layouts :
        /\ LoadInto(p, rows)
        /\ lib' = [lib EXCEPT !.rows = rows]
        /\ state' = [state EXCEPT !.owner = p, !.gen = @ + 1]
    /\ UNCHANGED <<lock, item, listing, thread>> /\ Quiet

\* Project.start: its own load is run; with another's in the library it is loaded first (Load), in
\* the same hold, and a start the library then refuses leaves that load.  bb_start is refused while
\* a run is on or letting go.
Start(t, p) ==
    /\ Holding(t)
    /\ state.owner = p /\ state.gen = proj[p].gen
    /\ ~lib.running /\ ~lib.releasing /\ lib.run < MaxRuns
    /\ \E names \in Databases : lib' = [lib EXCEPT !.running = TRUE, !.run = @ + 1, !.names = names]
    /\ state' = [state EXCEPT !.run = @ + 1]
    /\ proj' = [proj EXCEPT ![p].started = TRUE]
    /\ UNCHANGED <<lock, chan, item, listing, handle, thread>> /\ Quiet

\* Project.stop: nothing unless it is started; else every channel is closed in turn ...
StopBegins(t, p) ==
    /\ Holding(t) /\ proj[p].started
    /\ lock' = t
    /\ thread' = [thread EXCEPT ![t] = [Idle EXCEPT !.pc = "stopping", !.project = p]]
    /\ UNCHANGED <<state, lib, proj, chan, item, listing, handle>> /\ Quiet

\* ... Bus.close: the handle is the channel's no more; bb_bus_close then waits for the reads in it.
TakeHandle(c) ==
    /\ chan[c].h # 0
    /\ chan' = [chan EXCEPT ![c].h = 0]
    /\ handle' = [handle EXCEPT ![chan[c].h].is = "closing"]

StopCloses(t) ==
    /\ thread[t].pc = "stopping" /\ thread[t].h = 0
    /\ \E c \in Range(proj[thread[t].project].channels) :
        TakeHandle(c) /\ thread' = [thread EXCEPT ![t].h = chan[c].h]
    /\ UNCHANGED <<lock, state, lib, proj, item, listing>> /\ Quiet

Readers(h) == {t \in Threads : thread[t].pc = "reading" /\ thread[t].h = h}

Closed(t) ==
    /\ thread[t].pc \in {"stopping", "closing"} /\ thread[t].h # 0
    /\ Readers(thread[t].h) = {}
    /\ handle' = [handle EXCEPT ![thread[t].h] = Gone]
    /\ IF thread[t].pc = "closing"
       THEN lock' = Nobody /\ thread' = [thread EXCEPT ![t] = Idle]
       ELSE lock' = lock /\ thread' = [thread EXCEPT ![t].h = 0]
    /\ UNCHANGED <<state, lib, proj, chan, item, listing>> /\ Quiet

\* ... then the run: its number moves, and bb_stop may answer that a loop still holds the process.
StopEnds(t) ==
    LET p == thread[t].project
    IN  /\ thread[t].pc = "stopping" /\ thread[t].h = 0
        /\ \A c \in Range(proj[p].channels) : chan[c].h = 0
        /\ proj' = [proj EXCEPT ![p].started = FALSE]
        /\ state' = [state EXCEPT !.run = @ + 1]
        /\ \E releasing \in BOOLEAN :
            lib' = [lib EXCEPT !.running = FALSE, !.names = <<>>, !.releasing = releasing]
        /\ lock' = Nobody
        /\ thread' = [thread EXCEPT ![t] = Idle]
        /\ UNCHANGED <<chan, item, listing, handle>> /\ Quiet

\* The loop that outlived the stop's bound lets go (blobly.wait_released answers True).
Released ==
    /\ lib.releasing
    /\ lib' = [lib EXCEPT !.releasing = FALSE]
    /\ UNCHANGED <<lock, state, proj, chan, item, listing, handle, thread>> /\ Quiet

-------------------------------------------------------------------------------
(* Calls under one hold of the lock *)

\* channel.messages, project.generators, project.nodes: taking the run's listing.
Take(t, home) ==
    /\ Holding(t) /\ Relist(home)
    /\ UNCHANGED <<lock, state, lib, proj, chan, handle, thread>> /\ Quiet

\* Message._encoded, Message.signals: read by index, in one hold.
Encoded(t, k) ==
    /\ Holding(t) /\ IsMessage(k) /\ Live(k)
    /\ Serve(Meant(k), Got(k))
    /\ UNCHANGED <<lock, state, lib, proj, chan, handle, thread>>

\* Generator._call (set, source, start, stop, info): the same.
GeneratorCall(t, k) ==
    /\ Holding(t) /\ IsGenerator(k) /\ Live(k)
    /\ Serve(Meant(k), Got(k))
    /\ UNCHANGED <<lock, state, lib, proj, chan, handle, thread>>

\* Mutant: a stopped project's channel opens its row again.
MayOpenLoaded(c) == Current(c) /\ Len(handle) < MaxHandles

\* Node.described, dids, targets, did ...: what its listing in this run says.
NodeRead(t, k) ==
    /\ Holding(t) /\ IsNode(k) /\ Live(k)
    /\ Serve(Meant(k), Got(k))
    /\ UNCHANGED <<lock, state, lib, proj, chan, handle, thread>>

\* Channel._handle: the handle it has, without the lock; else a new one on its row.  An attachment
\* that fails closes the new handle again, under the same hold.
MayOpen(c) == Current(c) /\ proj[chan[c].project].started /\ Len(handle) < MaxHandles
NewHandle(c) == [is |-> "open", row |-> RowAt(c.index), run |-> lib.run]
HandleOf(c, h) ==
    IF chan[c].h # 0
    THEN h = chan[c].h /\ UNCHANGED <<chan, handle>>
    ELSE /\ MayOpen(c)
         /\ handle' = Append(handle, NewHandle(c))
         /\ h = Len(handle) + 1
         /\ chan' = [chan EXCEPT ![c].h = h]

\* Channel.close, from any thread: the next use opens another handle.
CloseChannel(t, c) ==
    /\ Holding(t) /\ TakeHandle(c)
    /\ lock' = t
    /\ thread' = [thread EXCEPT ![t] = [Idle EXCEPT !.pc = "closing", !.h = chan[c].h]]
    /\ UNCHANGED <<state, lib, proj, item, listing>> /\ Quiet

-------------------------------------------------------------------------------
(* Message.send: encoded, stamped and the handle taken in one hold, sent after it *)

SendEncodes(t, k) ==
    /\ Holding(t) /\ IsMessage(k) /\ Live(k)
    /\ \E h \in 1 .. MaxHandles :
        /\ HandleOf(k.home[2], h)
        /\ thread' = [thread EXCEPT ![t] = [Idle EXCEPT !.pc = "sending", !.item = k, !.h = h, !.run = lib.run]]
    /\ Serve(Meant(k), Got(k))
    /\ UNCHANGED <<lock, state, lib, proj>>

\* Bus._send_on: on that handle, refused once it is closed.
SendOn(t) ==
    LET k == thread[t].item
        h == handle[thread[t].h]
    IN  /\ thread[t].pc = "sending"
        /\ IF h.is = "open"
           THEN Serve([Meant(k) EXCEPT !.number = thread[t].run],
                      [project |-> state.owner, number |-> h.run, what |-> <<h.row, item[k].name>>])
           ELSE Quiet
        /\ thread' = [thread EXCEPT ![t] = Idle]
        /\ UNCHANGED <<lock, state, lib, proj, chan, item, listing, handle>>

-------------------------------------------------------------------------------
(* Generator.fire: the engine's run read in one hold, named to bb_gen_fire after it *)

FireAims(t, k) ==
    /\ Holding(t) /\ IsGenerator(k) /\ Live(k)
    /\ thread' = [thread EXCEPT ![t] = [Idle EXCEPT !.pc = "firing", !.item = k, !.run = lib.run]]
    /\ UNCHANGED <<lock, state, lib, proj, chan, handle>> /\ Quiet

\* Mutant: any run will do for bb_gen_fire.
FireTakenAnyRun(t) == lib.running

\* bb_gen_fire: refused unless the run named is on.
FireTaken(t) == lib.running /\ lib.run = thread[t].run

Fire(t) ==
    /\ thread[t].pc = "firing"
    /\ IF FireTaken(t)
       THEN Serve([Meant(thread[t].item) EXCEPT !.number = thread[t].run], Got(thread[t].item))
       ELSE Quiet
    /\ thread' = [thread EXCEPT ![t] = Idle]
    /\ UNCHANGED <<lock, state, lib, proj, chan, item, listing, handle>>

-------------------------------------------------------------------------------
(* Bus.expect and Channel.expect_signal: a wait that holds to its run *)

\* Bus.expect: the id and the run, in one hold.
Expect(t, c) ==
    /\ Holding(t)
    /\ thread' = [thread EXCEPT ![t] = [Idle EXCEPT !.pc = "waiting", !.chan = c, !.run = state.run]]
    /\ UNCHANGED <<lock, state, lib, proj, chan, item, listing, handle>> /\ Quiet

\* Channel.expect_signal: a message of this run, its signal and the run.
ExpectSignal(t, k) ==
    /\ Holding(t) /\ IsMessage(k) /\ Live(k)
    /\ thread' = [thread EXCEPT ![t] =
                    [Idle EXCEPT !.pc = "waiting", !.chan = k.home[2], !.item = k, !.run = state.run]]
    /\ UNCHANGED <<lock, state, lib, proj, chan, handle>> /\ Quiet

\* Bus._frames_until: the handle the channel has in that run, taken in one hold.
WaitOpens(t) ==
    LET c == thread[t].chan
    IN  /\ thread[t].pc = "waiting" /\ lock = Nobody
        /\ IF SameRun(thread[t].run) /\ (chan[c].h # 0 \/ MayOpen(c))
           THEN \E h \in 1 .. MaxHandles :
                    HandleOf(c, h) /\ thread' = [thread EXCEPT ![t].pc = "looping", ![t].h = h]
           ELSE thread' = [thread EXCEPT ![t] = Idle] /\ UNCHANGED <<chan, handle>>
        /\ UNCHANGED <<lock, state, lib, proj, item, listing>> /\ Quiet

\* The top of the loop: refused in another run, over at the deadline, else a read on that handle.
WaitReads(t) ==
    /\ thread[t].pc = "looping"
    /\ \/ /\ SameRun(thread[t].run)
          /\ thread' = [thread EXCEPT ![t].pc = IF handle[thread[t].h].is = "open" THEN "reading" ELSE "failed"]
       \/ thread' = [thread EXCEPT ![t] = Idle]
    /\ UNCHANGED <<lock, state, lib, proj, chan, item, listing, handle>> /\ Quiet

\* Mutant: a read on a handle that is being closed waits for a frame.
ReadEmptyWaits(t) ==
    /\ thread[t].pc = "reading" /\ handle[thread[t].h].is = "open"
    /\ thread' = [thread EXCEPT ![t].pc = "looping"]
    /\ UNCHANGED <<lock, state, lib, proj, chan, item, listing, handle>> /\ Quiet

\* Bus._receive: nothing within the slice, or refused because its handle is being closed ...
ReadEmpty(t) ==
    /\ thread[t].pc = "reading"
    /\ thread' = [thread EXCEPT ![t].pc = IF handle[thread[t].h].is = "open" THEN "looping" ELSE "failed"]
    /\ UNCHANGED <<lock, state, lib, proj, chan, item, listing, handle>> /\ Quiet

\* ... or a frame: not in another run; expect returns the frame it waits for, expect_signal decodes it.
ReadFrame(t) ==
    LET w == thread[t]
        h == handle[w.h]
    IN  /\ w.pc = "reading"
        /\ IF w.item # Nothing /\ SameRun(w.run)
           THEN thread' = [thread EXCEPT ![t].pc = "decoding"] /\ Quiet
           ELSE /\ thread' = [thread EXCEPT ![t] = Idle]
                /\ IF SameRun(w.run)
                   THEN Serve([project |-> chan[w.chan].project, number |-> lib.run, what |-> <<chan[w.chan].name, Nothing>>],
                              [project |-> state.owner, number |-> h.run, what |-> <<h.row, Nothing>>])
                   ELSE Quiet
        /\ UNCHANGED <<lock, state, lib, proj, chan, item, listing, handle>>

\* A failed read waits for the lock, so that a stop in progress is said as the stop; it raises.
ReadFailed(t) ==
    /\ thread[t].pc = "failed" /\ lock = Nobody
    /\ thread' = [thread EXCEPT ![t] = Idle]
    /\ UNCHANGED <<lock, state, lib, proj, chan, item, listing, handle>> /\ Quiet

\* Channel._decode: the run checked and the values read in one hold; the predicate then returns it
\* or goes on waiting.
Decode(t) ==
    LET k == thread[t].item
    IN  /\ thread[t].pc = "decoding" /\ lock = Nobody
        /\ IF SameRun(thread[t].run) /\ MayList(k.home)
           THEN /\ Relist(k.home)
                /\ Serve(Meant(k), Got(k))
                /\ \E next \in {Idle, [thread[t] EXCEPT !.pc = "looping"]} : thread' = [thread EXCEPT ![t] = next]
           ELSE thread' = [thread EXCEPT ![t] = Idle] /\ UNCHANGED <<item, listing>> /\ Quiet
        /\ UNCHANGED <<lock, state, lib, proj, chan, handle>>

-------------------------------------------------------------------------------

\* The steps of a call begun, but the arrival of a frame.
Step(t) ==
    \/ StopCloses(t) \/ Closed(t) \/ StopEnds(t) \/ SendOn(t) \/ Fire(t)
    \/ WaitOpens(t) \/ WaitReads(t) \/ ReadEmpty(t) \/ ReadFailed(t) \/ Decode(t)

Manage(t) == \E p \in Projects : Load(t, p) \/ Start(t, p) \/ StopBegins(t, p)

Use(t) ==
    \/ \E p \in Projects : Take(t, GeneratorsOf(p)) \/ Take(t, NodesOf(p))
    \/ \E c \in DOMAIN chan : Take(t, MessagesOf(c)) \/ CloseChannel(t, c) \/ Expect(t, c)
    \/ \E k \in DOMAIN item :
        Encoded(t, k) \/ GeneratorCall(t, k) \/ NodeRead(t, k) \/ SendEncodes(t, k) \/ FireAims(t, k) \/ ExpectSignal(t, k)

Next ==
    \/ Released
    \/ \E t \in Threads : Step(t) \/ ReadFrame(t)
    \/ \E t \in Managers : Manage(t)
    \/ \E t \in Users : Use(t)

Spec == Init /\ [][Next]_vars

\* A thread inside a call goes on with it: a read is bounded by its slice (SLICE_MS), though
\* no frame need ever come.
FairSpec == Spec /\ \A t \in Threads : WF_vars(Step(t))

-------------------------------------------------------------------------------

TypeOK ==
    /\ lock \in Threads \cup {Nobody}
    /\ state.owner \in Projects \cup {Nobody} /\ state.gen \in 0 .. MaxLoads /\ state.run \in 0 .. 2 * MaxRuns
    /\ \A p \in Projects : Range(proj[p].channels) \subseteq DOMAIN chan
    /\ \A c \in DOMAIN chan : chan[c].h \in 0 .. Len(handle)
    /\ \A home \in Homes : Range(listing[home].items) \subseteq DOMAIN item

\* Whatever an object was taken from, a call by it that the library carries out reaches the project,
\* the row, the message and the run it was made for (Channel._current, Message._live, _same_run,
\* bb_gen_fire's run): never whatever a later load or run has put at its index.
ReachesItsOwn == served # Nothing => served.meant = served.got

\* A stopped project holds no bus: every open handle is some channel's of the started project's
\* current load, however the threads waiting on it stand (Project.stop, Project._load).
StoppedHoldsNothing ==
    \A h \in DOMAIN handle : handle[h].is = "open" =>
        \E c \in DOMAIN chan : chan[c].h = h /\ proj[chan[c].project].started /\ Current(c)

\* A close or a stop that holds the state lock lets it go, whoever is reading (bb_bus_close waits
\* for the reads in the handle; a read leaves once the handle is closing).
LockIsLetGo == \A t \in Threads : lock = t ~> lock # t

\* One run at a time, and every call carried out in its own: Project implements RunScope.
Scope == INSTANCE RunScope WITH
    run    <- [project |-> IF lib.running THEN state.owner ELSE Nobody, number |-> lib.run],
    Things <- (Names(Layouts) \cup {Nothing}) \X (Names(Databases) \cup {Nothing})
OneRunAtATime == Scope!Spec
================================================================================
