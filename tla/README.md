# blobly_net: a TLA+ verification project

blobly_net is a CAN, LIN and Ethernet workbench: an engine written in V
(`blobly/`), a C library over it (`cmd/libblobly`), a Python package over that
(`python/blobly`), a desktop application and command line tools. This directory
models the parts of it where several threads, or callbacks and their caller,
or several processes, share state: the Python package's projects, clients,
background activities and readings, its event loop and interruptible calls, the
hub through which several handles share one physical adapter, the software
ISO-TP channel, and the script that requests reviews. TLC checks the models on
small instances; TLAPS proves the main results about each of them for every
instance.

Paths in this file and in the comments of the modules are relative to the root
of the repository.

## 1. The system

| Component | State it keeps | Operations | Hard behaviour |
|---|---|---|---|
| Python projects (`python/blobly/project.py`, `generators.py`, `nodes.py`) | `_lib.state` (owner, load, run), channels with their indexes and handles, listed messages, generators, nodes | load, start, stop, listings, send, fire, expect, decode, close | the library takes indexes, and whatever is at an index changes with each load and run; sends and waits happen outside the lock |
| Python UDS clients (`uds.py`, `nodes.py` `NodeClient`, `isotp.py`, `flash.py`) | per client: lock, connection, what the script stated, `_in_key_fn`; orphans | every service call, security_access with a script's key_fn, functional requests, retarget, read and write by layout, flash.program, close, collection | two threads on one client, calls from inside a key_fn, a stop that closes connections under calls, a flashing thread and its reporter |
| Python background (`cyclic.py`, `replay.py`, `faults.py`, `pytest_plugin.py`) | senders, recordings, replays, faults, the fixtures of a suite | start, stop, status, counts, arm, clear; a test's set-up and teardown | loops inside a driver call that outlive the bound of a stop; tests that stop the project |
| Python readings (`j1939.py`, `nm.py`, `lin.py`) | listeners bound to a handle, bounded queues, taps of LIN buses by position | messages, faults, addresses, reading, expect_state, recv, expect, close | the handle, the run and the bus at a position change between two calls or inside one |
| Review requests (`scripts/codex_review.py`) | a lock directory, state files, GitHub's comments | request, watch | processes that die holding the lock, late verdicts, lists that grow while they are read |
| Python event loop (`python/blobly/events.py`, `EventLoop`) | handlers, timers, the frame being dispatched, the round-robin index | on_message, on_health, every, run, wait_on | callbacks that raise, take long, register, or call run() again |
| Python interruptible calls (`events.py` `_on_thread`, `uds.py` `_cancellable`) | three events and a thread | the call, the interrupt, the cancellation | a KeyboardInterrupt at any bytecode, a thread that never got to run |
| Shared wire hub (`blobly/transport/shared.v`) | registry of generations by key; per generation a ring of frames, cursors, who counts as listening, pending transmit acknowledgements, locks, one-token channels | open, join, send, recv, diagnostics, close; one reader thread per generation | everything at once: openers, senders, receivers, closers and the reader interleave; a teardown may start on three of them; the adapter may be unplugged anywhere |
| Software ISO-TP (`blobly/isotp/software.v`, `flowcontrol.v`, `singleframe.v`) | the transfer being reassembled, `fc_dirty`, the stop flag | send, recv, drains, request_stop | late Flow Controls, deadlines in the middle of a transfer, wrapped sequence numbers, WAIT storms |
| Engine loops (`blobly/cyclic/cyclic.v`, `blobly/replay/play.v`, `record.v`; `blobly/uds` keep-alive, `blobly/flash`) | one thread each, two kinds for a recording; counts, a control that waits, a stop that was asked | begun and stopped by the components above | a thread inside a driver call outlives the bound of its stop. Senders, replays and recordings are in `Background`, from their source; keep-alive and flashing are the environment of `UdsClient` |
| C library (`cmd/libblobly`) | handles of buses, senders, replays, recordings, taps; the run's rows, listings and databases; the number of the run | `bb_start`, `bb_stop`, `bb_wait_released`, listings, sends and reads by index or handle | whatever Python asks by index is what the run has there now; a handle table outlives the run that filled it |
| Echo accounting (`blobly/wiretap/wiretap.v`), J1939 transport (`blobly/j1939/tp.v`), DoIP (`blobly/doip/`), network management (`blobly/nm/`) | see `PROJECT.json` | | not modelled |
| Parsers and writers, adapters, user interface | none that lasts, or vendor handles | | data and I/O |

How they meet: a script loads and starts a `Project`, takes channels, messages,
generators and nodes from it, and makes clients, listeners, senders and
recordings on them. All of it goes through one C library, whose open, close,
load, start and stop calls Python serialises under `_lib.state_lock`. Channels
are *handles*; on PCAN, CANsub and the CAN bridge a handle is one of the hub's,
which owns the one reader of an adapter. ISO-TP runs on a handle, UDS on an
ISO-TP channel. Python's event loop waits on one channel at a time, in slices,
and its UDS calls run on threads of their own so that Ctrl-C can stop them.

What makes each modelled part correct:

- *projects*: an object never reaches anything but what it was made for; one run
  at a time; a stopped project holds no bus; the state lock is always given back;
- *clients*: a key answers its own seed; a request goes out under what the script
  stated; no answer is decoded by another run's layout; no connection is lost; a
  flash whose progress raised is not checked; every call ends;
- *background*: final counts are final; nothing outlives its run; a test inherits
  nothing;
- *readings*: every completed message is given out, waiting or counted as dropped;
  a reading is what the listener states; a LIN frame comes from the bus named;
- *reviews*: one process at a time under the lock, one open request per head, no
  verdict of another round;
- *event loop*: each handler gets each frame taken up, whatever callbacks do;
  timers keep their grid; runs end;
- *interruptible calls*: a caller that left has left nothing running;
- *hub, registry*: a handle never stands on a driver that is gone; whoever waited
  for an attempt gets its outcome; every close returns;
- *hub, reading*: a drain throws away only what nobody is owed; nobody is served a
  frame from before its boundary; losses are counted once;
- *hub, acknowledgements*: credit goes to the sender, every send is accounted for;
- *ISO-TP*: no PDU put together from two messages, no Consecutive Frame that its
  own transfer's Flow Control has not cleared, no reply drained away, sends end.

The hazards behind these properties, each at the line where it bites, are in
`PROJECT.json`.

## 2. Modules and the code

| Module | Models | One step is |
|---|---|---|
| `RunScope` | what the package promises: runs one after another, and every call carried out in the run, and on the thing, it means | a start, a stop, a call carried out, anything else |
| `Project` | `project.py`, `generators.py`, the listing of `nodes.py`; shown to implement `RunScope` | one hold of `_lib.state_lock`, or one library call outside it |
| `UdsClient` | `uds.py`, `NodeClient`, `isotp.py`, `flash.program` | one hold of the state lock, one lock taken, one exchange begun or answered |
| `Background` | `cyclic.py`, `replay.py`, `faults.py`, the `project` fixture of `pytest_plugin.py`; the loops of `cyclic.v`, `play.v` and `record.v`; `bb_start`, `bb_stop` | one call of the script (one hold of the state lock; a start is two), one step of an engine loop |
| `Readings` | `j1939.py`, `nm.py`, `lin.py` and the channel's handle under them | one hold of the state lock, one read, one library call |
| `CodexReview` | `scripts/codex_review.py`: `request`, `watch`, the lock | one file operation or one question to GitHub |
| `EventLoop` | `EventLoop` and `wait_on`, with `Project._wait_frame` | one turn of the loop up to the next callback, the callback's end, or a wait |
| `OnThread` | `_on_thread`, `_sliced` and the `on_interrupt` that `uds._cancellable` gives | one statement that another thread or an interrupt can come before |
| `SharedRing` | `oldest_locked`, the slot of a sequence number, what a lagging cursor has lost | pure operators, shared by the next two |
| `SharedPark` | one running generation over a driver without acknowledgements (PCAN), whose reader parks: `read_loop`, `admit`, `drain_boundary`, `drain_parked`, `send`, `recv`, `diagnostics`, `close`, `fail_and_close` | one critical section of `e.mu`, or one driver call under `drain_mu` |
| `SharedAcks` | one running generation over a driver with acknowledgements (CANsub, bridge): `send`'s publication to `pending`, the reader's matching, expiry, eviction, grace of failed writes, cancellation | one critical section of `e.mu`, or the write under `send_mu` |
| `SharedOpen` | the registry and the lifetime of generations: `shared_open_events`, `fail_open`, `fail_and_close`, `finish_close`, `shared_remove_entry`, the end of `close` | one critical section of the registry or of `e.mu`, or one call of the factory or of `driver.close()` |
| `IsoTp` | `SoftChannel`: `send`, `await_flow_control`, `recv`, `drain_quiet`, `drain_idle`, `flush_rx`, `request_stop`; and the peer (external) | one frame read or written, or one decision of a wait |

`MC*` modules give TLC its symmetry sets, the scripts it enumerates and the
functions among the constants; `*Proofs` modules hold the theorems.
`PROJECT.json` maps every definition to the lines it stands for. An operator
marked "Mutant" in a comment is the definition after it with a plausible bug; the
model does not use it.

### Project and RunScope

`Project` keeps what Python keeps (`state`, the channels with name, load and
handle; the listed objects with name and the run they were listed in last) and what the library holds (`lib`: the rows of the load, the
run, what it lists, whether an ended run still holds the process). `Layouts` are
the contents the project file may have each time it is read, `Databases` what a
run may list: both may differ from load to load and from run to run, which is
when an index goes stale. `Managers` load, start and stop; `Users` hold on to
objects. `served` records what the call carried out in the last step meant and
what it reached: it is what the refinement maps to `RunScope!served`.

A Python object is named by where it was made: a Channel by the load that made it
and its index there, a listed object by its home (the Channel whose messages, or
the Project whose generators or nodes, they are), the run that first listed it and
its index there. Each load makes at most one Channel per index and each run lists a
home once, so two objects never share a name, and the index, which an object keeps
for life, is part of it.

Calls made in one hold are one action (`Encoded`, `GeneratorCall`, `NodeRead`);
`Message.send`, `Generator.fire` and the waits of `expect` and `expect_signal` are
split where the code gives the lock back. Handles that close take two steps, with
the lock held in between, because `bb_bus_close` waits for the reads inside.
`Listings` bounds which kinds of object one behaviour lists: messages, generators
or nodes (their state is disjoint, so mixing them adds states and no cases).
Registrations on rows that a reload drops (`_drop_gone`) are left out.

### UdsClient

`conn` is every connection ever opened, by handle; `seed` counts the seeds its ECU
has handed out, `stated` the statements (sizes, waits, keep-alive, target) made on
it, so that "the key answers its seed" and "under all it has stated" are equalities
of counters. A client's lock is re-entrant and is held across a key_fn, so a
thread's state keeps the `outer` security access its key_fn is inside. Kinds of
call that take the same steps share an action (`AskExchange` stands for session,
reset, read_did and the like). `script` chooses which calls each thread makes, in
which order, among the scripts of `MCUdsClient`; all interleavings of them, with
closes, stops, starts and collection at any place, are checked. `flash` is the
flashing thread: its session begins, goes on block by block through `on_progress`,
and ends with a check or without.

A NodeClient's `places` are where a run's system model may reach its node: a
restarted run may reach it elsewhere, and then nothing is opened.

### Background

Each operation is one hold of the state lock and one action, except for a start and
a replay's controls. A sender's loop, a recording's readers and writer and a
replay's worker go into a driver call in one step and out of it in another; asked to
stop inside, they outlive the bound (`Stopped`, `EndedRecorder`, `EndedSession`) and
end when they come out. `Stop` is `Project.stop` with `bb_stop`: the recordings the
project holds, then every replay and recording of the library (`replays_stop`), the
run's loops, and the status of each sender.

A start looks twice at whether the process is free. `Project.start` asks
`bb_wait_released(0)` and reads the senders only if it is (`StartLooks`); `bb_start`
asks for itself, and lets the handles of earlier runs go if it brings the run up
(`StartRuns`, `Retired`). Engine loops step in between. `skipped` is history: it marks
a sender whose handle was let go without a last look, either because the first look
found the process held and the second found it free, or because another project
started. `Released` is what both ask: it does not ask a recording's writer.
Tests begin with `pytest_plugin.project`'s set-up and end with its teardown, which
skips senders and faults if the test stopped the project; the end of a module's
run is, for what is modelled, a test that stops the project. `heard` holds the
tests during which the frames that are still unread on the channel's handle were
sent.

### Readings

One channel with its J1939 listener and its newest NM listener, and the LIN buses
of the project and of the script; one thread reads, another closes and restarts.
A behaviour reads either the channel or LIN (`part`): they share only the run and
the lock. `eng` is the library's reading of the open handle, with its bounded
queues; what an earlier handle read is gone with it, by design, and
`NothingUncounted` speaks of the open one. What a reading says is its configuration
(the wire's, or a stated range).

### CodexReview

GitHub numbers what it is given; times have one second's resolution, so `now` may
stand still between a verdict and a request. A process may die anywhere in
`request` (`Crash`); it leaves its lock directory with or without the owner file.
The directory is judged, its owner file unlinked and the directory removed in
separate steps, by several processes. `stolen` is history: it records that a reclaim
removed another lock than the one it had judged, and the processes go on from there,
two of them inside if it so happens. `LockExcludes` and `AskedOnce` say what holds
until then; `AskedOnlyPastTheBound` leaves the condition out, and is violated
(section 3). What a verdict says, and the fallback lock
directory for read-only checkouts, are left out.

### SharedPark

Variables keep the names of the fields of `SharedEntry` and `SharedHandle`. A
frame is the number of its arrival at the driver. Per handle there is one caller
thread and one closer, since `close` is allowed during a call; `SerialCallers`
switches that off. Every place where a thread releases `e.mu`, `h.mu` or
`drain_mu` and goes on with what it read is a step boundary. The clock is
abstract: `Age` ends a handle's attentive second at any moment, and any timed
wait may end at any moment. So `kick`, whose only effect is that a park ends
sooner, is no variable. Batches of `drain_parked` have the length of the
driver's queue in place of 4096; `shared_boundary_drain_frames` is
`BoundaryFrames`, assumed, as in the code, to be no smaller than the driver's
queue. `Unplug` makes every later driver call fatal. `Scripts` chooses, once per
behaviour, which calls the handles make, whether the adapter breaks and how many
frames arrive.

`ghost` is history only. Its fields record since which arrival the wire owes a
handle frames and by which route (under `drain_mu`, or by `send`'s stamp, which
takes no `drain_mu`), and when the boundary drain began.

### SharedAcks

`pending` is a set of numbered entries: the list's order is that of `nr`, the
number a send was published under, and only its front is ever looked for
(`Oldest`). The driver keeps the order of writes; an acknowledgement carries the
frame and no tag (`src` and `token` of a record are history, for the properties). It may come before the write call returns, or, with `Lossy`, never. A
write may fail (`Fails`) before or after its bytes went out. Deadlines pass in
`Lapse`. `tainted` marks frame contents for which an acknowledgement was lost,
evicted or expired: from then on no receiver of untagged acknowledgements can
attribute that content, and `AttributionExact` speaks about the others. That
condition is the code's own argument (comment at `shared.v` 338 and following):
equal frames cannot be told apart.

### SharedOpen

One key, any number of threads that open and close it, any number of
generations. Inside a generation only three things are kept of what `SharedPark`
models: the reader may meet a fatal read in its poll or in a parked drain
(noticed under `drain_mu`, taken afterwards), and a joiner may meet one in its
own boundary drain. `Faults` selects which of them, and which failures of the
factory and of the listen-only policy, may happen.

### IsoTp

A message is its id and its number of Consecutive Frames. A frame carries, as
history the receiver cannot see, the message it belongs to: that is what lets a
property say that a PDU was spliced. The peer is any ISO 15765-2 node: it
answers a First Frame with any Flow Status and block size, or not at all, sends
messages of its own at any moment, gives up (`impatient`), and the bus may lose
or repeat a Consecutive Frame or carry frames that are no ISO-TP. STmin pacing
and the byte layout are left out.

### EventLoop

A run() in progress is a record of a stack; a callback is "on top" of the run
whose record says `call`, and may let time pass, register, raise, or push a run
of its own. Time passes only in callbacks, waits and between runs.

### OnThread

A KeyboardInterrupt may be raised at any of the main thread's places (`Landing` says
where it leads). `cut` is history: it names the place if one struck outside every
`try`, in the except clause between the first interrupt and the loop (303-305), and
the function was left from there. `NothingLeftRunning` and `NeverMadeLate` name the
places they do not speak of; `FurtherInterruptsHeldBack` is what the docstring says,
without exception, and the code does not keep it (section 3).

## 3. What the runs check

| Run | Shows | Bounds, and why they are enough |
|---|---|---|
| `project_run` | `ReachesItsOwn`, `StoppedHoldsNothing`, `LockIsLetGo`, and the refinement `OneRunAtATime` | 2 projects, one managing and one using thread; 2 loads and 2 runs, so that an object survives a reload and a restart; a file that loses its first row and a list that gains a name in front, so that every index moves; 3 objects, 2 handles |
| `uds_calls` | `KeyAnswersItsSeed`, `AsksAsStated`, `LaidOutByItsRun`, `NoConnectionLost`, `RaisedNeverChecks`, `EveryCallEnds` | 2 threads, 2 clients, a node's and a raw channel; scripts of one or two calls per thread, chosen so that each call meets the ones that can spoil it; 2 runs, 3 connections, 2 blocks of a flash |
| `background_tests` | `FinalCountsAll`, `RecordingCountsAll`, `NothingOutlivesItsRun`, `TestInheritsNothing` | 2 projects, 2 tests, 2 runs, 2 things started in the background (of any kind), 2 frames each, a name that one and a name that two messages have |
| `readings` | `NothingUncounted`, `ReadsAsStated`, `LinReadsItsOwn` | queues of 1, so that the second message is a loss; 3 completed messages, 3 handles, 2 runs and their stops, 3 LIN objects and taps, two names at the position |
| `review_rounds` | `LockExcludes`, `VerdictIsItsRounds`, `AskedOnce` | 2 processes in 2 worktrees, one of them also watching; 1 crash, 2 heads, 3 comments or reviews of which 1 a verdict (or none, and the summary's marker instead), 2 seconds and a stale bound of 1 |
| `loop` | `TakenReachesAll`, `KeepsItsGrid`, `RunReturns` | 2 handlers, a monitor, a timer of period 2 with callbacks of 0 or 3; runs nested twice, 1 frame, 1 exception, 5 units of time |
| `thread_interrupt` | `NothingLeftRunning`, `NeverMadeLate`, `Leaves` | 4 interrupts, anywhere |
| `park_calls` | `GapsBookedOnce`, `BoundaryExact`, `DrainSparesTheOwed` | 2 handles; ring, driver queue and boundary drain of 1, so that every second frame is a loss; 2 arrivals, so that a frame can be before and behind a boundary; scripts with and without unplugging |
| `acks_credit` | `AttributionExact`, `EverySendAccounted`, `NoStaleCredit` | 2 handles, 2 contents, 3 sends over a pending list of 2 (so it overflows), 1 external frame |
| `open_registry` | `RunningIsRegistered`, `HandlesHaveDrivers`, `InUseOwnsTheKey`, `CloseReturns`, all faults | 2 threads, 2 specs, 2 generations; the safety part is proved for any number |
| `open_unsettled` | the finding below | 2 threads, 1 spec, 2 generations |
| `isotp_exchange` | `NoSplice`, `DrainSparesReplies`, `ClearedByItsOwn`, `SendEnds` | messages of 1 and 3 frames, 2 each way, queue of 2, one WAIT, one loss |

Two handles are enough for the hub, and two threads for the clients: every
protocol in them is between one caller and a reader or a closer, or between two
callers over one lock or one counter. Bounds on arrivals, sends, loads and
messages are guards of the actions that begin something, never of the code's own
steps. Runs without deadlock checking (`background_tests`, `readings`,
`uds_calls`, `review_rounds`) really come to an end at their bounds: the last test
is over, or both scripts are.

The modules state further properties that no run lists; TLC found them to hold on
the instances named. On the runs' own instances, and proved too (section 5):
`SharedOpen`'s `TypeOK` and `WaitersShareTheRefusal`, `EventLoop`'s `EachOnceInOrder`, `NoDueTimerWaits`,
`NothingTakenUpLate` and `HealthIsNews`, `Readings`' `ReadingsTypeOK` and `NoTapLost`,
`SharedAcks`' `NoSelfEcho` and `AcknowledgedFramesAppear`. On the runs' own instances,
and only checked: `EventLoop`'s `LoopTypeOK` and `NoneStarved`, `Readings`' `CloseEnds`
(under `FairReadingsSpec`), `SharedOpen`'s `RefusalReturns`, `IsoTp`'s `NeverUncleared`
and `StopEnds`. On instances of their own: `IsoTp!NothingSkipped`
for a caller that only receives (`Ops = {"recv"}`, sequence numbers modulo 4,
messages of up to 6 frames, 3 losses); `SharedPark!NoStrandedWaiter` and
`NoLostWakeup` for two handles that receive, unplugging included
(`SerialCallers = FALSE`, a ring of 2).

### Where the code and its documentation disagree

`open_unsettled` checks what a comment says and finds a behaviour of the code that
contradicts it: a caller that waited for an attempt and comes back to the same
generation, still registered and on its way out, blocks on a channel of its own
that nobody closes. `PROJECT.json` quotes the lines.

Other instances of the same modules show more. The properties are stated in the
modules; TLC finds each violated within seconds with the constants given.

- `Background!FinalCountsWhatItDid` with one project, message name, test, sender and
  frame, and 2 runs: a sender's loop leaves its send between the two looks of a start.
  The first found the process held and left the sender unread (`project.py` 1090); the
  second finds it free, and the run that comes up lets the handle go. From then on
  `CyclicSender.status` answers what it last saw, as "what it had done when it ended"
  (`cyclic.py` 101-112). With a second project one look is enough: a start reads only
  its own project's senders. `FinalCountsAll` excepts just these (`skipped`).
- `CodexReview!AskedOnlyPastTheBound` with the constants of `review_rounds`:
  `reclaim_stale_lock` (`codex_review.py` 300-314) judges and removes in separate
  steps. Of two processes that both judge a dead lock, the slower removes the lock
  the faster has made meanwhile; both are inside, and both post. `LockExcludes` and
  `AskedOnce` except what comes after such a theft (`stolen`).
- `OnThread!FurtherInterruptsHeldBack` with 2 interrupts: a second Ctrl-C between the
  first one's `except` and the loop's `try` (`events.py` 303-305) leaves `_on_thread`
  with the call running and, before 304, without even having marked it abandoned.
  `NothingLeftRunning` and `NeverMadeLate` except these places (`cut`).
- `SharedOpen!NoPhysicalOverlap` with 2 threads, 1 spec, 2 generations and
  `Faults = {"reader", "joiner"}`: a parked drain gives `drain_mu` up before it takes
  its failure (`shared.v` 729-733), so a joiner can meet the same dead adapter and
  both run `finish_close`. The second finds `raw_closed` set and removes the registry
  entry (1178) while the first is still inside `driver.close()`; the key is free, and
  the wire is opened again (`docs/one_reader_per_wire.md` 65 says that this cannot
  happen). What holds whatever fails is `InUseOwnsTheKey`: the driver that is being
  closed is not in use by then.
- `SharedPark!NoStrandedWaiter` with one handle that only sends and
  `SerialCallers = FALSE`: `admit` (954) and the last `close` (1614) both wait for
  the reader's exit, which is announced by one token. A send that is re-admitted
  while the last handle is closed waits for ever.
- `SharedPark!DeadHandleForgotten`, same instance: `send` looks at `h.closed`,
  releases `h.mu`, and stamps the handle as listening (1330-1338): a close in
  between is undone, which the comment at 1326-1328 means to exclude.
- `SharedPark!DrainSparesTheReply` with one handle that only sends, serial callers,
  a driver queue and 2 arrivals: the stamp behind a write does not stop a drain
  that is in the middle of a batch; a reply that arrives after the stamp may be
  discarded (the comment at 1323-1326 says why it must not be).
- `SharedPark!JoinSeesOnlyLater` with two handles that only send and queues of 2:
  of two opens onto a parked wire the second may receive frames from before its
  open, because the first one's drain publishes what it reads while another join
  is pending (`docs/one_reader_per_wire.md` 77-78).

### What reading the Python code showed

Behaviour that no run contains, because the code has nothing that handles it, or
because the module says that it leaves it out:

- A second Ctrl-C during `flash.py`'s wait for a cancelled flash (193) leaves
  `program` with the flashing thread alive and the client's lock given back. The
  model has one Ctrl-C per flash.
- Ctrl-C while a progress call waits releases that call before the flash is
  cancelled (190-192): one more block may go out.
- Two threads, each in a key_fn that calls the other's client, wait for each other
  for ever: each holds its client's lock (`uds.py` 569) and wants the other's.
  `AskAccess` therefore takes a key_fn to unlock no other client, and the scripts
  let one thread unlock.
- Two functional requests that name their clients in opposite orders give back
  and try again after the same millisecond; only chance keeps them from doing so
  together for ever. `Order` is one order.
- `watch` writes the time it recovers back into the state file (415-424) without
  the lock: a request made meanwhile loses its state, which the next request finds
  again in the comments.

## 4. Fairness

- `Project`: a thread inside a call goes on with it: a read is bounded by its slice
  (`SLICE_MS`), so it leaves without a frame, and no frame need ever come.
- `UdsClient`: a call begun goes on (the engine's timing bounds each exchange, a
  key_fn and a progress return); strong fairness of taking a client's lock, because
  a functional request that keeps trying gives back what it holds and sleeps
  between two tries; a receive's deadline passes.
- `Readings`, for `CloseEnds` only: a LIN call inside a tap ends its slice (20 ms).
- `SharedOpen`: weak fairness of each thread inside an open or a close and of
  each reader. Nobody has to open, close or fail.
- `SharedPark`, for the liveness properties it states: weak fairness of the reader,
  of every call and of every close; strong fairness of a handle that wants
  `drain_mu`: `take_drain_lock` counts waiters and the reader sleeps off the lock
  while there is one.
- `IsoTp`: the thread in a call goes on, and the bus delivers what it was given.
  The peer need not answer anything.
- `EventLoop`: the loop's own code runs, callbacks return, and time passes in a
  wait that is longer than nothing; a loop that waited for no time at all would
  be found not to return.
- `OnThread`: both threads run, except a worker whose start was interrupted: that
  one may never begin; and a call that is not cancelled need not end.

## 5. What is proved

`SharedOpenProofs`, for any finite set of threads, any specs, any number of
generations and any faults:

- `Inductive`: `IInv` holds in every reachable state. The invariants the runs
  check are not inductive: that a handle has a driver depends on nobody having
  ended its generation, and that depends on `refs` counting the handles that are
  out. `IInv` is `Shape` (types, with `refs` any integer) with `Standing` (where a
  thread stands tells the state of its generation), `OneMaker` (one thread makes
  each generation), `Lives` (what a generation's state says of its reader, its
  registration and its failure) and `Counted` (`refs` is the cardinality of the
  set of threads that hold a handle). `Counted` rests on three lemmas about
  finite sets: same holders, one more, one less. For each action one lemma says,
  field by field, what it moves (`MadeMoves`), and one shows from those facts that
  it keeps `IInv` (`MadeKeeps`); the proof of `InUse` below uses the same facts.
- `TypeCorrect`, `Registered`, `Driven`, `NoneLeftBehind`: `TypeOK`,
  `RunningIsRegistered`, `HandlesHaveDrivers`, `FailedOpensHaveNoHandles` follow.
  That `refs` is a natural number comes from `Counted`: it is never decremented
  below the handles that are out.
- `RefusalShared`: the action property `WaitersShareTheRefusal`.
- `OneInUse` (`InUseOwnsTheKey`): a driver that nobody has claimed to close owns its
  key, so that no two drivers of one wire are in use at once. The further invariant
  is `InUse`. It holds of every fault: section 3 gives the behaviour in which the
  closing driver's key is given away, and shows that no more can be proved.

`CallsProofs`, first for any number of clients, raw channels, threads, calls, runs
and handles (`UdsClient`):

- `Invariant`: `IInv` is `Shape` (types), `Reached` (a connection is of a run that
  began, and reaches its node where the client does), `Current` and `Kept` (a
  connection is open if and only if it is its client's in the run that is on, or an
  orphan, or being closed), `Told` (it was told what its client was, but for the one
  setting that a thread in `keeping` has had accepted and is about to keep), and,
  for each thread, `Keeps`: what its call holds (`Claims`, `Handles`), what the
  security access its key_fn is inside holds (`Unlocks`), which calls can be where
  (`Keys`), and what is so of them there (`Suits`). `Keeps` is what makes it
  inductive: between two steps of a call other threads may stop the project, close
  the client, and open connections for others.
- `KeysAnswerTheirSeeds` (`KeyAnswersItsSeed`), `CallsGoAsStated` (`AsksAsStated`),
  `RunsLayOut` (`LaidOutByItsRun`), `ConnectionsKept` (`NoConnectionLost`) and
  `RaisedIsNotChecked` (`RaisedNeverChecks`) follow. The argument for the first:
  the lock is held from the seed to the key, a key_fn's own calls are refused a seed
  and a retarget, a stop closes the seed's connection for good, and the key asks on
  that handle or on none.

One lemma (`SparedKeeps`) carries `Keeps` through the steps of the other threads:
`Spares` lists what no other thread touches, which is all that stands behind a held
lock, except that a connection may be let go.

Then for any number of interrupts, at any place, and both kinds of calls
(`OnThread`): `InterruptedCallIsOver` (`NothingLeftRunning`) and
`AbandonedCallIsNotMade` (`NeverMadeLate`). The invariant ties the events to the
places of the threads: `began` says that the worker got past its first step, `done`
that it ended, `abandoned` is set before the main thread asks `began`; `cut` says
which of them an interrupt in the except clause left undone.

Last for the event loop (`EventLoop`), for any handlers, monitors, timers, periods,
frames and exceptions, with callbacks that take any time, register others and call
run() to any depth:

- `LoopInvariant`: `LoopInv` is `LoopShape` (types), `Nested` (only the innermost run()
  is anywhere but in a callback, and goes through the timers and monitors there were
  when it began to), `InHand` (at most one frame is taken up, none during a wait, and
  some run() in progress has it in hand), `Owes` (what is owed is that frame, to the
  handlers it has still to call), `Gridded` (a timer's next point is a whole number of
  periods behind its registration, and behind the end of its callback while that is
  not running) and `InOrder` (what a handler was given is in order, and before the
  frame that has it still to call).
- `FramesReachAll` (`TakenReachesAll`): nobody is in run() only if no frame is in
  hand, so nothing is owed. `EachFrameOnceInOrder` (`EachOnceInOrder`) is `InOrder`.
- `TimersKeepTheirGrid` (`KeepsItsGrid`): `_past_grid` is the least point of the grid
  behind a time (`PastGridIs`), and a multiple of the period leaves no rest
  (`MultipleHasNoRest`).
- `NoTimerIsSlept` (`NoDueTimerWaits`), with the further invariant `Waits`: a wait
  began before its run's deadline and ends before the next timer that is not running.
  From the same two, the action property `NothingLate` (`NothingTakenUpLate`); and,
  from what was told being what is remembered (`SaidIsTold`), `HealthIsAlwaysNews`
  (`HealthIsNews`).

The only assumption is `LoopAssumption`, the types of the constants.

`BackgroundProofs`, for any number of projects, runs, tests, senders, recordings,
replays, frames and faults:

- `NoneOutlivesItsRun` (`NothingOutlivesItsRun`). The property is not inductive:
  `Project.stop` reads only the senders without a final status. `IInv` adds that one
  with a final status was asked before (in the set `Sender`; in `Recording`, that one
  not held was), and that what belongs to the run that is on belongs to that run's
  project (`Belongs`). A run comes up only where `bb_start` itself finds the process
  free, which is what keeps the threads of the run before out of it.
- `EachTestAlone` (`TestInheritsNothing`), with what holds between tests
  (`Between`): no handler is registered, and while the suite's project is started
  there is neither a fault nor a sender that was not asked. If the suite's project
  is not started, the start before the next test sees to both.
- `CountsAreTheFiles` (`RecordingCountsAll`) and `FinalCountsAllSent`
  (`FinalCountsAll`), with two further invariants: what is final of a sender is all
  that it sent, or it was skipped (`CountsAll`), and a start that found the process
  free has read every sender of its project (`ReadByTheStart`). The exception for
  skipped senders is what section 3 shows to happen.
- `TypeCorrect`.

The steps are taken in two stages: three lemmas say what any step may do to the
senders, the recordings and the replays (`SendersGoOn`, `RecordingsGoOn`,
`ReplaysGoOn`), and the invariants follow from these and from what becomes of
the run.

The same module, of `Readings`, for any number of handles, runs, ranges, names, LIN
buses and taps, and queues of any length:

- `ReadingsInvariant`: `ReadingsInv` is the types, `HandlesExist` (a listener knows
  only handles that were opened), `Balanced` (what the open handle's reading has
  completed and neither keeps, nor gave, nor counted as dropped is what the listener
  on that handle pulled), `Configured` (the handle the newest NM listener is on reads
  by what that listener states, or not at all), `Stands` (what a call in progress took
  out of a hold of the lock: its handle, its listener's), `TapsMatch` (a tap is of the
  bus, and the run, it was opened for) and `NoTapLost`. `NothingUncounted` alone is not
  inductive: a handle that a listener is not on yet must be missing nothing before the
  listener comes to it.
- `NothingGoesUncounted` (`NothingUncounted`), `AlwaysReadsAsStated`
  (`ReadsAsStated`), `LinAlwaysReadsItsOwn` (`LinReadsItsOwn`), `NoTapIsLost`
  (`NoTapLost`) and `ReadingsTypes` follow. Each step is one lemma, the channel's and
  the LIN side's apart: what one side leaves alone keeps its parts
  (`ChannelKept`, `LinKept`).

The only assumption is `ReadingsAssumption`: a queue has a place, and "none" and
"wire" are no ranges.

`SharedParkProofs`, for any finite set of handles, any ring and driver queue, any
frames, closes and faults, if a boundary drain may read at least as many frames as
the driver can queue (`BoundaryFrames >= DriverQueue`, which the code's constants
satisfy):

- `ParkInductive`: `IInv` is `Shape` (types), `Queued` (what the driver holds, in
  the order it came), `Locked` (who has `drain_mu`), `Owed` (a frame that an open
  handle is owed came after the handle was listened for), `Drained` and `Behind`
  (how far a boundary drain has come, and that a cursor is not ahead of it).
- `BoundaryAlwaysExact` (`BoundaryExact`). A drain that has read as many frames as
  the driver can queue, or has found the queue empty, has read all that was queued
  when it began; a slot of the ring carries its sequence number, so a cursor at the
  tail never meets an earlier frame.
- `OwedFramesSpared` (the action property `DrainSparesTheOwed`). Whoever throws
  frames away has `drain_mu` and began while nobody listened, and a handle comes to
  be owed frames only by a step that has `drain_mu`.
- `AccountsHold`: `Accounts` is what the books rest on. `Ahead`: the table's cursor
  of a subscriber is the handle's own, or was raised to the oldest frame by somebody
  who booked the loss, so what the handle will count when it looks is what was
  booked ahead of it and what is still to book. `Tabled` and `Placed`: the table has
  just the handles that subscribed, a closing one until its release, and a receive on
  its way to register is not closed under. `Referenced` and `Over`: `refs` counts the
  handles that are out, and a wire that is over has failed or nobody is out; without
  it a receive that comes too late to register would count a loss the table never
  books.
- `LossesBookedOnce` (`GapsBookedOnce`), in two steps: the invariant speaks of the
  number of units of a function over a set (`Total`), which the library's facts about
  cardinality add up; `FoldIsTotal` shows that a fold is that number. The induction
  over the parts of a finite set is `PartByPart`, from the first number that has a
  part without the property: the library's own has an operator for a parameter.
- `ParkTypes` (`TypeOK`).

`SharedAcksProofs`, for any number of handles, frames and sends, any capacities,
failing writes, lost acknowledgements and delays:

- `AcksInductive`: the one sender at work has `send_mu` and the latest token
  (`Turns`), so sends are published, written and acknowledged in the order of their
  tokens (`Numbered`, `InOrder`). Of a frame that is not `tainted` every
  acknowledgement to come has its send among the pending ones, and every pending
  one is acknowledged yet or about to be written (`AddsUp`).
- `AttributionAlwaysExact` (`AttributionExact`). An equal send that stands before
  the one an acknowledgement is for would have been acknowledged by an earlier one,
  but the acknowledgement at hand is the earliest (`Owner`). With it
  `AcknowledgedFramesAlwaysAppear` and `NeverSelfEcho`, which no run lists.
- `EverySendAlwaysAccounted` (`EverySendAccounted`) and the action property
  `NeverStaleCredit` (`NoStaleCredit`): what leaves `pending` is told apart and
  counted once, by the cardinality of its parts (`Retired`).
- `AcksTypes`: with it, `pending` never outgrows its capacity.

`IsoTpProofs`, for any sizes of messages, block sizes and statuses, any calls,
stops and failing writes, and any peer:

- `RepliesAlwaysSpared` (`DrainSparesReplies`), from the invariant `Base`: a
  channel is dirty only while no message was read since a send ended badly, and a
  send drains only a dirty channel.
- `NeverSpliced` (`NoSplice`), if `MaxLost < SNs`: fewer frames are lost or repeated
  than there are sequence numbers. The code cannot do without it: sixteen
  Consecutive Frames lost in a row bring the expected four bits round again. The
  invariant is about the *line*: the frames queued here and, after them, the one
  the peer is to say next. In it messages follow each other (`Rising`), no
  Consecutive Frame is missing behind its First Frame (`Gapless`), and a transfer
  in progress is continued by frames of its own from about where it stands, or by a
  new message (`Continues`). One lemma per way the line changes (a frame joins it,
  is read, is lost, is repeated, is said); `SameNumber` is the arithmetic of
  sequence numbers.
- `ClearedAlwaysByItsOwn` (the action property `ClearedByItsOwn`). It rests on what
  is on its way in both directions at once (`Flowed`): a First Frame not heard yet
  is of the transfer under way and nothing is behind it (`Opening`), the peer owes a
  Flow Control only for it (`Owing`), every Flow Control queued is of it and the
  last of its kind but for WAITs (`Answered`), Consecutive Frames arrive in order
  and none is behind the one that fills a block (`Flowing`), and the sender in a
  block counts as the peer does (`InBlock`). All of it holds only while the channel
  is clean and nothing is left of a send that ended badly (`Clean`), which is what
  `fc_dirty` is for.

`ProjectProofs`, for any Project objects, threads, project files, listings, loads
and runs:

- `ProjectInductive`: `IInv` is `Shape` (types), `Runs` (the started project is the
  one whose load the library holds), `Locked` (who holds the state lock, and the
  handle it is closing), `Rows` (a channel that is current stands at its index under
  its name, in its project's list; one that has a handle is current in the run that
  is on, and the handle is of its row and that run), `Lists` (the same of what a run
  lists) and, for each thread, `Keeps`: what it took out of a hold of the lock is
  still so, or the number it kept is not the run's any more. `Keeps` is what makes it
  inductive: a send, a fire, a read and a decode happen outside the hold that
  checked them.
- `AlwaysReachesItsOwn` (`ReachesItsOwn`): an index is as good as its name under
  `Rows` and `Lists` (`MeantIsGot`).
- `StoppedAlwaysHoldsNothing` (`StoppedHoldsNothing`). A stop closes the channels of
  its project's list; that none else has a handle is `Rows`.
- `ImplementsRunScope` (`OneRunAtATime`), step by step: a start is `Begin`, the end
  of a stop is `End`, a call carried out is `Serve` (`ServesOne`), and everything
  else is `Quiet` (`Passes`).
- `ProjectTypes` (`TypeOK`), with the further invariant `Counts`: the package's
  number of a run moves twice in each run, the engine's once.

The steps are taken in two stages here too: `TablesGoOn` says what a step may do to
the loads, the lists and the handles, `KeepsOn` and `HoldsOn` that a thread which
does not step keeps what it had, so that each action is left with its own thread.

`CodexReviewProofs`, for any number of processes, heads, items, clocks and crashes:

- `LockAlwaysExcludes` (`LockExcludes`): who is inside made the lock that is there
  and lives; a lock of one who lives is taken away only by a reclaimer that judged
  an earlier one, which the property excepts (`stolen`).
- `VerdictAlwaysIsItsRounds` (`VerdictIsItsRounds`): GitHub's list is in the order
  of times, so what answers the latest request of a head answers the earlier ones.
- `EachHeadAskedOnce` (the action property `AskedOnce`): a summary passes a head by
  only if a request for a later one exists, of which there is none between the
  second look at the head and the comment, because nobody else is inside. It has the
  same exception, and section 3 shows that it is needed.
- `ReviewInductive`, the invariant of the three.

Only model-checked:

- all liveness properties: liveness under fairness is beyond the prover;
- `EventLoop!NoneStarved`: its bound comes from the rotation of the channels that are
  read, of which no invariant is stated.

## 6. Not modelled

- Parsers, writers, vendor backends, user interface: data or I/O without control
  of their own. The kernel's ISO-TP is in Linux.
- The engine's own threads for keep-alive and flashing: they appear as the
  environment of `UdsClient`, with the outcomes it can see; `uds/keepalive.v` and
  `flash` are not translated. Of senders, replays and recordings, `Background` keeps
  the threads, their calls and their stops, not the pacing: periods, changes of a
  payload, speeds, loops, positions, the queue between readers and writer.
- `wiretap`, `j1939/tp.v`, `nm/tracker.v`, `doip`, `someip`, the LIN master:
  planned below, or folds over frames.
- In the Python package: the registrations a reload drops, a sender's update of its
  payload and period, replay speeds and loops, a Bus opened by address
  (`blobly.open`, one handle without a project), BootSim, single-call bindings
  (`doip.py`, `someip.py`, `discovery.py`, `vector.py`, `bridge.py`, `e2e.py`,
  `metrics.py`). An NM listener that is not its channel's newest is not followed.

## 7. Plan

Done: the hub, ISO-TP, the event loop, interruptible calls, the Python package's
projects, clients, background and readings, review requests, the refinement of
`RunScope`, and the theorems of section 5.

Next, in this order:

1. `Cyclic`: the pacing of the engine's senders, with period changes during a stall.
2. `KeepAlive`: the engine's keep-alive thread over an abstract ISO-TP channel that
   `IsoTp` is shown to implement.
3. `Wiretap`: claims of emissions before their outcome is known, and the ring at
   its capacity.
4. `J1939Tp`, `NmTracker`: passive trackers, checked against a reference
   definition over bounded recordings.
5. An abstract wire (handles, frames owed, frames received), which `SharedPark`
   implements up to counted losses.
