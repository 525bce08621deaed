-------------------------------- MODULE Readings --------------------------------
(***************************************************************************)
(* python/blobly: what is read beside a channel's frames (j1939.py, nm.py) *)
(* and off a LIN bus (lin.py), by one thread, while another closes the     *)
(* channel or the bus and stops and starts the project.                    *)
(*                                                                         *)
(* A channel's handle is opened by its next use and is never one an        *)
(* earlier use had; the library keeps, per handle, a J1939 listener with   *)
(* bounded queues and an NM listener with one configuration (eng).  Only   *)
(* the open handle is kept: a call on any other is refused.  A LIN bus     *)
(* has a tap per run.  Steps under _lib.state_lock are one action; the     *)
(* lock is held over several steps only while bb_lin_close waits for the   *)
(* call inside a tap.                                                      *)
(***************************************************************************)
EXTENDS Integers, Sequences, SequencesExt, FiniteSets, FiniteSetsExt

CONSTANTS
    Ranges,         \* id ranges a script states to nm()
    BusNames,       \* names a run may have for the LIN bus at the position
    _QUEUE,         \* completed messages, and faults, kept untaken
    MaxHandles, MaxRunNo, MaxMade, MaxBuses, MaxTaps     \* bounds of the search

ASSUME ReadingsAssumption ==
    /\ _QUEUE \in Nat \ {0} /\ {"none", "wire"} \cap Ranges = {}
    /\ {MaxHandles, MaxRunNo, MaxMade, MaxBuses, MaxTaps} \subseteq Nat

VARIABLES
    run_no, started, \* _lib.state["run"], Project.started
    wire,           \* this run's wire has an NM configuration
    named,          \* the name of this run's LIN bus
    handle,         \* Channel._h (0: none)
    handles,        \* handles opened so far
    eng,            \* the library's readings of the open handle
    j1939,          \* Channel._j1939: its handle, the faults it keeps, those it lost
    nm,             \* Channel._nm, the newest listener: what it states, its handle
    bus,            \* LinBus objects: the project's at the position, those replaced, the script's own
    listed,         \* Project._lin: the object listed (0: none), and in which run
    tap,            \* LIN handles: the run and name tapped
    orphans,        \* taps of collected objects, closed by the next call
    closing,        \* the tap bb_lin_close waits on, holding the lock (0: none)
    user,           \* the reading thread
    part            \* bound: what a behaviour reads, the channel or LIN (they share the run and the lock)

can == <<handle, handles, eng, j1939, nm>>
lin == <<bus, listed, tap, orphans, closing>>
readingsVars == <<run_no, started, wire, named, can, lin, user, part>>

Deaf == [on |-> FALSE, messages |-> 0, faults |-> 0, dropped |-> 0, made |-> 0, given |-> 0, nm |-> "none"]
Idle == [pc |-> "idle", op |-> "none", run |-> 0, h |-> 0, fh |-> 0, got |-> FALSE, told |-> "none"]

ReadingsInit ==
    /\ run_no = 0 /\ started = FALSE /\ wire = FALSE /\ named \in BusNames
    /\ handle = 0 /\ handles = 0 /\ eng = Deaf
    /\ j1939 = [asked |-> FALSE, h |-> 0, kept |-> 0, lost |-> 0]
    /\ nm = [states |-> "none", h |-> 0]
    /\ bus = <<>> /\ listed = [b |-> 0, run |-> 0] /\ tap = <<>> /\ orphans = {} /\ closing = 0
    /\ user = Idle /\ part \in {"channel", "lin"}

Free == closing = 0     \* _lib.state_lock
At(pc) == user.pc = pc
Return == user' = Idle  \* with a result no property is about, or by an exception

-------------------------------------------------------------------------------
(* The channel's handle: Channel._handle, close *)

\* bb_nm_attach: a wire without a configuration leaves a stated range; bb_nm_attach_range.
Attached(states, was) ==
    CASE states # "wire"         -> states
      [] states = "wire" /\ wire -> "wire"
      [] OTHER                   -> IF was = "wire" THEN "none" ELSE was

\* Mutant: a handle opened again reads by the wire's configuration, whatever a script stated.
OpenedByTheWire(j, n) == [Deaf EXCEPT !.on = j.asked, !.nm = Attached("wire", "none")]

\* What a handle reads from its first frame on: J1939 where a listener was asked for, NM by the
\* stated range, else the wire's.
Opened(j, n) ==
    [Deaf EXCEPT !.on = j.asked, !.nm = Attached(IF n.states = "none" THEN "wire" ELSE n.states, "none")]

\* The handle a use gets: the open one, or a new one while the project is started.
MayOpen == started /\ handles < MaxHandles
Use == handle # 0 \/ MayOpen
Used == IF handle # 0 THEN handle ELSE handles + 1
UseHandle ==    \* the channel's part; eng' and the listeners' handles are the caller's
    /\ handle' = Used /\ handles' = IF handle # 0 THEN handles ELSE handles + 1
EngOf(n) == IF handle # 0 THEN eng ELSE Opened(j1939, n)
NmOf == IF handle = 0 /\ nm.states # "none" THEN [nm EXCEPT !.h = Used] ELSE nm

\* _close_orphans, in every call that opens or closes a handle.
OrphansClosed == [t \in DOMAIN tap |-> IF t \in orphans THEN [tap[t] EXCEPT !.open = FALSE] ELSE tap[t]]

\* Channel.close, from the other thread.
Close ==
    /\ Free /\ handle # 0
    /\ handle' = 0 /\ eng' = Deaf
    /\ tap' = OrphansClosed /\ orphans' = {}
    /\ UNCHANGED <<run_no, started, wire, named, handles, j1939, nm, bus, listed, closing, user>>

\* Project.stop closes the channel's handle and ends the run; its LIN buses end with it.
StopProject ==
    /\ Free /\ started /\ run_no < MaxRunNo
    /\ started' = FALSE /\ run_no' = run_no + 1
    /\ handle' = 0 /\ eng' = Deaf
    /\ tap' = OrphansClosed /\ orphans' = {}
    /\ UNCHANGED <<wire, named, handles, j1939, nm, bus, listed, closing, user>>

\* Project.start; the files may say otherwise by now.
StartProject ==
    /\ Free /\ ~started /\ run_no < MaxRunNo
    /\ started' = TRUE /\ run_no' = run_no + 1
    /\ wire' \in BOOLEAN /\ named' \in BusNames
    /\ UNCHANGED <<can, lin, user>>

-------------------------------------------------------------------------------
(* Reading the channel: every frame read goes through the handle's listeners *)

\* A frame that completes a message, one that ends a transfer badly, or one that does neither.
Full(n) == n = _QUEUE
Fed ==
    {eng} \cup
    IF ~eng.on \/ eng.made = MaxMade THEN {} ELSE
        {[eng EXCEPT !.made = @ + 1, !.messages = IF Full(@) THEN @ ELSE @ + 1,
                     !.dropped = IF Full(eng.messages) THEN @ + 1 ELSE @],
         [eng EXCEPT !.made = @ + 1, !.faults = IF Full(@) THEN @ ELSE @ + 1,
                     !.dropped = IF Full(eng.faults) THEN @ + 1 ELSE @]}

\* Channel.recv with nothing asked of the listeners.
Recv ==
    /\ At("idle") /\ Free /\ Use
    /\ UseHandle /\ nm' = NmOf
    /\ IF handle # 0 THEN eng' \in Fed ELSE eng' = Opened(j1939, nm)
    /\ UNCHANGED <<run_no, started, wire, named, j1939, lin, user>>

SameRun == run_no = user.run

\* _frames_until: a handle of its own for the whole wait, in the run it began in ...
ReadBegins(next) ==
    /\ Free /\ SameRun /\ Use
    /\ UseHandle /\ eng' = EngOf(nm) /\ nm' = NmOf
    /\ user' = [user EXCEPT !.pc = next, !.fh = Used]

\* ... which reads a frame, or finds nothing until the deadline has passed.
ReadGoesOn(next) == handle = user.fh /\ SameRun /\ eng' \in Fed /\ user' = [user EXCEPT !.pc = next]

-------------------------------------------------------------------------------
(* J1939Listener *)

\* Mutant: what was kept of the handle before stays.
KeepsListening(j, h) == [j EXCEPT !.h = h]

\* _handle: what was kept of another handle's reading is let go.
Listening(j, h) == IF j.h = h THEN j ELSE [j EXCEPT !.h = h, !.kept = 0, !.lost = 0]

\* bb_j1939_attach begins a reading where the handle has none.
Heard(e) == [e EXCEPT !.on = TRUE]

\* Channel.j1939: the handle already open listens from now on.
AskJ1939 ==
    /\ At("idle") /\ Free /\ ~j1939.asked
    /\ j1939' = [IF handle = 0 THEN j1939 ELSE Listening(j1939, handle) EXCEPT !.asked = TRUE]
    /\ eng' = IF handle = 0 THEN eng ELSE Heard(eng)
    /\ UNCHANGED <<run_no, started, wire, named, handle, handles, nm, lin, user>>

\* messages, expect_pgn (_until), faults, addresses, dropped: the handle, listening, and the run.
JBegin(op) ==
    /\ At("idle") /\ Free /\ j1939.asked /\ Use
    /\ UseHandle /\ nm' = NmOf
    /\ eng' = Heard(EngOf(nm)) /\ j1939' = Listening(j1939, Used)
    /\ user' = [Idle EXCEPT !.pc = CASE op = "faults" -> "pull" [] op = "addresses" -> "read" [] OTHER -> "take",
                            !.op = op, !.run = run_no, !.h = Used]
    /\ UNCHANGED <<run_no, started, wire, named, lin>>

\* _take: every message waiting or, with a match, those up to the first that matches.
Take ==
    /\ At("take") /\ Free /\ SameRun /\ handle = user.h
    /\ \E n \in 0 .. eng.messages, matched \in BOOLEAN :
        /\ user.op = "messages" => n = eng.messages /\ matched = (n > 0)
        /\ IF matched THEN n > 0 ELSE n = eng.messages
        /\ eng' = [eng EXCEPT !.messages = @ - n, !.given = @ + n]
        /\ user' = [user EXCEPT !.pc = "pull", !.got = matched]
    /\ UNCHANGED <<run_no, started, wire, named, handle, handles, j1939, nm, lin>>

\* _pull_faults, without the lock: the oldest goes when the deque is full, counted.
Pulled(j, n) ==
    [j EXCEPT !.kept = Min({_QUEUE, j.kept + n}), !.lost = j.lost + Max({0, j.kept + n - _QUEUE})]

Pull ==
    LET pulled == Pulled(j1939, eng.faults)
    IN  /\ At("pull") /\ handle = user.h
        /\ IF user.op = "faults"     \* they are handed out
           THEN /\ eng' = [eng EXCEPT !.faults = 0, !.given = @ + pulled.kept]
                /\ j1939' = [pulled EXCEPT !.kept = 0]
           ELSE /\ eng' = [eng EXCEPT !.faults = 0]
                /\ j1939' = pulled
        /\ user' = CASE user.op = "faults" \/ user.got -> Idle
                     [] OTHER -> [user EXCEPT !.pc = IF user.fh = 0 THEN "read" ELSE "reading"]
        /\ UNCHANGED <<run_no, started, wire, named, handle, handles, nm, lin>>

\* The wait between takes; past the deadline there is one take more, then [] or Timeout.
JRead ==
    /\ user.op \in {"messages", "expect_pgn"}
    /\ \/ At("read") /\ ReadBegins("reading") /\ UNCHANGED j1939
       \/ At("reading") /\ ReadGoesOn("take") /\ UNCHANGED <<handle, handles, j1939, nm>>
       \/ At("reading") /\ Return /\ UNCHANGED can
    /\ UNCHANGED <<run_no, started, wire, named, lin>>

\* addresses: the window read, then the directory of the window's run.
Addresses ==
    /\ user.op = "addresses"
    /\ \/ At("read") /\ ReadBegins("reading") /\ UNCHANGED j1939
       \/ At("reading") /\ ReadGoesOn("reading") /\ UNCHANGED <<handle, handles, j1939, nm>>
       \/ /\ At("reading") /\ Free /\ SameRun /\ Use
          /\ UseHandle /\ nm' = NmOf
          /\ eng' = Heard(EngOf(nm)) /\ j1939' = Listening(j1939, Used)
          /\ Return
    /\ UNCHANGED <<run_no, started, wire, named, lin>>

-------------------------------------------------------------------------------
(* NmListener: the newest of the channel is the one the script uses *)

\* Channel.nm: refused, and nothing changed, where the wire has no configuration.
AskNm(states) ==
    LET was == EngOf(nm).nm
        n == [states |-> states, h |-> Used]
    IN  /\ At("idle") /\ Free /\ Use
        /\ UseHandle
        /\ eng' = [EngOf(nm) EXCEPT !.nm = Attached(states, was)]
        /\ nm' = IF states = "wire" /\ ~wire THEN NmOf ELSE n
        /\ UNCHANGED <<run_no, started, wire, named, j1939, lin, user>>

\* reading and its properties, expect and expect_state (_until): the channel's handle ...
NmBegin(op) ==
    /\ At("idle") /\ Free /\ nm.states # "none" /\ Use
    /\ UseHandle /\ eng' = EngOf(nm) /\ nm' = NmOf
    /\ user' = [Idle EXCEPT !.pc = "attach", !.op = op, !.run = run_no, !.h = Used]
    /\ UNCHANGED <<run_no, started, wire, named, j1939, lin>>

\* ... bound to this listener's configuration, unless it is the one it was bound to ...
NmAttach ==
    /\ At("attach") /\ handle = user.h
    /\ IF nm.h = user.h
       THEN UNCHANGED <<eng, nm>>
       ELSE /\ Free /\ (nm.states = "wire" => wire)
            /\ eng' = [eng EXCEPT !.nm = Attached(nm.states, eng.nm)]
            /\ nm' = [nm EXCEPT !.h = user.h]
    /\ user' = [user EXCEPT !.pc = IF user.op = "nm_look" THEN "view" ELSE "read"]
    /\ UNCHANGED <<run_no, started, wire, named, handle, handles, j1939, lin>>

\* ... read for a while, and asked.
NmRead ==
    /\ user.op = "nm_until"
    /\ \/ At("read") /\ ReadBegins("reading") /\ UNCHANGED j1939
       \/ At("reading") /\ ReadGoesOn("view") /\ UNCHANGED <<handle, handles, j1939, nm>>
    /\ UNCHANGED <<run_no, started, wire, named, lin>>

NmView ==
    /\ At("view") /\ handle = user.h /\ eng.nm # "none"
    /\ \/ user' = [user EXCEPT !.pc = "told", !.told = eng.nm]
       \/ user.op = "nm_until" /\ user' = [user EXCEPT !.pc = "reading"]     \* not what was expected
    /\ UNCHANGED <<run_no, started, wire, named, can, lin>>

-------------------------------------------------------------------------------
(* LinBus *)

MayTap == Len(tap) < MaxTaps
LetGo(taps, t) == [u \in DOMAIN taps |-> IF u = t THEN [taps[u] EXCEPT !.open = FALSE] ELSE taps[u]]

\* Project.lin (listed): the object of the run before, while the name at the position is its own.
ListLin ==
    LET kept == listed.b # 0 /\ bus[listed.b].name = named
    IN  /\ At("idle") /\ Free /\ started /\ listed.run # run_no
        /\ \/ kept /\ bus' = bus /\ listed' = [listed EXCEPT !.run = run_no]
           \/ /\ ~kept /\ Len(bus) < MaxBuses
              /\ bus' = Append(bus, [own |-> FALSE, name |-> named, h |-> 0, run |-> 0, closed |-> FALSE, held |-> TRUE])
              /\ listed' = [b |-> Len(bus) + 1, run |-> run_no]
        /\ UNCHANGED <<run_no, started, wire, named, can, tap, orphans, closing, user>>

\* lin.open: a bus of the script's own.
OpenLin ==
    /\ At("idle") /\ Free /\ MayTap /\ Len(bus) < MaxBuses
    /\ tap' = Append(OrphansClosed, [own |-> TRUE, name |-> "own", run |-> 0, open |-> TRUE])
    /\ orphans' = {}
    /\ bus' = Append(bus, [own |-> TRUE, name |-> "own", h |-> Len(tap) + 1, run |-> 0, closed |-> FALSE, held |-> TRUE])
    /\ UNCHANGED <<run_no, started, wire, named, can, listed, closing, user>>

\* _handle without the lock: a bus of its own that is open, or a tap of this run.
Current(b) == bus[b].h # 0 /\ (bus[b].own \/ bus[b].run = run_no)

\* Mutant: the bus at the position, whatever its name is in this run.
AnyAtItsPosition(b) == started
\* ... or under it, with the tap of an earlier run let go: this run's bus, if it still has the name.
AtItsPosition(b) == started /\ named = bus[b].name

Tapped(b) == Append(LetGo(OrphansClosed, bus[b].h), [own |-> FALSE, name |-> named, run |-> run_no, open |-> TRUE])

LinWaits(b, t) == user' = [Idle EXCEPT !.pc = "lin", !.op = "lin", !.run = run_no, !.h = t, !.fh = b]

\* recv, expect and the other calls: one handle for the whole call.
LinCall(b) ==
    /\ At("idle") /\ bus[b].held
    /\ IF Current(b)
       THEN LinWaits(b, bus[b].h) /\ UNCHANGED <<bus, tap, orphans>>
       ELSE /\ Free /\ ~bus[b].own
            /\ orphans' = {}
            /\ IF AtItsPosition(b)
               THEN /\ MayTap
                    /\ tap' = Tapped(b)
                    /\ bus' = [bus EXCEPT ![b].h = Len(tap) + 1, ![b].run = run_no]
                    /\ LinWaits(b, Len(tap) + 1)
               ELSE /\ tap' = LetGo(OrphansClosed, bus[b].h)
                    /\ bus' = [bus EXCEPT ![b].h = 0]
                    /\ UNCHANGED user
    /\ UNCHANGED <<run_no, started, wire, named, can, listed, closing>>

\* with_lin: a handle of the table, not closing, of the run that is on.
Live(t) == tap[t].open /\ closing # t /\ (tap[t].own \/ (started /\ tap[t].run = run_no))

\* The call goes into the library ...
LinEnter ==
    /\ At("lin") /\ Live(user.h)
    /\ user' = [user EXCEPT !.pc = "inside"]
    /\ UNCHANGED <<run_no, started, wire, named, can, lin>>

\* ... and leaves it with a frame, or after a slice, to ask again or not.
LinLeave ==
    /\ At("inside")
    /\ \/ Live(user.h) /\ user' = [user EXCEPT !.pc = "told"]
       \/ user' = [user EXCEPT !.pc = "lin"]
    /\ UNCHANGED <<run_no, started, wire, named, can, lin>>

\* LinBus.close, from the other thread: off the table at once, untapped once the call inside has left.
CloseLin(b) ==
    /\ Free /\ bus[b].held /\ bus[b].h # 0
    /\ closing' = bus[b].h
    /\ bus' = [bus EXCEPT ![b].h = 0, ![b].closed = bus[b].own]
    /\ tap' = OrphansClosed /\ orphans' = {}
    /\ UNCHANGED <<run_no, started, wire, named, can, listed, user>>

Untapped == ~(At("inside") /\ user.h = closing)

CloseLinEnds ==
    /\ closing # 0 /\ Untapped
    /\ tap' = LetGo(tap, closing) /\ closing' = 0
    /\ UNCHANGED <<run_no, started, wire, named, can, bus, listed, orphans, user>>

\* __del__: its tap is closed by the next call that opens or closes one.
Collect(b) ==
    /\ bus[b].held /\ listed.b # b /\ (user.op = "lin" => user.fh # b)
    /\ bus' = [bus EXCEPT ![b].held = FALSE, ![b].h = 0]
    /\ orphans' = IF bus[b].h = 0 THEN orphans ELSE orphans \cup {bus[b].h}
    /\ UNCHANGED <<run_no, started, wire, named, can, listed, tap, closing, user>>

-------------------------------------------------------------------------------

\* A call ends without a result: refused by a handle that is closed or another run's, out of time,
\* or interrupted.
Raise ==
    /\ user.pc \notin {"idle", "told", "inside"}
    /\ Return
    /\ UNCHANGED <<run_no, started, wire, named, can, lin>>

Told ==
    /\ At("told") /\ Return
    /\ UNCHANGED <<run_no, started, wire, named, can, lin>>

Channel ==
    \/ Close \/ Recv
    \/ AskJ1939 \/ \E op \in {"messages", "expect_pgn", "faults", "addresses"} : JBegin(op)
    \/ Take \/ Pull \/ JRead \/ Addresses
    \/ \E states \in Ranges \cup {"wire"} : AskNm(states)
    \/ \E op \in {"nm_look", "nm_until"} : NmBegin(op)
    \/ NmAttach \/ NmRead \/ NmView

Lin ==
    \/ ListLin \/ OpenLin \/ LinEnter \/ LinLeave \/ CloseLinEnds
    \/ \E b \in DOMAIN bus : LinCall(b) \/ CloseLin(b) \/ Collect(b)

ReadingsNext ==
    /\ StopProject \/ StartProject \/ Raise \/ Told \/ (part = "channel" /\ Channel) \/ (part = "lin" /\ Lin)
    /\ UNCHANGED part

ReadingsSpec == ReadingsInit /\ [][ReadingsNext]_readingsVars

\* A slice inside a tap ends by itself, and a call on a closed tap raises.
FairReadingsSpec ==
    /\ ReadingsSpec
    /\ WF_readingsVars(LinLeave /\ UNCHANGED part) /\ WF_readingsVars(CloseLinEnds /\ UNCHANGED part)

-------------------------------------------------------------------------------

\* The values of the variables, and the type invariant.
States == Ranges \cup {"none", "wire"}
Reading == [on : BOOLEAN, messages : 0 .. _QUEUE, faults : 0 .. _QUEUE,
            dropped : Nat, made : Nat, given : Nat, nm : States]
Listener == [asked : BOOLEAN, h : Nat, kept : 0 .. _QUEUE, lost : Nat]
Bus == [own : BOOLEAN, name : BusNames \cup {"own"}, h : Nat, run : Nat, closed : BOOLEAN, held : BOOLEAN]
Tap == [own : BOOLEAN, name : BusNames \cup {"own"}, run : Nat, open : BOOLEAN]
Steps == {"idle", "take", "pull", "read", "reading", "attach", "view", "told", "lin", "inside"}
Operations == {"none", "messages", "expect_pgn", "faults", "addresses", "nm_look", "nm_until", "lin"}
UserState == [pc : Steps, op : Operations, run : Nat, h : Nat, fh : Nat, got : BOOLEAN, told : States]

\* Types: in particular the queues of a reading and of a listener stay within their bound.
ReadingsTypeOK ==
    /\ run_no \in Nat /\ started \in BOOLEAN /\ wire \in BOOLEAN /\ named \in BusNames
    /\ handles \in Nat /\ handle \in 0 .. handles
    /\ eng \in Reading /\ j1939 \in Listener /\ nm \in [states : States, h : Nat]
    /\ bus \in Seq(Bus) /\ listed \in [b : 0 .. Len(bus), run : Nat]
    /\ tap \in Seq(Tap) /\ orphans \subseteq DOMAIN tap /\ closing \in 0 .. Len(tap)
    /\ user \in UserState

\* J1939Listener.dropped: what the open handle's reading completed was handed out, waits in the
\* library or in the listener, or is counted dropped, over closes and reopenings by either thread.
NothingUncounted ==
    handle # 0 /\ j1939.h = handle =>
        eng.made = eng.given + eng.messages + eng.faults + j1939.kept + eng.dropped + j1939.lost

\* An NM reading is by what the channel's newest listener states, whoever opened the handle since.
ReadsAsStated == At("told") /\ user.op # "lin" => user.told = nm.states

\* A LinBus returns frames of the bus it is named for in the run its call began in, or of its own.
LinReadsItsOwn ==
    At("told") /\ user.op = "lin" =>
        LET t == tap[user.h] IN t.name = bus[user.fh].name /\ (t.own \/ t.run = user.run)

\* A tap that is open is some object's, an orphan the next call closes, or being closed.
NoTapLost ==
    \A t \in DOMAIN tap : tap[t].open =>
        t \in orphans \/ t = closing \/ \E b \in DOMAIN bus : bus[b].h = t

\* LinBus.close ends, though it holds the lock while it waits for the call in the tap.
CloseEnds == closing # 0 ~> closing = 0
================================================================================
