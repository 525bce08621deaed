------------------------------ MODULE SharedPark ------------------------------
(***************************************************************************)
(* One running generation of the shared hub over a plain driver (PCAN),    *)
(* one that reports no transmit acknowledgements, so its reader PARKS      *)
(* while nobody listens (blobly/transport/shared.v, tx_acks = false).      *)
(*                                                                         *)
(* Threads: the sole reader (read_loop); per handle one caller (open,      *)
(* send, recv, diagnostics, one call at a time) and one closer (close,     *)
(* which the code allows while a call is in progress).  A step is one      *)
(* critical section of e.mu, or one driver call made under drain_mu.       *)
(*                                                                         *)
(* A frame is its arrival number at the driver.  Time is abstract: Age     *)
(* ends a handle's attentive second, a timed wait may end at any moment -  *)
(* the park too, so `kick`, which only ends it sooner, is no variable.     *)
(***************************************************************************)
EXTENDS SharedRing, Sequences

CONSTANTS Handles,        \* logical handles that may be opened on the wire
          Reader, Nobody, \* lock owners that are not handles
          Scripts,        \* what callers may do in a behaviour: the calls they make, whether the
                          \* adapter may be unplugged, and a bound on the frames the wire delivers
          SerialCallers,  \* TRUE: nobody closes a handle while a call on it is in progress
          Storms,         \* TRUE: a drain may stop at a storm of filtered records
          DriverQueue,    \* the driver's receive queue (32768 frames on PCAN)
          BoundaryFrames  \* shared_boundary_drain_frames (65536)

ASSUME ParkAssumption ==
    /\ IsFiniteSet(Handles)
    /\ Reader \notin Handles /\ Nobody \notin Handles /\ Reader # Nobody
    /\ Scripts \subseteq [calls : SUBSET {"send", "recv", "look", "wait", "diagnostics"},
                          breaks : BOOLEAN, frames : Nat]
    /\ {SerialCallers, Storms} \subseteq BOOLEAN
    /\ DriverQueue \in Nat \ {0} /\ BoundaryFrames \in Nat
    /\ BoundaryFrames >= DriverQueue

VARIABLES
    state, refs, terminal, raw_closed,          \* SharedEntry lifecycle
    done,                                       \* its capacity-one channel
    ring, next_seq, subs, cursors, ring_gaps,   \* its ring and the wire's view of the cursors
    unread, pending_admit,                      \* who counts as listening
    drain_mu, send_mu,
    reader,     \* the reader thread: [pc, n], n frames read in this batch
    caller,     \* per handle, the call in progress: [pc, op, pub, n, read]
    closer,     \* per handle, close(): [pc, sub], sub is its was_subscribed
    handle,     \* SharedHandle: [closed, subscribed, cursor, dropped, wake]
    rxq, broken, arrived,                       \* the driver: queue, unplugged, frames so far
    script,     \* what the callers of this behaviour do
    ghost       \* history, never read by an action: see Ghosts

life    == <<state, refs, terminal, raw_closed>>
rings   == <<ring, next_seq, subs, cursors, ring_gaps>>
heard   == <<unread, pending_admit>>
driver  == <<rxq, broken, arrived, script>>
threads == <<reader, caller, closer>>
vars    == <<life, done, rings, heard, drain_mu, send_mu, threads, handle, driver, ghost>>

RecvOps == {"recv", "look", "wait"}     \* recv(ms), recv(0), recv(-1)

(***************************************************************************)
(* Ghosts.  since: how many frames had arrived when the handle became one  *)
(* the wire owes frames to, and how: "lock" under drain_mu (or by the      *)
(* first open), "stamp" by a refresh that takes no drain_mu, "none".       *)
(* began: arrivals when its boundary drain began; floor: frames up to here *)
(* are from before the boundary that drain established (0: none was);      *)
(* opened: arrivals when it was inserted, if the reader was parked then.   *)
(***************************************************************************)
Ghosts == [since : Nat, how : {"lock", "stamp", "none"}, began : Nat, floor : Nat, opened : Nat]

NoGhost == [since |-> 0, how |-> "none", began |-> 0, floor |-> 0, opened |-> 0]

NoCall(at) == [pc |-> at, op |-> "none", pub |-> FALSE, n |-> 0, read |-> 0]
SharedHandle == [closed |-> FALSE, subscribed |-> FALSE, cursor |-> 1, dropped |-> 0, wake |-> FALSE]

\* The state shared_open_events leaves: `running`, one handle, its second just begun.
Init ==
    \E first \in Handles :
        /\ state = "running" /\ refs = 1 /\ terminal = FALSE /\ raw_closed = FALSE
        /\ done = FALSE
        /\ ring = [i \in 0 .. (Capacity - 1) |-> [seq |-> 0, arr |-> 0, origin |-> Nobody]]
        /\ next_seq = 1 /\ subs = {} /\ cursors = [h \in Handles |-> 0] /\ ring_gaps = 0
        /\ unread = [h \in Handles |-> IF h = first THEN "fresh" ELSE "absent"]
        /\ pending_admit = {} /\ drain_mu = Nobody /\ send_mu = Nobody
        /\ reader = [pc |-> "check", n |-> 0]
        /\ caller = [h \in Handles |-> NoCall(IF h = first THEN "idle" ELSE "none")]
        /\ closer = [h \in Handles |-> [pc |-> "open", sub |-> FALSE]]
        /\ handle = [h \in Handles |-> SharedHandle]
        /\ rxq = <<>> /\ broken = FALSE /\ arrived = 0 /\ script \in Scripts
        /\ ghost = [h \in Handles |-> [NoGhost EXCEPT !.how = IF h = first THEN "lock" ELSE "none"]]

readers_locked   == subs # {} \/ \E h \in Handles : unread[h] = "fresh"
attentive_locked == readers_locked \/ pending_admit # {}

\* recv holds h.mu from its first look at the handle until it has registered or given up.
HeldByRecv(h) == caller[h].op \in RecvOps
                 /\ caller[h].pc \in {"rlock", "batch", "look", "register", "finishing", "awaitdone"}

Woken(hd, S) == [h \in Handles |-> IF h \in S THEN [hd[h] EXCEPT !.wake = TRUE] ELSE hd[h]]

\* A driver call on an unplugged or released adapter is a fatal error.
Fatal == broken \/ raw_closed

\* The first half of fail_and_close; finish_close is the second.
MarkFailed ==
    /\ state' = IF state = "running" THEN "failed" ELSE state
    /\ terminal' = (terminal \/ state = "running")
    /\ handle' = IF state = "running" THEN Woken(handle, subs) ELSE handle
    /\ UNCHANGED <<refs, raw_closed>>

finish_close ==
    /\ state' = "closed" /\ raw_closed' = TRUE
    /\ UNCHANGED <<refs, terminal>>

\* The ring's record of an external frame.
Record(arr) == [seq |-> next_seq, arr |-> arr, origin |-> Nobody]

-------------------------------------------------------------------------------
(* The reader: read_loop *)

ReaderAt(from, to) == reader.pc = from /\ reader' = [pc |-> to, n |-> 0]

\* Every way out of the loop ends in `e.done <- true`.
ReaderExits(from) == ReaderAt(from, "exited") /\ done' = TRUE

ReaderStops ==
    /\ state # "running"
    /\ ReaderExits("check")
    /\ UNCHANGED <<life, rings, heard, drain_mu, send_mu, caller, closer, handle, driver, ghost>>

ReaderParks ==
    /\ state = "running" /\ ~attentive_locked
    /\ ReaderAt("check", "parked")
    /\ UNCHANGED <<life, done, rings, heard, drain_mu, send_mu, caller, closer, handle, driver, ghost>>

ReaderResumes ==
    /\ state = "running" /\ attentive_locked
    /\ ReaderAt("check", "lock")
    /\ UNCHANGED <<life, done, rings, heard, drain_mu, send_mu, caller, closer, handle, driver, ghost>>

\* A kick or the drain period ends the park; a generation that is no longer ours ends the loop.
ReaderUnparks ==
    /\ \/ state = "running" /\ ReaderAt("parked", "drain_lock") /\ UNCHANGED done
       \/ state # "running" /\ ReaderAt("parked", "exited") /\ done' = TRUE
    /\ UNCHANGED <<life, rings, heard, drain_mu, send_mu, caller, closer, handle, driver, ghost>>

\* Mutant: the batch does not ask whether anybody listens by now.
ReaderBatch_blind ==
    /\ drain_mu = Nobody /\ drain_mu' = Reader /\ ReaderAt("drain_lock", "drain")
    /\ UNCHANGED <<life, done, rings, heard, send_mu, caller, closer, handle, driver, ghost>>

\* drain_parked(false, false): one batch, refused at its start if anybody listens.
ReaderBatch ==
    /\ drain_mu = Nobody
    /\ \/ ReaderAt("drain_lock", "check") /\ attentive_locked /\ UNCHANGED drain_mu
       \/ ReaderAt("drain_lock", "drain") /\ ~attentive_locked /\ drain_mu' = Reader
    /\ UNCHANGED <<life, done, rings, heard, send_mu, caller, closer, handle, driver, ghost>>

\* One zero-timeout read of the batch: the frame is thrown away.
ReaderDiscards ==
    /\ reader.pc = "drain" /\ ~Fatal /\ rxq # <<>>
    /\ rxq' = Tail(rxq)
    /\ IF reader.n + 1 < Capacity
       THEN reader' = [reader EXCEPT !.n = @ + 1] /\ UNCHANGED drain_mu
       ELSE /\ drain_mu' = Nobody
            /\ reader' = [pc |-> IF state # "running" \/ attentive_locked
                                 THEN "check" ELSE "drain_lock", n |-> 0]
    /\ UNCHANGED <<life, done, rings, heard, send_mu, caller, closer, handle, broken, arrived, script, ghost>>

\* The queue is empty, or shared_spent_looks looks in a row met only filtered records.
ReaderDrained ==
    /\ ~Fatal /\ (rxq = <<>> \/ Storms)
    /\ ReaderAt("drain", "check") /\ drain_mu' = Nobody
    /\ UNCHANGED <<life, done, rings, heard, send_mu, caller, closer, handle, driver, ghost>>

\* drain_mu is released before the failure is taken.
ReaderDrainFails ==
    /\ Fatal /\ ReaderAt("drain", "failing") /\ drain_mu' = Nobody
    /\ UNCHANGED <<life, done, rings, heard, send_mu, caller, closer, handle, driver, ghost>>

ReaderFails ==
    /\ ReaderAt("failing", "finishing") /\ MarkFailed
    /\ UNCHANGED <<done, rings, heard, drain_mu, send_mu, caller, closer, driver, ghost>>

ReaderLocks ==
    /\ drain_mu = Nobody /\ drain_mu' = Reader /\ ReaderAt("lock", "reading")
    /\ UNCHANGED <<life, done, rings, heard, send_mu, caller, closer, handle, driver, ghost>>

\* recv_shared(50) has a frame: committed under drain_mu, dropped if the wire is closing.
ReaderCommits ==
    /\ ~Fatal /\ rxq # <<>> /\ ReaderAt("reading", "check")
    /\ rxq' = Tail(rxq) /\ drain_mu' = Nobody
    /\ IF state = "running"
       THEN /\ ring' = Put(ring, next_seq, Record(Head(rxq)))
            /\ next_seq' = next_seq + 1
            /\ handle' = Woken(handle, subs)
       ELSE UNCHANGED <<ring, next_seq, handle>>
    /\ UNCHANGED <<life, done, subs, cursors, ring_gaps, heard, send_mu, caller, closer, broken,
                   arrived, script, ghost>>

\* It timed out, or failed on a wire that is already going away.
ReaderTimesOut ==
    /\ drain_mu' = Nobody
    /\ \/ state = "running" /\ ~Fatal /\ rxq = <<>> /\ ReaderAt("reading", "check") /\ UNCHANGED done
       \/ state # "running" /\ (Fatal \/ rxq = <<>>) /\ ReaderAt("reading", "exited") /\ done' = TRUE
    /\ UNCHANGED <<life, rings, heard, send_mu, caller, closer, handle, driver, ghost>>

\* It failed on a running wire: the failure is taken with drain_mu held.
ReaderReadFails ==
    /\ state = "running" /\ Fatal /\ ReaderAt("reading", "finishing") /\ MarkFailed
    /\ UNCHANGED <<done, rings, heard, drain_mu, send_mu, caller, closer, driver, ghost>>

ReaderFinishes ==
    /\ ReaderExits("finishing") /\ finish_close
    /\ drain_mu' = IF drain_mu = Reader THEN Nobody ELSE drain_mu
    /\ UNCHANGED <<rings, heard, send_mu, caller, closer, handle, driver, ghost>>

ReaderStep ==
    \/ ReaderStops \/ ReaderParks \/ ReaderResumes \/ ReaderUnparks \/ ReaderBatch
    \/ ReaderDiscards \/ ReaderDrained \/ ReaderDrainFails \/ ReaderFails \/ ReaderLocks
    \/ ReaderCommits \/ ReaderTimesOut \/ ReaderReadFails \/ ReaderFinishes

-------------------------------------------------------------------------------
(* Opening onto a running wire, and the boundary a handle drains for itself *)

CallerAt(h, from, to) == caller[h].pc = from /\ caller' = [caller EXCEPT ![h].pc = to]
CallEnds(h, to) == caller' = [caller EXCEPT ![h] = NoCall(to)]

\* shared_open_events finds the key running: inserted under e.mu, cursor at the tail.
Join(h) ==
    /\ state = "running" /\ caller[h].pc = "none"
    /\ refs' = refs + 1 /\ pending_admit' = pending_admit \cup {h}
    /\ handle' = [handle EXCEPT ![h].cursor = next_seq]
    /\ caller' = [caller EXCEPT ![h].pc = "admit", ![h].op = "join"]
    /\ ghost' = [ghost EXCEPT ![h].opened = IF reader.pc = "parked" /\ ~attentive_locked
                                                  THEN arrived ELSE 0]
    /\ UNCHANGED <<state, terminal, raw_closed, done, rings, unread, drain_mu, send_mu, reader,
                   closer, driver>>

\* admit, a generation that failed meanwhile: nobody is admitted.
AdmitRefused(h) ==
    /\ caller[h].pc = "admit" /\ drain_mu = Nobody /\ state # "running"
    /\ pending_admit' = pending_admit \ {h}
    /\ CallEnds(h, IF caller[h].op = "join" THEN "joinfail" ELSE "idle")
    /\ UNCHANGED <<life, done, rings, unread, drain_mu, send_mu, reader, closer, handle, driver, ghost>>

\* admit, somebody is reading: nothing to drain, the cursor stands.
AdmitAttentive(h) ==
    /\ drain_mu = Nobody /\ state = "running" /\ readers_locked
    /\ CallerAt(h, "admit", "admitted") /\ drain_mu' = h
    /\ UNCHANGED <<life, done, rings, heard, send_mu, reader, closer, handle, driver, ghost>>

\* admit, the wire is parked: drain first, publishing if another join is pending.
AdmitParked(h) ==
    /\ caller[h].pc = "admit" /\ drain_mu = Nobody /\ state = "running" /\ ~readers_locked
    /\ drain_mu' = h
    /\ caller' = [caller EXCEPT ![h].pc = "batch", ![h].pub = (pending_admit \ {h} # {})]
    /\ ghost' = [ghost EXCEPT ![h].began = arrived]
    /\ UNCHANGED <<life, done, rings, heard, send_mu, reader, closer, handle, driver>>

\* drain_boundary is over: the cursor is taken at the tail, drain_mu still held.
Established(h, floor) ==
    /\ caller' = [caller EXCEPT ![h] =
                    [NoCall(IF caller[h].op \in RecvOps THEN "register" ELSE "admitted")
                        EXCEPT !.op = caller[h].op]]
    /\ handle' = [handle EXCEPT ![h].cursor = next_seq]
    /\ ghost' = [ghost EXCEPT ![h].floor = IF floor > @ THEN floor ELSE @, ![h].began = 0]

\* Mutant: a drain bounded by time takes whatever batch it stopped after for its boundary.
BatchEnds_on_budget(h) ==
    /\ caller[h].pc = "batch" /\ Established(h, ghost[h].began)
    /\ UNCHANGED <<life, done, rings, heard, drain_mu, send_mu, reader, closer, driver>>

\* drain_boundary between two batches: the frame count or a reader ends it, a receive's
\* budget gives it up (recv returns `timeout`), or the next batch begins.  A look has no
\* count: it runs one batch.
BatchEnds(h) ==
    /\ caller[h].pc = "batch"
    /\ \/ caller[h].read >= BoundaryFrames /\ Established(h, ghost[h].began)
       \/ caller[h].read < BoundaryFrames /\ readers_locked /\ Established(h, 0)
    /\ UNCHANGED <<life, done, rings, heard, drain_mu, send_mu, reader, closer, driver>>

BatchGivesUp(h) ==
    /\ caller[h].pc = "batch" /\ caller[h].op = "recv"
    /\ CallEnds(h, "idle") /\ drain_mu' = Nobody
    /\ UNCHANGED <<life, done, rings, heard, send_mu, reader, closer, handle, driver, ghost>>

BatchBegins(h) ==
    /\ caller[h].read < BoundaryFrames /\ ~readers_locked /\ CallerAt(h, "batch", "look")
    /\ UNCHANGED <<life, done, rings, heard, drain_mu, send_mu, reader, closer, handle, driver, ghost>>

\* One zero-timeout read of a boundary drain: published for a pending join, else discarded.
\* A full batch is a look's (approximate) boundary; a drain begins another.
BoundaryRead(h) ==
    LET full    == caller[h].n + 1 = Capacity
        looked  == full /\ caller[h].op = "look"
        publish == caller[h].pub /\ state = "running"
        next    == IF publish THEN next_seq + 1 ELSE next_seq
        more    == IF caller[h].pub THEN 1 ELSE Capacity
    IN  /\ caller[h].pc = "look" /\ ~Fatal /\ rxq # <<>>
        /\ rxq' = Tail(rxq)
        /\ ring' = IF publish THEN Put(ring, next_seq, Record(Head(rxq))) ELSE ring
        /\ next_seq' = next
        /\ handle' = [(IF publish THEN Woken(handle, subs) ELSE handle)
                        EXCEPT ![h].cursor = IF looked THEN next ELSE @]
        /\ caller' = [caller EXCEPT ![h] =
                IF looked THEN [NoCall("register") EXCEPT !.op = "look"]
                ELSE IF full THEN [@ EXCEPT !.pc = "batch", !.n = 0, !.read = caller[h].read + more]
                ELSE [@ EXCEPT !.n = caller[h].n + 1]]
        /\ UNCHANGED <<life, done, subs, cursors, ring_gaps, heard, drain_mu, send_mu, reader,
                       closer, broken, arrived, script, ghost>>

BoundaryEmpty(h) ==
    /\ caller[h].pc = "look" /\ ~Fatal
    /\ \/ rxq = <<>> /\ Established(h, arrived)
       \/ rxq # <<>> /\ Storms /\ Established(h, 0)
    /\ UNCHANGED <<life, done, rings, heard, drain_mu, send_mu, reader, closer, driver>>

\* A fatal read: the generation fails under drain_mu, the reader's exit is awaited outside it.
BoundaryFails(h) ==
    /\ Fatal /\ CallerAt(h, "look", "finishing") /\ MarkFailed
    /\ UNCHANGED <<done, rings, heard, drain_mu, send_mu, reader, closer, driver, ghost>>

BoundaryFinishes(h) ==
    /\ CallerAt(h, "finishing", "awaitdone") /\ finish_close
    /\ pending_admit' = pending_admit \ {h} /\ drain_mu' = Nobody
    /\ UNCHANGED <<done, rings, unread, send_mu, reader, closer, handle, driver, ghost>>

AwaitDone(h) ==
    /\ caller[h].pc = "awaitdone" /\ done /\ done' = FALSE
    /\ CallEnds(h, IF caller[h].op = "join" THEN "joinfail" ELSE "idle")
    /\ UNCHANGED <<life, rings, heard, drain_mu, send_mu, reader, closer, handle, driver, ghost>>

\* The handle now counts; a parked reader is woken.
Admitted(h) ==
    /\ caller[h].pc = "admitted"
    /\ unread' = [unread EXCEPT ![h] = "fresh"] /\ pending_admit' = pending_admit \ {h}
    /\ drain_mu' = Nobody
    /\ caller' = [caller EXCEPT ![h].pc = IF caller[h].op = "join" THEN "joined" ELSE "write"]
    /\ ghost' = [ghost EXCEPT ![h] = IF @.how = "lock" THEN @
                                     ELSE [@ EXCEPT !.since = arrived, !.how = "lock"]]
    /\ UNCHANGED <<life, done, rings, send_mu, reader, closer, handle, driver>>

\* A stamp outside drain_mu: it counts from now on, but a batch under way does not know.
Stamped(h) ==
    /\ unread' = [unread EXCEPT ![h] = "fresh"]
    /\ ghost' = [ghost EXCEPT ![h] = IF @.how # "none" THEN @
                                     ELSE [@ EXCEPT !.since = arrived, !.how = "stamp"]]

\* The join's reconcile_silence: refused, the handle is closed again; else touch and return.
JoinReturns(h) ==
    /\ caller[h].pc = "joined"
    /\ \/ CallEnds(h, "joinfail") /\ UNCHANGED <<unread, ghost>>
       \/ /\ CallEnds(h, "idle")
          /\ IF state = "running" /\ unread[h] # "absent" THEN Stamped(h) ELSE UNCHANGED <<unread, ghost>>
    /\ UNCHANGED <<life, done, rings, pending_admit, drain_mu, send_mu, reader, closer, handle, driver>>

-------------------------------------------------------------------------------
(* SharedHandle.send *)

Calling(h, op) == op \in script.calls /\ caller[h].pc = "idle" /\ ~handle[h].closed

\* A subscriber, or a tap whose second still runs, goes straight to the write; an expired
\* tap is admitted again first.
SendStart(h) ==
    /\ Calling(h, "send")
    /\ \/ handle[h].subscribed /\ caller' = [caller EXCEPT ![h].pc = "write", ![h].op = "sendsub"]
       \/ /\ ~handle[h].subscribed /\ unread[h] = "fresh"
          /\ caller' = [caller EXCEPT ![h].pc = "write", ![h].op = "send"]
       \/ /\ ~handle[h].subscribed /\ unread[h] # "fresh"
          /\ caller' = [caller EXCEPT ![h].pc = "admit", ![h].op = "send"]
    /\ UNCHANGED <<life, done, rings, heard, drain_mu, send_mu, reader, closer, handle, driver, ghost>>

\* Under send_mu the handle and the wire are asked again before the driver is called.
Write(h) ==
    /\ caller[h].pc = "write" /\ send_mu = Nobody
    /\ \/ (handle[h].closed \/ state # "running") /\ CallEnds(h, "idle") /\ UNCHANGED send_mu
       \/ ~handle[h].closed /\ state = "running" /\ CallerAt(h, "write", "writing") /\ send_mu' = h
    /\ UNCHANGED <<life, done, rings, heard, drain_mu, reader, closer, handle, driver, ghost>>

\* The driver's write fails, or succeeds; the reply clock of a tap starts then.
WriteReturns(h) ==
    /\ \/ caller[h].pc = "writing" /\ CallEnds(h, "idle") /\ send_mu' = Nobody
       \/ caller[h].op = "send" /\ CallerAt(h, "writing", "refresh") /\ UNCHANGED send_mu
    /\ UNCHANGED <<life, done, rings, heard, drain_mu, reader, closer, handle, driver, ghost>>

RefreshCheck(h) ==
    /\ \/ /\ caller[h].pc = "refresh" /\ (handle[h].closed \/ handle[h].subscribed)
          /\ CallEnds(h, "idle") /\ send_mu' = Nobody
       \/ /\ ~handle[h].closed /\ ~handle[h].subscribed
          /\ CallerAt(h, "refresh", "refreshing") /\ UNCHANGED send_mu
    /\ UNCHANGED <<life, done, rings, heard, drain_mu, reader, closer, handle, driver, ghost>>

Refresh(h) ==
    /\ caller[h].pc = "refreshing" /\ CallEnds(h, "idle") /\ send_mu' = Nobody
    /\ IF state = "running" THEN Stamped(h) ELSE UNCHANGED <<unread, ghost>>
    /\ UNCHANGED <<life, done, rings, pending_admit, drain_mu, reader, closer, handle, driver>>

-------------------------------------------------------------------------------
(* SharedHandle.recv and diagnostics *)

RecvStart(h, op) ==
    /\ op \in RecvOps /\ Calling(h, op)
    /\ caller' = [caller EXCEPT ![h].pc = "rhead", ![h].op = op]
    /\ UNCHANGED <<life, done, rings, heard, drain_mu, send_mu, reader, closer, handle, driver, ghost>>

\* The top of the loop, for a handle that is closed or has not subscribed yet.
RecvHead(h) ==
    /\ caller[h].pc = "rhead"
    /\ \/ handle[h].closed /\ CallEnds(h, "idle")
       \/ ~handle[h].closed /\ ~handle[h].subscribed /\ CallerAt(h, "rhead", "rlock")
    /\ UNCHANGED <<life, done, rings, heard, drain_mu, send_mu, reader, closer, handle, driver, ghost>>

\* The first receive takes drain_mu; on a wire nobody reads it drains its own boundary.
RecvLocks(h) ==
    /\ caller[h].pc = "rlock" /\ drain_mu = Nobody
    /\ \/ /\ state # "running" /\ CallerAt(h, "rlock", "register")
          /\ UNCHANGED <<drain_mu, handle, ghost>>
       \/ /\ state = "running" /\ readers_locked /\ CallerAt(h, "rlock", "register")
          /\ drain_mu' = h /\ UNCHANGED <<handle, ghost>>
       \/ /\ state = "running" /\ ~readers_locked /\ drain_mu' = h
          /\ caller' = [caller EXCEPT ![h].pc = "batch", ![h].pub = (pending_admit # {})]
          /\ handle' = [handle EXCEPT ![h].cursor = next_seq]
          /\ ghost' = [ghost EXCEPT ![h].began = arrived]
    /\ UNCHANGED <<life, done, rings, heard, send_mu, reader, closer, driver>>

\* The one critical section of a receive: register if new, book the gaps, take a frame.
RecvScan(h) ==
    LET new      == ~handle[h].subscribed /\ state = "running"
        table    == IF new THEN subs \cup {h} ELSE subs
        seen     == IF new THEN [cursors EXCEPT ![h] = handle[h].cursor] ELSE cursors
        oldest   == oldest_locked(next_seq)
        from     == OwnCursor(handle[h].cursor, oldest)
        readable == Readable(ring, h, from, next_seq)
        at       == Advance(readable, next_seq)
    IN  /\ \/ caller[h].pc = "rhead" /\ ~handle[h].closed /\ handle[h].subscribed
           \/ caller[h].pc = "register"
        /\ subs' = table
        /\ ring_gaps' = ring_gaps + WireGap(seen, table, oldest)
        /\ cursors' = [Raised(seen, table, oldest) EXCEPT ![h] = IF h \in table THEN at ELSE @]
        /\ handle' = [handle EXCEPT ![h].subscribed = (h \in table), ![h].cursor = at,
                                    ![h].dropped = @ + OwnGap(handle[h].cursor, oldest)]
        /\ unread' = IF new THEN [unread EXCEPT ![h] = "absent"] ELSE unread
        /\ drain_mu' = IF drain_mu = h THEN Nobody ELSE drain_mu
        /\ IF readable # {} \/ terminal \/ caller[h].op = "look"
           THEN CallEnds(h, "idle")
           ELSE caller' = [caller EXCEPT ![h].pc = "rwait"]
        /\ ghost' = [ghost EXCEPT ![h] = IF ~new \/ @.how = "lock" THEN @
                                         ELSE [@ EXCEPT !.since = arrived, !.how = "lock"]]
        /\ UNCHANGED <<life, done, ring, next_seq, pending_admit, send_mu, reader, closer, driver>>

\* The wait for a wake token, or for the deadline of a timed receive.
RecvWakes(h) ==
    /\ handle[h].wake /\ CallerAt(h, "rwait", "rhead")
    /\ handle' = [handle EXCEPT ![h].wake = FALSE]
    /\ UNCHANGED <<life, done, rings, heard, drain_mu, send_mu, reader, closer, driver, ghost>>

RecvTimesOut(h) ==
    /\ caller[h].pc = "rwait" /\ caller[h].op = "recv" /\ CallEnds(h, "idle")
    /\ UNCHANGED <<life, done, rings, heard, drain_mu, send_mu, reader, closer, handle, driver, ghost>>

\* The monitor's poll reconciles every subscriber's loss, not its own handle's.
diagnostics(h) ==
    /\ Calling(h, "diagnostics")
    /\ ring_gaps' = ring_gaps + WireGap(cursors, subs, oldest_locked(next_seq))
    /\ cursors' = Raised(cursors, subs, oldest_locked(next_seq))
    /\ UNCHANGED <<life, done, ring, next_seq, subs, heard, drain_mu, send_mu, threads, handle,
                   driver, ghost>>

-------------------------------------------------------------------------------
(* SharedHandle.close *)

CloseBegins(h) ==
    /\ closer[h].pc = "open" /\ ~HeldByRecv(h)
    /\ caller[h].pc # "none" /\ caller[h].op # "join"
    /\ SerialCallers => caller[h].pc \in {"idle", "joinfail"}
    /\ closer' = [closer EXCEPT ![h] = [pc |-> "release", sub |-> handle[h].subscribed]]
    /\ handle' = [handle EXCEPT ![h].closed = TRUE, ![h].subscribed = FALSE, ![h].wake = TRUE]
    /\ ghost' = [ghost EXCEPT ![h] = NoGhost]
    /\ UNCHANGED <<life, done, rings, heard, drain_mu, send_mu, reader, caller, driver>>

\* Booked and unsubscribed in one critical section; the last reference closes the wire.
CloseReleases(h) ==
    LET oldest == oldest_locked(next_seq)
        sub    == closer[h].sub
        last   == refs - 1 <= 0 /\ state = "running"
    IN  /\ closer[h].pc = "release"
        /\ ring_gaps' = IF sub THEN ring_gaps + WireGap(cursors, subs, oldest) ELSE ring_gaps
        /\ cursors' = IF sub THEN Raised(cursors, subs, oldest) ELSE cursors
        /\ handle' = IF sub THEN [handle EXCEPT ![h].cursor = OwnCursor(@, oldest),
                                                ![h].dropped = @ + OwnGap(handle[h].cursor, oldest)]
                     ELSE handle
        /\ subs' = IF sub THEN subs \ {h} ELSE subs
        /\ unread' = [unread EXCEPT ![h] = "absent"]
        /\ pending_admit' = pending_admit \ {h}
        /\ refs' = refs - 1
        /\ state' = IF last THEN "closing" ELSE state
        /\ closer' = [closer EXCEPT ![h].pc = IF last THEN "awaitdone" ELSE "closed"]
        /\ UNCHANGED <<terminal, raw_closed, done, ring, next_seq, drain_mu, send_mu, reader,
                       caller, driver, ghost>>

CloseFinishes(h) ==
    /\ closer[h].pc = "awaitdone" /\ done /\ done' = FALSE
    /\ closer' = [closer EXCEPT ![h].pc = "closed"]
    /\ finish_close
    /\ UNCHANGED <<rings, heard, drain_mu, send_mu, reader, caller, handle, driver, ghost>>

-------------------------------------------------------------------------------
(* The wire, the adapter and the clock *)

\* The driver queues a frame, or overruns when its queue is full.
Arrive ==
    /\ arrived < script.frames /\ ~Fatal
    /\ arrived' = arrived + 1
    /\ rxq' = IF Len(rxq) < DriverQueue THEN Append(rxq, arrived + 1) ELSE rxq
    /\ UNCHANGED <<life, done, rings, heard, drain_mu, send_mu, threads, handle, broken, script, ghost>>

Unplug ==
    /\ script.breaks /\ ~broken /\ broken' = TRUE
    /\ UNCHANGED <<life, done, rings, heard, drain_mu, send_mu, threads, handle, rxq, arrived, script, ghost>>

\* shared_attentive_ms have passed since the handle's stamp.
Age(h) ==
    /\ unread[h] = "fresh" /\ unread' = [unread EXCEPT ![h] = "old"]
    /\ ghost' = [ghost EXCEPT ![h] = [@ EXCEPT !.how = "none", !.since = 0]]
    /\ UNCHANGED <<life, done, rings, pending_admit, drain_mu, send_mu, threads, handle, driver>>

\* Everything is over: no thread has a step left to take.
Stopped ==
    /\ reader.pc = "exited"
    /\ \A h \in Handles : /\ caller[h].pc \in {"none", "idle", "joinfail"}
                          /\ closer[h].pc = "closed" \/ caller[h].pc = "none"
    /\ UNCHANGED vars

-------------------------------------------------------------------------------
\* Taking drain_mu.
Locks(h)   == AdmitRefused(h) \/ AdmitAttentive(h) \/ AdmitParked(h) \/ RecvLocks(h)

\* The steps a call in progress takes by itself.
Runs(h)    == \/ BatchEnds(h) \/ BatchBegins(h) \/ BoundaryRead(h)
              \/ BoundaryEmpty(h) \/ BoundaryFails(h) \/ BoundaryFinishes(h) \/ AwaitDone(h)
              \/ Admitted(h) \/ JoinReturns(h) \/ Write(h) \/ WriteReturns(h) \/ RefreshCheck(h)
              \/ Refresh(h) \/ RecvHead(h) \/ RecvScan(h) \/ RecvWakes(h)

Closes(h)  == CloseReleases(h) \/ CloseFinishes(h)

\* What a caller or the clock may choose to do.
Chooses(h) == \/ Join(h) \/ SendStart(h) \/ diagnostics(h) \/ CloseBegins(h)
              \/ BatchGivesUp(h) \/ RecvTimesOut(h) \/ Age(h)
              \/ \E op \in RecvOps : RecvStart(h, op)

Next ==
    \/ ReaderStep
    \/ \E h \in Handles : Locks(h) \/ Runs(h) \/ Closes(h) \/ Chooses(h)
    \/ Arrive \/ Unplug \/ Stopped

Spec == Init /\ [][Next]_vars

(***************************************************************************)
(* Fairness.  Every thread that can step does.  drain_mu goes to a waiting *)
(* handle in the end because the reader sleeps off the lock while          *)
(* `waiting` is not 0 (take_drain_lock, yield_to_joiners): strong          *)
(* fairness.  Nothing is assumed of callers' choices or of the wire.       *)
(***************************************************************************)
Fairness ==
    /\ WF_vars(ReaderStep)
    /\ \A h \in Handles : WF_vars(Runs(h)) /\ WF_vars(Closes(h)) /\ SF_vars(Locks(h))

FairSpec == Spec /\ Fairness

-------------------------------------------------------------------------------
(* Properties *)

ReaderPcs == {"check", "parked", "drain_lock", "drain", "failing", "finishing", "lock", "reading", "exited"}
CallerPcs == {"none", "idle", "joinfail", "admit", "batch", "look", "finishing", "awaitdone",
              "admitted", "joined", "write", "writing", "refresh", "refreshing", "rhead", "rlock",
              "register", "rwait"}
Slots == [seq : Nat, arr : Nat, origin : {Nobody}]

\* Every variable of one generation of the hub (SharedEntry, SharedHandle, the threads on it)
\* stays within its type.
TypeOK ==
    /\ state \in {"running", "closing", "failed", "closed"}
    /\ refs \in Int /\ {terminal, raw_closed, done, broken} \subseteq BOOLEAN
    /\ ring \in [0 .. (Capacity - 1) -> Slots] /\ next_seq \in Nat \ {0}
    /\ subs \subseteq Handles /\ cursors \in [Handles -> Nat] /\ ring_gaps \in Nat
    /\ unread \in [Handles -> {"absent", "fresh", "old"}] /\ pending_admit \subseteq Handles
    /\ drain_mu \in Handles \cup {Reader, Nobody} /\ send_mu \in Handles \cup {Nobody}
    /\ reader \in [pc : ReaderPcs, n : Nat]
    /\ caller \in [Handles -> [pc : CallerPcs, op : RecvOps \cup {"none", "join", "send", "sendsub"},
                               pub : BOOLEAN, n : Nat, read : Nat]]
    /\ closer \in [Handles -> [pc : {"open", "release", "awaitdone", "closed"}, sub : BOOLEAN]]
    /\ handle \in [Handles -> [closed : BOOLEAN, subscribed : BOOLEAN, cursor : Nat,
                               dropped : Nat, wake : BOOLEAN]]
    /\ rxq \in Seq(Nat) /\ arrived \in Nat
    /\ ghost \in [Handles -> Ghosts]

\* A handle that drained the driver to establish its boundary (admit, a late first receive)
\* is never served a frame from before that drain: not from the ring, not from what the
\* driver still queues.  This is what shared_boundary_drain_frames is sized for.
BoundaryExact ==
    \A h \in Handles :
        /\ \A s \in Readable(ring, h, handle[h].cursor, next_seq) :
                ring[SlotOf(s)].arr > ghost[h].floor
        /\ \A i \in DOMAIN rxq : rxq[i] > ghost[h].floor

\* A receiver blocked in recv never misses its wake-up: whenever there is a frame it could
\* read, the wire has failed or the handle was closed, its capacity-one wake token is there.
NoLostWakeup ==
    \A h \in Handles :
        /\ caller[h].pc = "rwait"
        /\ \/ handle[h].closed \/ terminal
           \/ Readable(ring, h, handle[h].cursor, next_seq) # {}
        => handle[h].wake

\* One loss is booked once: the wire's ring_gaps is the sum of what its subscribers, past
\* and present, counted as their own `dropped`, plus what a poll or a sibling booked ahead
\* of a subscriber that has not looked yet.
GapsBookedOnce ==
    terminal \/ ring_gaps = MapThenSumSet(LAMBDA h : handle[h].dropped, Handles)
                            + MapThenSumSet(LAMBDA h : cursors[h] - handle[h].cursor, subs)

\* Only one thread ever waits for the reader's single `done` token: once the reader is gone
\* nobody is left waiting for a token that was taken by another.
NoStrandedWaiter ==
    reader.pc = "exited" =>
        Cardinality({h \in Handles : closer[h].pc = "awaitdone"})
          + Cardinality({h \in Handles : caller[h].pc = "awaitdone"}) <= (IF done THEN 1 ELSE 0)

\* A closed handle is forgotten: it keeps no stamp that would hold the reader awake.
DeadHandleForgotten ==
    \A h \in Handles : closer[h].pc = "closed" => unread[h] = "absent" /\ h \notin pending_admit

\* A handle that opened onto a parked wire gets what arrived after its open.
JoinSeesOnlyLater ==
    \A h \in Handles :
        caller[h].pc = "idle" /\ ~handle[h].closed =>
            \A s \in Readable(ring, h, handle[h].cursor, next_seq) :
                ring[SlotOf(s)].arr > ghost[h].opened

Listening(h) == ~handle[h].closed /\ (h \in subs \/ unread[h] = "fresh")
Discards     == Len(rxq') < Len(rxq) /\ next_seq' = next_seq /\ state = "running"

\* A drain never throws away a frame that arrived after a handle became one the wire listens
\* for under drain_mu (its open, its admission, its registration) and while it still is.
DrainSparesTheOwed ==
    [][Discards => \A h \in Handles : Listening(h) /\ ghost[h].how = "lock"
                                        => Head(rxq) <= ghost[h].since]_vars

\* Nor one that arrived after a sender's reply clock was started by the write's return.
DrainSparesTheReply ==
    [][Discards => \A h \in Handles : Listening(h) /\ ghost[h].how = "stamp"
                                        => Head(rxq) <= ghost[h].since]_vars

\* The last close ends: the reader exits and the driver is released; so does every other close.
CloseReturns == \A h \in Handles : closer[h].pc = "release" ~> closer[h].pc = "closed"

\* Opening onto a running wire ends, with a handle or with a generation found dead.
JoinEnds == \A h \in Handles : caller[h].pc = "admit" ~> caller[h].pc \in {"idle", "joinfail"}

\* An unplugged adapter is noticed by whoever is blocked in a receive without a deadline.
FailureReaches ==
    \A h \in Handles : broken /\ caller[h].pc = "rwait" ~> caller[h].pc # "rwait"
===============================================================================
