------------------------------- MODULE UdsClient -------------------------------
(***************************************************************************)
(* python/blobly/uds.py, the NodeClient of nodes.py, isotp.py and          *)
(* flash.program: clients shared by threads, each with a lock of its own   *)
(* held for a call (by security_access across the seed, the script's       *)
(* key_fn and the key; by a flash throughout), all under a run that a stop *)
(* on another thread ends.                                                 *)
(*                                                                         *)
(* A client keeps no connection for good: a stop lets it go and the next   *)
(* call opens another, stating again what the script stated.  A call holds *)
(* the handle it got, and the library refuses a handle that was closed.    *)
(* The library's close waits for the call inside the handle, and Python    *)
(* closes holding _lib.state_lock.                                         *)
(***************************************************************************)
EXTENDS Naturals, Sequences, FiniteSets, Functions

CONSTANTS
    Threads,    \* the threads of the script
    Nobody,     \* no thread, no client
    Clients,    \* the UdsClients of one channel
    Nodes,      \* those of them that are NodeClients (nodes.py)
    Order,      \* the order in which a functional request names them
    IsoTps,     \* its raw ISO-TP channels (isotp.py), let go with it as the clients are
    Managers,   \* the threads that start and stop the project, open and close clients
    Scripts,    \* what the script may be: the clients it opens, each thread's calls in order, how often
                \* it runs the project, and the places where a run's system model may reach its node
    MaxHandles, \* bound: connections opened
    MaxBlocks   \* bound: progress calls of a flash

All == Clients \cup IsoTps

Seeds       == {"seed", "functional_seed"}                      \* raw 0x27 seed requests
Functionals == {"functional", "functional_seed"}
Statements  == {"state", "retarget"}
Kinds == Seeds \cup Functionals \cup Statements
            \cup {"exchange", "access", "key", "keep_alive", "read", "write", "send", "recv", "flash"}

ASSUME UdsAssumption ==
    /\ Nobody \notin Threads \cup All /\ Nodes \subseteq Clients /\ Clients \cap IsoTps = {} /\ Managers \subseteq Threads
    /\ Range(Order) = Clients /\ IsInjective(Order)
    /\ \A s \in Scripts : s.uses \subseteq All /\ \A t \in Threads : Range(s.calls[t]) \subseteq Kinds \ {"key"}
    /\ MaxHandles \in Nat /\ MaxBlocks \in Nat

VARIABLES
    script,     \* the script that runs
    lock,       \* the thread that holds _lib.state_lock across a close that waits
    run,        \* the project: started, the number of its run (_lib.state["run"]), where it reaches the node
    client,     \* per client: _h, _closed, what the script stated, _in_key_fn; made, collected or neither
    owner,      \* per client: who holds its _lock
    conn,       \* every connection opened, by handle number
    orphans,    \* uds._orphans
    thread,     \* what each thread is doing
    begun,      \* calls each thread has begun
    flash       \* the flashing thread of flash.program, and what it was asked

vars == <<script, lock, run, client, owner, conn, orphans, thread, begun, flash>>

NoAccess == [client |-> Nobody, h |-> 0, seed |-> 0]    \* no security_access is inside its key_fn
NoFlash == [worker |-> "none", left |-> 0, cancel |-> FALSE, raised |-> FALSE]
Idle == [pc |-> "idle", kind |-> "none", cs |-> {}, hs |-> {}, run |-> 0, outer |-> NoAccess]

Init ==
    /\ script \in Scripts
    /\ lock = Nobody
    /\ run \in [on : {TRUE}, number : {1}, at : script.places]
    /\ client = [c \in All |-> [h |-> 0, is |-> "unmade", at |-> Nobody, stated |-> 0, in_key_fn |-> FALSE]]
    /\ owner = [c \in All |-> Nobody]
    /\ conn = <<>> /\ orphans = {}
    /\ thread = [t \in Threads |-> Idle]
    /\ begun = [t \in Threads |-> 0]
    /\ flash = NoFlash

\* A thread is free to make a call: between calls, or inside its key_fn (uds._callbacks.depth).
InKeyFn(t) == thread[t].outer # NoAccess
Free(t) == thread[t].pc \in {"idle", "key_fn"}
Back(t) ==
    IF InKeyFn(t) /\ thread[t].kind # "key"
    THEN [Idle EXCEPT !.pc = "key_fn", !.outer = thread[t].outer] ELSE Idle

\* A client's lock is an RLock: taken again by the thread that holds it, and given back by the
\* outermost of its calls (the security_access a key_fn is inside keeps it).
Available(t, c) == owner[c] \in {Nobody, t}
Unlocked(t) ==
    [c \in All |->
        IF owner[c] = t /\ c \in thread[t].cs /\ (thread[t].kind = "key" \/ c # thread[t].outer.client)
        THEN Nobody ELSE owner[c]]

Open(h) == conn[h].is = "open"
Flashing == {"flashing", "in_progress", "cancelling"}       \* the caller's stations
InSession == flash.worker \in {"transfer", "asked"}
Inside(h) ==
    {t \in Threads : h \in thread[t].hs /\ (thread[t].pc = "inside" \/ (thread[t].pc \in Flashing /\ InSession))}

-------------------------------------------------------------------------------
(* Connections *)

\* uds._close_orphans: nobody is in the handle of a collected client.
WithoutOrphans == [h \in DOMAIN conn |-> IF h \in orphans THEN [conn[h] EXCEPT !.is = "closed"] ELSE conn[h]]

\* NodeClient._open: refused when this run reaches the node elsewhere.
StillThere(c) == c \in Nodes => run.at = client[c].at

\* Mutant: a connection is opened though the project is stopped.
MayOpenStopped(c) == StillThere(c) /\ Len(conn) < MaxHandles

\* UdsClient._open, IsoTp._open: refused unless started.
MayOpen(c) == run.on /\ StillThere(c) /\ Len(conn) < MaxHandles

\* Mutant: a new connection begins with the library's own settings.
NewConnPlain(c) ==
    [client |-> c, run |-> run.number, at |-> run.at, is |-> "open", stated |-> 0, seed |-> 0]

\* What the script stated before is stated on the new connection, or it is let go again.
NewConn(c) ==
    [client |-> c, run |-> run.number, at |-> run.at, is |-> "open", stated |-> client[c].stated, seed |-> 0]

NewIsoTp(c) ==
    [client |-> c, run |-> run.number, at |-> run.at, is |-> "open", stated |-> 0, seed |-> 0]

Opened(c) == IF c \in IsoTps THEN NewIsoTp(c) ELSE NewConn(c)

\* UdsClient.__init__, IsoTp.__init__: made with its first connection.
Create(t, c) ==
    /\ Free(t) /\ lock = Nobody /\ c \in script.uses \ Nodes /\ client[c].is = "unmade" /\ MayOpen(c)
    /\ conn' = Append(WithoutOrphans, Opened(c)) /\ orphans' = {}
    /\ client' = [client EXCEPT ![c].is = "made", ![c].h = Len(conn) + 1]
    /\ UNCHANGED <<script, lock, run, owner, thread, begun>>

\* NodeClient.__init__: where the run reaches its node.
CreateNode(t, c) ==
    /\ Free(t) /\ lock = Nobody /\ c \in script.uses \cap Nodes /\ client[c].is = "unmade" /\ run.on /\ Len(conn) < MaxHandles
    /\ conn' = Append(WithoutOrphans, NewConn(c)) /\ orphans' = {}
    /\ client' = [client EXCEPT ![c].is = "made", ![c].at = run.at, ![c].h = Len(conn) + 1]
    /\ UNCHANGED <<script, lock, run, owner, thread, begun>>

\* UdsClient._handle, IsoTp._handle, under the state lock: the connection it has, or another; refused
\* when it is closed or cannot be opened.
Handle(t) ==
    /\ thread[t].pc = "handles" /\ lock = Nobody
    /\ orphans' = {}
    /\ \E c \in thread[t].cs \ {conn[h].client : h \in thread[t].hs} :
        \E h \in {client[c].h} \cup {Len(conn) + 1} :
            /\ IF client[c].h # 0
               THEN h = client[c].h /\ conn' = WithoutOrphans /\ UNCHANGED client
               ELSE IF client[c].is = "made" /\ MayOpen(c)
               THEN /\ h = Len(conn) + 1
                    /\ conn' = Append(WithoutOrphans, Opened(c))
                    /\ client' = [client EXCEPT ![c].h = h]
               ELSE h = 0 /\ conn' = WithoutOrphans /\ UNCHANGED client
            /\ thread' = [thread EXCEPT
                    ![t].hs = @ \cup ({h} \ {0}),
                    ![t].pc = IF h = 0 THEN "leaving"
                              ELSE IF Cardinality(thread[t].hs) + 1 < Cardinality(thread[t].cs) THEN "handles"
                              ELSE IF thread[t].kind = "write" THEN "resolving" ELSE "asking"]
    /\ UNCHANGED <<script, lock, run, owner, begun>>

\* UdsClient._let_go, IsoTp._let_go: the handle is the client's no more; the library's close then
\* waits for the call inside it.
LetGo(c) ==
    /\ client[c].h # 0
    /\ conn' = [WithoutOrphans EXCEPT ![client[c].h].is = "closing"]
    /\ orphans' = {}

Closed(t) ==
    /\ thread[t].pc \in {"closing", "stopping"} /\ thread[t].hs # {}
    /\ \A h \in thread[t].hs : Inside(h) = {}
    /\ conn' = [h \in DOMAIN conn |-> IF h \in thread[t].hs THEN [conn[h] EXCEPT !.is = "closed"] ELSE conn[h]]
    /\ IF thread[t].pc = "closing"
       THEN lock' = Nobody /\ thread' = [thread EXCEPT ![t] = Back(t)]
       ELSE lock' = lock /\ thread' = [thread EXCEPT ![t].hs = {}]
    /\ UNCHANGED <<script, run, client, owner, orphans, begun>>

\* UdsClient.close, IsoTp.close, from any thread, without the client's lock.
Close(t, c) ==
    /\ Free(t) /\ lock = Nobody /\ client[c].is = "made"
    /\ client' = [client EXCEPT ![c].is = "closed", ![c].h = 0]
    /\ \/ /\ LetGo(c)
          /\ lock' = t
          /\ thread' = [thread EXCEPT ![t] = [Back(t) EXCEPT !.pc = "closing", !.hs = {client[c].h}]]
       \/ client[c].h = 0 /\ conn' = WithoutOrphans /\ orphans' = {} /\ UNCHANGED <<script, lock, thread>>
    /\ UNCHANGED <<script, run, owner, begun>>

\* UdsClient.__del__, IsoTp.__del__, on whatever thread collects it: the handle is only put aside.
Collect(c) ==
    /\ client[c].is = "made" /\ client[c].h # 0
    /\ \A u \in Threads : c \notin thread[u].cs \cup {thread[u].outer.client}
    /\ orphans' = orphans \cup {client[c].h}
    /\ client' = [client EXCEPT ![c].is = "collected", ![c].h = 0]
    /\ UNCHANGED <<script, lock, run, owner, conn, thread, begun>>

-------------------------------------------------------------------------------
(* The run: Project.stop closes the channel, which lets its clients go, then ends the run *)

StopBegins(t) ==
    /\ Free(t) /\ lock = Nobody /\ run.on
    /\ lock' = t
    /\ conn' = WithoutOrphans /\ orphans' = {}
    /\ thread' = [thread EXCEPT ![t] = [Back(t) EXCEPT !.pc = "stopping"]]
    /\ UNCHANGED <<script, run, client, owner, begun>>

StopLetsGo(t) ==
    /\ thread[t].pc = "stopping" /\ thread[t].hs = {}
    /\ \E c \in All :
        /\ LetGo(c)
        /\ client' = [client EXCEPT ![c].h = 0]
        /\ thread' = [thread EXCEPT ![t].hs = {client[c].h}]
    /\ UNCHANGED <<script, lock, run, owner, begun>>

StopEnds(t) ==
    /\ thread[t].pc = "stopping" /\ thread[t].hs = {}
    /\ \A c \in All : client[c].h = 0
    /\ run' = [run EXCEPT !.on = FALSE, !.number = @ + 1]
    /\ lock' = Nobody
    /\ thread' = [thread EXCEPT ![t] = Back(t)]
    /\ UNCHANGED <<script, client, owner, conn, orphans, begun>>

Start(t) ==
    /\ Free(t) /\ lock = Nobody /\ ~run.on /\ run.number + 1 < 2 * script.runs
    /\ \E at \in script.places : run' = [on |-> TRUE, number |-> run.number + 1, at |-> at]
    /\ UNCHANGED <<script, lock, client, owner, conn, orphans, thread, begun>>

-------------------------------------------------------------------------------
(* Beginning a call.  A kind stands for the calls that go through the same steps. *)

Due(t, kind) == begun[t] < Len(script.calls[t]) /\ script.calls[t][begun[t] + 1] = kind

Ask(t, kind, cs) ==
    /\ Free(t) /\ Due(t, kind)
    /\ cs # {} /\ \A c \in cs : client[c].is \in {"made", "closed"}
    /\ begun' = [begun EXCEPT ![t] = @ + 1]
    /\ thread' = [thread EXCEPT ![t] =
                    [Back(t) EXCEPT !.pc = "want", !.kind = kind, !.cs = cs,
                                  !.run = IF kind = "read" THEN run.number ELSE 0]]
    /\ UNCHANGED <<script, lock, run, client, owner, conn, orphans>>

\* session, tester_present, read_did, write_did; reset, comm_control, dtc_setting, clear_dtcs.
AskExchange(t, c) == c \in Clients /\ Ask(t, "exchange", {c})

\* raw, raw_suppressed with a 0x27 seed request (any other is an exchange).
AskSeed(t, c) == c \in Clients /\ Ask(t, "seed", {c})

\* security_access.  A key_fn is taken to unlock no other client (Idle.outer holds one).
AskAccess(t, c) ==
    /\ c \in Clients /\ Ask(t, "access", {c})
    /\ InKeyFn(t) => c = thread[t].outer.client

\* did_size, ext_record_size, the waits set as attributes.
AskState(t, c) == c \in Clients /\ Ask(t, "state", {c})

\* retarget, refused by a NodeClient.
AskRetarget(t, c) == c \in Clients \ Nodes /\ Ask(t, "retarget", {c})

\* Channel.uds_functional.
AskFunctional(t, kind, cs) == kind \in Functionals /\ cs \subseteq Clients /\ Ask(t, kind, cs)

\* flash.program on a client.
AskFlash(t, c) == c \in Clients /\ Ask(t, "flash", {c})

\* NodeClient.read: its DID resolved in the current run, under the state lock, before anything else.
AskRead(t, c) == c \in Nodes /\ lock = Nobody /\ run.on /\ Ask(t, "read", {c})

\* NodeClient.write.
AskWrite(t, c) == c \in Nodes /\ Ask(t, "write", {c})

\* IsoTp.send and IsoTp.recv.
AskSend(t, c) == c \in IsoTps /\ Ask(t, "send", {c})
AskRecv(t, c) == c \in IsoTps /\ Ask(t, "recv", {c})

\* UdsClient.keep_alive: kept for the next connection and stated on this one, under both locks.
KeepAlive(t, c) ==
    /\ Free(t) /\ Due(t, "keep_alive")
    /\ c \in Clients /\ Available(t, c) /\ lock = Nobody
    /\ client[c].is = "made"
    /\ begun' = [begun EXCEPT ![t] = @ + 1]
    /\ client' = [client EXCEPT ![c].stated = @ + 1]
    /\ conn' = IF client[c].h = 0 THEN conn ELSE [conn EXCEPT ![client[c].h].stated = client[c].stated + 1]
    /\ UNCHANGED <<script, lock, run, owner, orphans, thread>>

-------------------------------------------------------------------------------
(* The clients' locks *)

\* Inside a key_fn of this client: a seed request would stand in for the seed its key answers, and a
\* retarget would have the key answer another ECU's.
InItsKeyFn(t) == \E c \in thread[t].cs : client[c].in_key_fn
\* Mutant: anything may be asked inside a key_fn.
RefusedNever(t) == FALSE

Refused(t) == thread[t].kind \in Seeds \cup {"access", "retarget"} /\ InItsKeyFn(t)

\* "with self._lock" of a call on one client.
Acquire(t) ==
    /\ thread[t].pc = "want" /\ thread[t].kind \notin Functionals
    /\ \A c \in thread[t].cs : Available(t, c)
    /\ owner' = [c \in All |-> IF c \in thread[t].cs THEN t ELSE owner[c]]
    /\ thread' = [thread EXCEPT ![t].pc = IF Refused(t) THEN "leaving" ELSE "handles"]
    /\ UNCHANGED <<script, lock, run, client, conn, orphans, begun>>

FirstOf(cs) == Head(SelectSeq(Order, LAMBDA c : c \in cs))

\* Mutant: functional waits for the next lock holding the ones before it.
TryLocksHolding(t) ==
    LET missing == {c \in thread[t].cs : owner[c] # t}
    IN  /\ thread[t].pc = "want" /\ thread[t].kind \in Functionals
        /\ \/ /\ missing # {} /\ owner[FirstOf(missing)] = Nobody
              /\ owner' = [owner EXCEPT ![FirstOf(missing)] = t]
              /\ UNCHANGED thread
           \/ /\ missing = {}
              /\ thread' = [thread EXCEPT ![t].pc = IF Refused(t) THEN "leaving" ELSE "handles"]
              /\ UNCHANGED owner
        /\ UNCHANGED <<script, lock, run, client, conn, orphans, begun>>

\* functional: each lock in turn, none waited for while another is held: all given back and tried
\* again, or refused where this thread is inside a key_fn.
TryLocks(t) ==
    LET missing == {c \in thread[t].cs : owner[c] # t}
    IN  /\ thread[t].pc = "want" /\ thread[t].kind \in Functionals
        /\ \/ /\ missing # {} /\ owner[FirstOf(missing)] = Nobody
              /\ owner' = [owner EXCEPT ![FirstOf(missing)] = t]
              /\ UNCHANGED thread
           \/ /\ missing # {} /\ owner[FirstOf(missing)] # Nobody
              /\ owner' = Unlocked(t)
              /\ IF InKeyFn(t) THEN thread' = [thread EXCEPT ![t] = Back(t)] ELSE UNCHANGED thread
           \/ /\ missing = {}
              /\ thread' = [thread EXCEPT ![t].pc = IF Refused(t) THEN "leaving" ELSE "handles"]
              /\ UNCHANGED owner
        /\ UNCHANGED <<script, lock, run, client, conn, orphans, begun>>

\* The end of the hold: the call has returned or raised.
Returns(t) == owner' = Unlocked(t) /\ thread' = [thread EXCEPT ![t] = Back(t)]

Leave(t) ==
    /\ thread[t].pc = "leaving" /\ Returns(t)
    /\ UNCHANGED <<script, lock, run, client, conn, orphans, begun>>

-------------------------------------------------------------------------------
(* The call on the handle *)

\* NodeClient._resolved, after the handle in a write.
Resolve(t) ==
    /\ thread[t].pc = "resolving" /\ lock = Nobody
    /\ thread' = [thread EXCEPT ![t].run = run.number, ![t].pc = IF run.on THEN "asking" ELSE "leaving"]
    /\ UNCHANGED <<script, lock, run, client, owner, conn, orphans, begun>>

\* UdsClient._call_on, _exchange, _bytes_on: the library refuses a handle that was let go.
BeginCall(t) ==
    /\ thread[t].pc = "asking"
    /\ thread[t].kind # "flash"
    /\ thread' = [thread EXCEPT ![t].pc = IF \A h \in thread[t].hs : Open(h) THEN "inside" ELSE "leaving"]
    /\ UNCHANGED <<script, lock, run, client, owner, conn, orphans, begun>>

\* An answer, positive or not, a timeout, or the close of its handle: _list, snapshot, extended and
\* _put read the rest of it from the handle, _enrich the exchange that failed.
Answered(t) ==
    /\ thread[t].pc = "inside" /\ thread[t].kind \notin {"state", "retarget", "recv"}
    /\ thread' = [thread EXCEPT ![t].pc = "reading"]
    /\ UNCHANGED <<script, lock, run, client, owner, conn, orphans, begun>>

ReadBack(t) ==
    /\ thread[t].pc = "reading" /\ Returns(t)
    /\ UNCHANGED <<script, lock, run, client, conn, orphans, begun>>

\* A positive answer to a raw or functional seed request: the ECU now waits for its key.
Seeded(t) ==
    /\ thread[t].pc = "inside" /\ thread[t].kind \in Seeds
    /\ conn' = [h \in DOMAIN conn |-> [conn[h] EXCEPT !.seed = IF h \in thread[t].hs THEN @ + 1 ELSE @]]
    /\ thread' = [thread EXCEPT ![t].pc = "reading"]
    /\ UNCHANGED <<script, lock, run, client, owner, orphans, begun>>

\* security_access has its seed: the reference key is sent at once, the script's key_fn called first.
AccessSeeded(t) ==
    /\ thread[t].pc = "inside" /\ thread[t].kind = "access"
    /\ \E h \in thread[t].hs, c \in thread[t].cs, called \in BOOLEAN :
        LET outer == [client |-> c, h |-> h, seed |-> conn[h].seed + 1]
        IN  /\ conn' = [conn EXCEPT ![h].seed = @ + 1]
            /\ client' = [client EXCEPT ![c].in_key_fn = called]
            /\ thread' = [thread EXCEPT ![t] =
                    IF called THEN [Idle EXCEPT !.pc = "key_fn", !.outer = outer]
                              ELSE [@ EXCEPT !.pc = "asking", !.kind = "key", !.outer = outer]]
    /\ UNCHANGED <<script, lock, run, owner, orphans, begun>>

\* key_fn returned its key, which goes out on the seed's own handle, or raised.
KeyFnReturns(t) ==
    /\ thread[t].pc = "key_fn"
    /\ LET outer == thread[t].outer
       IN  /\ client' = [client EXCEPT ![outer.client].in_key_fn = FALSE]
           /\ \E pc \in {"asking", "leaving"} :
                thread' = [thread EXCEPT ![t].pc = pc, ![t].kind = "key", ![t].cs = {outer.client}, ![t].hs = {outer.h}]
    /\ UNCHANGED <<script, lock, run, owner, conn, orphans, begun>>

\* The library took the setting, or refused it; a retarget leaves what the old target was asked.
Stated(t) ==
    /\ thread[t].pc = "inside" /\ thread[t].kind \in Statements
    /\ \/ /\ \E h \in thread[t].hs :
             conn' = [conn EXCEPT ![h].stated = @ + 1, ![h].seed = IF thread[t].kind = "retarget" THEN 0 ELSE @]
          /\ thread' = [thread EXCEPT ![t].pc = "keeping"]
       \/ thread' = [thread EXCEPT ![t].pc = "leaving"] /\ UNCHANGED conn
    /\ UNCHANGED <<script, lock, run, client, owner, orphans, begun>>

\* ... and the client keeps it for its next connection.
Keep(t) ==
    /\ thread[t].pc = "keeping"
    /\ \E c \in thread[t].cs : client' = [client EXCEPT ![c].stated = @ + 1]
    /\ Returns(t)
    /\ UNCHANGED <<script, lock, run, conn, orphans, begun>>

\* NodeClient.read after its read_did, the client's lock given back: decoded by the listing of the
\* run it was resolved in, or refused.
ReadAnswered(t) ==
    /\ thread[t].pc = "inside" /\ thread[t].kind = "read"
    /\ owner' = Unlocked(t)
    /\ thread' = [thread EXCEPT ![t].pc = "answered"]
    /\ UNCHANGED <<script, lock, run, client, conn, orphans, begun>>

\* Mutant: an answer is decoded by whatever the current run lists.
MayDecodeAny(t) == TRUE

MayDecode(t) == run.number = thread[t].run

Decode(t) ==
    /\ thread[t].pc = "answered" /\ lock = Nobody
    /\ thread' = [thread EXCEPT ![t].pc = IF MayDecode(t) THEN "decoded" ELSE "leaving", ![t].run = run.number]
    /\ UNCHANGED <<script, lock, run, client, owner, conn, orphans, begun>>

ReadReturns(t) ==
    /\ thread[t].pc = "decoded"
    /\ thread' = [thread EXCEPT ![t] = Back(t)]
    /\ UNCHANGED <<script, lock, run, client, owner, conn, orphans, begun>>

\* IsoTp.recv: a slice with nothing, then another on the same handle; or a message, or an error.
Slice(t) ==
    /\ thread[t].pc = "inside" /\ thread[t].kind = "recv"
    /\ \E pc \in {"asking", "reading"} : thread' = [thread EXCEPT ![t].pc = pc]
    /\ UNCHANGED <<script, lock, run, client, owner, conn, orphans, begun>>

-------------------------------------------------------------------------------
(* flash.program: a thread of its own flashes, and the caller reports what it says *)

FlashStarts(t) ==
    /\ thread[t].pc = "asking" /\ thread[t].kind = "flash"
    /\ flash' = [NoFlash EXCEPT !.worker = "starting", !.left = MaxBlocks]
    /\ thread' = [thread EXCEPT ![t].pc = "flashing"]
    /\ UNCHANGED <<script, lock, run, client, owner, conn, orphans, begun>>

\* The session begins, where the handle is still open.
SessionBegins(t) ==
    /\ thread[t].pc \in Flashing /\ flash.worker = "starting"
    /\ flash' = [flash EXCEPT !.worker = IF \A h \in thread[t].hs : Open(h) THEN "transfer" ELSE "ended"]
    /\ UNCHANGED <<script, lock, run, client, owner, conn, orphans, thread, begun>>

\* Between blocks it stops if it was cancelled, or its handle is being closed; else on_progress asks
\* the caller and waits, or the transfer is over and the check goes out.
SessionGoesOn(t) ==
    LET stopped == flash.cancel \/ \E h \in thread[t].hs : ~Open(h)
    IN  /\ thread[t].pc \in Flashing /\ flash.worker = "transfer"
        /\ flash' = CASE stopped -> [flash EXCEPT !.worker = "ended"]
                      [] ~stopped /\ flash.left > 0 -> [flash EXCEPT !.worker = "asked", !.left = @ - 1]
                      [] OTHER -> [flash EXCEPT !.worker = "checked"]
        /\ UNCHANGED <<script, lock, run, client, owner, conn, orphans, thread, begun>>

\* report: the script's progress is called, the thread marked in_progress (lib() refuses its calls).
Progress(t) ==
    /\ thread[t].pc = "flashing" /\ flash.worker = "asked"
    /\ thread' = [thread EXCEPT ![t].pc = "in_progress"]
    /\ UNCHANGED <<script, lock, run, client, owner, conn, orphans, begun, flash>>

ProgressReturns(t) ==
    /\ thread[t].pc = "in_progress"
    /\ thread' = [thread EXCEPT ![t].pc = "flashing"]
    /\ flash' = [flash EXCEPT !.worker = "transfer"]
    /\ UNCHANGED <<script, lock, run, client, owner, conn, orphans, begun>>

\* Mutant: the flashing thread goes on, and is cancelled afterwards.
RaisedLate == [flash EXCEPT !.worker = "transfer", !.raised = TRUE]

\* It raises: cancelled before the flashing thread goes on.
Raised == [flash EXCEPT !.worker = "transfer", !.cancel = TRUE, !.raised = TRUE]

ProgressRaises(t) ==
    /\ thread[t].pc = "in_progress"
    /\ thread' = [thread EXCEPT ![t].pc = "cancelling"]
    /\ flash' = Raised
    /\ UNCHANGED <<script, lock, run, client, owner, conn, orphans, begun>>

\* Ctrl-C between two reports: a progress call that waits is released.
Interrupted(t) ==
    /\ thread[t].pc = "flashing"
    /\ thread' = [thread EXCEPT ![t].pc = "cancelling"]
    /\ flash' = [flash EXCEPT !.worker = IF @ = "asked" THEN "transfer" ELSE @]
    /\ UNCHANGED <<script, lock, run, client, owner, conn, orphans, begun>>

\* Asked again until it lands: nothing is cancelled before the session has begun; a progress call of
\* a released report returns at once.
CancelAgain(t) ==
    /\ thread[t].pc = "cancelling" /\ InSession
    /\ flash' = [flash EXCEPT !.cancel = TRUE, !.worker = "transfer"]
    /\ UNCHANGED <<script, lock, run, client, owner, conn, orphans, thread, begun>>

\* The flashing thread has ended: its report or its error, or what the caller raised.
FlashEnds(t) ==
    /\ thread[t].pc \in {"flashing", "cancelling"} /\ flash.worker \in {"checked", "ended"}
    /\ flash' = NoFlash /\ Returns(t)
    /\ UNCHANGED <<script, lock, run, client, conn, orphans, begun>>

FlashStep(t) ==
    \/ FlashStarts(t) \/ SessionBegins(t) \/ SessionGoesOn(t) \/ Progress(t) \/ ProgressReturns(t)
    \/ ProgressRaises(t) \/ Interrupted(t) \/ CancelAgain(t) \/ FlashEnds(t)

-------------------------------------------------------------------------------

CallStep(t) ==
    \/ Closed(t) \/ StopLetsGo(t) \/ StopEnds(t) \/ Acquire(t) \/ TryLocks(t) \/ Leave(t)
    \/ Handle(t) \/ Resolve(t) \/ BeginCall(t) \/ Answered(t) \/ ReadBack(t) \/ Seeded(t)
    \/ AccessSeeded(t) \/ KeyFnReturns(t) \/ Stated(t) \/ Keep(t)
    \/ ReadAnswered(t) \/ Decode(t) \/ ReadReturns(t) \/ Slice(t)

Step(t) == (CallStep(t) /\ UNCHANGED flash) \/ FlashStep(t)

Begin(t) ==
    \/ \E c \in All :
        \/ AskExchange(t, c) \/ AskSeed(t, c) \/ AskAccess(t, c) \/ AskState(t, c) \/ AskRetarget(t, c)
        \/ AskRead(t, c) \/ AskWrite(t, c) \/ AskSend(t, c) \/ AskRecv(t, c) \/ AskFlash(t, c) \/ KeepAlive(t, c)
    \/ \E kind \in Functionals, cs \in SUBSET Clients : AskFunctional(t, kind, cs)

Manage(t) == StopBegins(t) \/ Start(t) \/ \E c \in All : Create(t, c) \/ CreateNode(t, c) \/ Close(t, c)

Next ==
    \/ \E t \in Threads : Step(t)
    \/ UNCHANGED flash /\ \E t \in Threads : Begin(t)
    \/ UNCHANGED flash /\ \E t \in Managers : Manage(t)
    \/ UNCHANGED flash /\ \E c \in All : Collect(c)

Spec == Init /\ [][Next]_vars

\* A call begun goes on: the engine's timing bounds it, a recv has its deadline, a key_fn returns.  A
\* thread waiting for a lock gets it though a functional call keeps trying: that gives back what it
\* holds and sleeps between two tries.
FairSpec ==
    /\ Spec
    /\ \A t \in Threads :
        WF_vars(Step(t)) /\ SF_vars(Acquire(t) /\ UNCHANGED flash)
            /\ SF_vars(Slice(t) /\ UNCHANGED flash /\ thread'[t].pc = "reading")

-------------------------------------------------------------------------------

TypeOK ==
    /\ lock \in Threads \cup {Nobody} /\ owner \in [All -> Threads \cup {Nobody}]
    /\ \A c \in All : client[c].h \in 0 .. Len(conn)
    /\ orphans \subseteq DOMAIN conn
    /\ \A t \in Threads : thread[t].cs \subseteq All /\ thread[t].hs \subseteq DOMAIN conn /\ begun[t] \in 0 .. Len(script.calls[t])

\* A key that goes out answers the seed its security_access was given, on that seed's connection:
\* no call of another thread, nor of the key_fn itself, has replaced it, and no stop has moved the
\* client to a new connection meanwhile (security_access, _no_seed_in_key_fn, retarget).
KeyAnswersItsSeed ==
    \A t \in Threads : thread[t].pc = "inside" /\ thread[t].kind = "key" =>
        \A h \in thread[t].hs : h = thread[t].outer.h /\ conn[h].seed = thread[t].outer.seed

\* Whatever connection a request goes out on, it goes out under every setting the script has stated,
\* the ones stated before a stop included (_open, did_size, _set_timing, keep_alive, retarget).
AsksAsStated ==
    \A t \in Threads : thread[t].pc = "inside" =>
        \A h \in thread[t].hs : conn[h].stated = client[conn[h].client].stated

\* A NodeClient reads and writes by the layout of the very run its connection was opened in, where
\* that run reaches the node: a read's answer is decoded, and a write's value encoded, by no other
\* run's listing (NodeClient.read, write, _open).
LaidOutByItsRun ==
    \A t \in Threads :
        \/ thread[t].kind = "write" /\ thread[t].pc = "inside"
        \/ thread[t].kind = "read" /\ thread[t].pc = "decoded"
        => \A h \in thread[t].hs :
            conn[h].run = thread[t].run /\ conn[h].at = client[conn[h].client].at

\* No connection is lost: an open one is a client's, or put aside for the next call to close, and a
\* stop leaves only those open (_let_go, __del__, Channel.close).
NoConnectionLost ==
    \A h \in DOMAIN conn : Open(h) =>
        h \in orphans \/ (run.on /\ \E c \in All : client[c].is = "made" /\ client[c].h = h)

\* A progress that raised stops the flash before its check: the image is not marked valid behind
\* the exception (flash._program, report).
RaisedNeverChecks == flash.raised => flash.worker # "checked"

\* Every call ends, the ones waiting for a client's lock, for all of several and for a stop included.
EveryCallEnds == \A t \in Threads : thread[t].pc # "idle" ~> thread[t].pc = "idle"
================================================================================
