------------------------------ MODULE SharedAcks ------------------------------
(***************************************************************************)
(* The shared hub over a driver that reports transmit acknowledgements     *)
(* (CANsub, the bridge): how a frame the device acknowledges is credited   *)
(* to the handle that sent it (blobly/transport/shared.v, tx_acks = true). *)
(*                                                                         *)
(* Acknowledgements carry the frame and no tag.  Senders take turns under  *)
(* send_mu so that `pending` stands in wire order; the reader credits an   *)
(* acknowledgement to the OLDEST equal pending send.  Such a reader never  *)
(* parks, so drain_mu and who listens (SharedPark) play no part here.      *)
(***************************************************************************)
EXTENDS SharedRing, Sequences

CONSTANTS Handles, Nobody, \* Nobody: no origin (external), and a free lock
          Frames,          \* frame contents: what shared_same_frame compares
          PendingCap,      \* shared_pending_capacity (4096)
          Fails,           \* TRUE: writes may fail
          Lossy,           \* TRUE: the device may lose an acknowledgement
          MaxSends, MaxExternal \* bounds on sends and on frames of other nodes

ASSUME AcksAssumption ==
    /\ Nobody \notin Handles /\ PendingCap \in Nat \ {0}
    /\ {Fails, Lossy} \subseteq BOOLEAN /\ MaxSends \in Nat /\ MaxExternal \in Nat

VARIABLES
    ring, next_seq,
    cursor,                \* per handle
    closed,                \* handles that are closed
    pending,               \* SharedPendingSend; `nr` numbers them in the order they were published in
    next_send_token, unmatched_tx_acks, expired_tx_acks, expired_failed_sends,
    send_mu,
    caller,                \* per handle, the send in progress: [pc, frame, token]
    onwire,                \* frames on the wire the device has not acknowledged yet; whose send
                           \* each is (src, token) the acknowledgement does not say
    rxq,                   \* the raw receive stream
    external,              \* frames other nodes have sent
    matched, cancelled,    \* history: acknowledgements credited, sends cancelled
    committed,             \* sends published to `pending`, the number of the latest
    tainted,               \* history: frames whose acknowledgements no longer add up
    heard                  \* history: what each handle received last

counters == <<unmatched_tx_acks, expired_tx_acks, expired_failed_sends>>
ingress  == <<onwire, rxq, external>>
history  == <<matched, cancelled, committed, tainted, heard>>
vars     == <<ring, next_seq, cursor, closed, pending, next_send_token, counters, send_mu, caller,
              ingress, history>>

NoFrame == [seq |-> 0, frame |-> Nobody, origin |-> Nobody, src |-> Nobody]
SharedIngress(tx_ack, frame, src, token) == [tx_ack |-> tx_ack, frame |-> frame, src |-> src, token |-> token]
NoSend  == [pc |-> "idle", frame |-> Nobody, token |-> 0]

Init ==
    /\ ring = [i \in 0 .. (Capacity - 1) |-> NoFrame] /\ next_seq = 1
    /\ cursor = [h \in Handles |-> 1] /\ closed = {}
    /\ pending = {} /\ next_send_token = 0
    /\ unmatched_tx_acks = 0 /\ expired_tx_acks = 0 /\ expired_failed_sends = 0
    /\ send_mu = Nobody /\ caller = [h \in Handles |-> NoSend]
    /\ onwire = <<>> /\ rxq = <<>> /\ external = 0
    /\ matched = 0 /\ cancelled = 0 /\ committed = 0 /\ tainted = {}
    /\ heard = [h \in Handles |-> NoFrame]

-------------------------------------------------------------------------------
(* The pending list *)

\* Mutant: only the entries ahead of the first live one are examined.
Kept_prefix(p) == {e \in p : e.life # "due" \/ \E d \in p : d.life # "due" /\ d.nr < e.nr}

\* An entry in flight carries no deadline and never expires; a stamped one is `armed` until
\* its deadline passes, then `due`.  expire_pending examines every entry.
Kept(p) == {e \in p : e.life # "due"}
Expired(p) == p \ Kept(p)

Full(p) == Cardinality(p) >= PendingCap

\* The one that stands first.
Oldest(p) == CHOOSE e \in p : \A d \in p : e.nr <= d.nr

Failed(p) == {e \in p : e.failed}
FramesOf(p) == {e.frame : e \in p}

\* Mutant: an entry that leaves unacknowledged is not counted if its write had failed.
retire_pending_forgets(gone) ==
    /\ expired_tx_acks' = expired_tx_acks + Cardinality(gone \ Failed(gone))
    /\ tainted' = tainted \cup FramesOf(gone)
    /\ UNCHANGED expired_failed_sends

\* retire_pending for every entry of `gone`: a failed write was never a lost acknowledgement.
\* Its frame's acknowledgements may no longer add up: one may still be on its way.
retire_pending(gone) ==
    /\ expired_failed_sends' = expired_failed_sends + Cardinality(Failed(gone))
    /\ expired_tx_acks' = expired_tx_acks + Cardinality(gone \ Failed(gone))
    /\ tainted' = tainted \cup FramesOf(gone)

\* start_pending_window: the deadline is stamped when the raw write returns.
start_pending_window(p, token, failed) ==
    {e \in p : e.token # token}
        \cup {[e EXCEPT !.life = "armed", !.failed = failed] : e \in {d \in p : d.token = token}}

cancel_pending(p, token) == {e \in p : e.token # token}

-------------------------------------------------------------------------------
(* SharedHandle.send, under send_mu *)

\* Mutant: senders do not take turns.
SendLocks_together(h, f) ==
    /\ caller[h].pc = "idle" /\ h \notin closed /\ next_send_token < MaxSends
    /\ next_send_token' = next_send_token + 1
    /\ caller' = [caller EXCEPT ![h] = [pc |-> "locked", frame |-> f, token |-> next_send_token + 1]]
    /\ UNCHANGED <<ring, next_seq, cursor, closed, pending, counters, send_mu, ingress, history>>

\* send_mu is taken, the handle is still open, the token is allocated.
SendLocks(h, f) ==
    /\ send_mu = Nobody /\ send_mu' = h
    /\ caller[h].pc = "idle" /\ h \notin closed /\ next_send_token < MaxSends
    /\ next_send_token' = next_send_token + 1
    /\ caller' = [caller EXCEPT ![h] = [pc |-> "locked", frame |-> f, token |-> next_send_token + 1]]
    /\ UNCHANGED <<ring, next_seq, cursor, closed, pending, counters, ingress, history>>

SendEnds(h) == /\ caller' = [caller EXCEPT ![h] = NoSend]
               /\ send_mu' = IF send_mu = h THEN Nobody ELSE send_mu

\* The driver commits to the write: what is overdue leaves, the oldest entry if the list is
\* full, and the send's own entry is published, in flight.
Commit(h) ==
    LET kept == Kept(pending)
        out  == IF Full(kept) THEN {Oldest(kept)} ELSE {}
    IN  /\ caller[h].pc = "locked"
        /\ caller' = [caller EXCEPT ![h].pc = "committed"]
        /\ pending' = (kept \ out) \cup
                          {[nr |-> committed + 1, token |-> caller[h].token, origin |-> h,
                            frame |-> caller[h].frame, life |-> "inflight", failed |-> FALSE]}
        /\ retire_pending(Expired(pending) \cup out)
        /\ committed' = committed + 1
        /\ UNCHANGED <<ring, next_seq, cursor, closed, next_send_token, unmatched_tx_acks, send_mu,
                       ingress, matched, cancelled, heard>>

\* The driver refuses (not_written) before it commits - or after, which the hub tolerates.
Refuse(h) ==
    /\ caller[h].pc \in {"locked", "committed"} /\ SendEnds(h)
    /\ pending' = cancel_pending(pending, caller[h].token)
    /\ cancelled' = cancelled + Cardinality(pending \ cancel_pending(pending, caller[h].token))
    /\ UNCHANGED <<ring, next_seq, cursor, closed, next_send_token, counters, ingress, matched,
                   committed, tainted, heard>>

\* The bytes reach the wire, before the write call returns.
Emit(h) ==
    /\ caller[h].pc = "committed" /\ caller' = [caller EXCEPT ![h].pc = "emitted"]
    /\ onwire' = Append(onwire, SharedIngress(TRUE, caller[h].frame, h, caller[h].token))
    /\ UNCHANGED <<ring, next_seq, cursor, closed, pending, next_send_token, counters, send_mu, rxq,
                   external, history>>

WriteReturns(h) ==
    /\ caller[h].pc = "emitted" /\ SendEnds(h)
    /\ pending' = start_pending_window(pending, caller[h].token, FALSE)
    /\ UNCHANGED <<ring, next_seq, cursor, closed, next_send_token, counters, ingress, history>>

\* A failed write keeps its entry for the grace, whether or not the bytes went out.
WriteFails(h) ==
    /\ Fails /\ caller[h].pc \in {"committed", "emitted"} /\ SendEnds(h)
    /\ pending' = start_pending_window(pending, caller[h].token, TRUE)
    /\ tainted' = IF caller[h].pc = "committed" THEN tainted \cup {caller[h].frame} ELSE tainted
    /\ UNCHANGED <<ring, next_seq, cursor, closed, next_send_token, counters, ingress, matched,
                   cancelled, committed, heard>>

-------------------------------------------------------------------------------
(* read_loop *)

Publish(frame, origin, src) ==
    /\ ring' = Put(ring, next_seq, [seq |-> next_seq, frame |-> frame, origin |-> origin, src |-> src])
    /\ next_seq' = next_seq + 1

\* The pending sends of an equal frame; the oldest owns the acknowledgement.
Equal(p, frame) == {e \in p : e.frame = frame}

\* One ingress record: overdue sends leave first, an acknowledgement is credited to its
\* owner or, ownerless, counted and not published; anything else is external.
Ingress ==
    LET in    == Head(rxq)
        kept  == Kept(pending)
        equal == Equal(kept, in.frame)
    IN  /\ rxq # <<>> /\ rxq' = Tail(rxq)
        /\ retire_pending(Expired(pending))
        /\ \/ /\ ~in.tx_ack /\ Publish(in.frame, Nobody, in.src)
              /\ pending' = kept /\ UNCHANGED <<unmatched_tx_acks, matched>>
           \/ /\ in.tx_ack /\ equal # {} /\ Publish(in.frame, Oldest(equal).origin, in.src)
              /\ pending' = kept \ {Oldest(equal)}
              /\ matched' = matched + 1 /\ UNCHANGED unmatched_tx_acks
           \/ /\ in.tx_ack /\ equal = {} /\ unmatched_tx_acks' = unmatched_tx_acks + 1
              /\ pending' = kept /\ UNCHANGED <<ring, next_seq, matched>>
        /\ UNCHANGED <<cursor, closed, next_send_token, send_mu, caller, onwire, external, cancelled,
                       committed, heard>>

\* The reader's poll timed out: it is the expiry clock too.
Poll ==
    /\ rxq = <<>> /\ pending' = Kept(pending) /\ retire_pending(Expired(pending))
    /\ UNCHANGED <<ring, next_seq, cursor, closed, next_send_token, unmatched_tx_acks, send_mu,
                   caller, ingress, matched, cancelled, committed, heard>>

-------------------------------------------------------------------------------
(* SharedHandle.recv (its scan) and close, the device and the clock *)

\* A receive passes over the handle's own frames and returns the first other one.
recv(h) ==
    LET from     == OwnCursor(cursor[h], oldest_locked(next_seq))
        readable == Readable(ring, h, from, next_seq)
    IN  /\ h \notin closed /\ cursor[h] < next_seq
        /\ cursor' = [cursor EXCEPT ![h] = Advance(readable, next_seq)]
        /\ heard' = [heard EXCEPT ![h] = IF readable = {} THEN @ ELSE ring[SlotOf(Min(readable))]]
        /\ UNCHANGED <<ring, next_seq, closed, pending, next_send_token, counters, send_mu, caller,
                       ingress, matched, cancelled, committed, tainted>>

\* The wire outlives the handle: its pending sends stay to be acknowledged.
close(h) ==
    /\ h \notin closed /\ closed' = closed \cup {h} /\ closed' # Handles
    /\ UNCHANGED <<ring, next_seq, cursor, pending, next_send_token, counters, send_mu, caller,
                   ingress, history>>

\* The device acknowledges in wire order, or loses one.
Acknowledge ==
    /\ onwire # <<>> /\ onwire' = Tail(onwire)
    /\ rxq' = Append(rxq, Head(onwire))
    /\ UNCHANGED <<ring, next_seq, cursor, closed, pending, next_send_token, counters, send_mu,
                   caller, external, history>>

Lose ==
    /\ Lossy /\ onwire # <<>> /\ onwire' = Tail(onwire)
    /\ tainted' = tainted \cup {Head(onwire).frame}
    /\ UNCHANGED <<ring, next_seq, cursor, closed, pending, next_send_token, counters, send_mu,
                   caller, rxq, external, matched, cancelled, committed, heard>>

\* A frame another node sent.
Receive(f) ==
    /\ external < MaxExternal /\ external' = external + 1
    /\ rxq' = Append(rxq, SharedIngress(FALSE, f, Nobody, 0))
    /\ UNCHANGED <<ring, next_seq, cursor, closed, pending, next_send_token, counters, send_mu,
                   caller, onwire, history>>

\* A stamped entry's deadline passes: five seconds after the write, half a second for a failed one.
Lapse ==
    /\ \E e \in pending :
            /\ e.life = "armed" /\ pending' = (pending \ {e}) \cup {[e EXCEPT !.life = "due"]}
    /\ UNCHANGED <<ring, next_seq, cursor, closed, next_send_token, counters, send_mu, caller,
                   ingress, history>>

Next ==
    \/ \E h \in Handles : \/ \E f \in Frames : SendLocks(h, f)
                          \/ Commit(h) \/ Refuse(h) \/ Emit(h) \/ WriteReturns(h) \/ WriteFails(h)
                          \/ recv(h) \/ close(h)
    \/ Ingress \/ Poll \/ Acknowledge \/ Lose \/ Lapse
    \/ \E f \in Frames : Receive(f)

Spec == Init /\ [][Next]_vars

-------------------------------------------------------------------------------
(* Properties *)

PendingSends == [nr : Nat, token : Nat, origin : Handles, frame : Frames,
                 life : {"inflight", "armed", "due"}, failed : BOOLEAN]

\* The shared state of the acknowledging hub stays within its types; the list of pending
\* sends never outgrows shared_pending_capacity.
TypeOK ==
    /\ next_seq \in Nat \ {0} /\ cursor \in [Handles -> Nat] /\ closed \subseteq Handles
    /\ pending \subseteq PendingSends /\ Cardinality(pending) <= PendingCap
    /\ {next_send_token, unmatched_tx_acks, expired_tx_acks, expired_failed_sends} \subseteq Nat
    /\ send_mu \in Handles \cup {Nobody}
    /\ \A h \in Handles : caller[h].pc \in {"idle", "locked", "committed", "emitted"}

\* As long as no acknowledgement of a frame was lost, no write of it failed short of the
\* wire and no send of it lapsed, every acknowledgement of that frame is credited to the
\* handle that sent it, however many handles send identical frames at once.
AttributionExact ==
    \A i \in DOMAIN ring : ring[i].frame \notin tainted => ring[i].origin = ring[i].src

\* A handle receives its own frame only when that frame's acknowledgements no longer add
\* up: the no-self-loop contract simulation and ISO-TP rely on.
NoSelfEcho == \A h \in Handles : heard[h].src = h => heard[h].frame \in tainted

\* Nothing leaves `pending` uncounted: every published send is still pending, was credited,
\* was cancelled, or is in one of the two expiry counters.
EverySendAccounted ==
    committed = Cardinality(pending) + matched + cancelled + expired_tx_acks + expired_failed_sends

\* An acknowledgement is never credited to a send whose deadline had passed - not even to a
\* failed write's short-lived entry standing behind a live, older one.
NoStaleCredit ==
    [][matched' > matched =>
        (expired_tx_acks' + expired_failed_sends') - (expired_tx_acks + expired_failed_sends)
            = Cardinality({e \in pending : e.life = "due"})]_vars

\* A frame that reached the wire while nothing else disturbed its frame is never dropped as
\* ownerless: the in-flight entry of its write is matchable before the write returns.
AcknowledgedFramesAppear ==
    [][unmatched_tx_acks' > unmatched_tx_acks => Head(rxq).frame \in tainted']_vars
===============================================================================
