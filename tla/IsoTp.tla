-------------------------------- MODULE IsoTp --------------------------------
(***************************************************************************)
(* A software ISO-TP channel (blobly/isotp/software.v, SoftChannel) and    *)
(* the peer it talks to.  The channel is used by one thread; a stop        *)
(* request may come from another at any time.                              *)
(*                                                                         *)
(* A message is [id, n]: n = 0 travels as one Single Frame, n > 0 as a     *)
(* First Frame and n Consecutive Frames.  CF i carries the sequence number *)
(* i % SNs and, which no receiver can see, the message it belongs to.      *)
(* Time is abstract: a wait may end at any moment.  The peer is not in     *)
(* this repository: it is any ISO 15765-2 node on rx_id / tx_id.           *)
(***************************************************************************)
EXTENDS Integers, Sequences

CONSTANTS Sizes,        \* sizes of messages, in Consecutive Frames
          SNs,          \* sequence numbers (16: four bits)
          BlockSizes,   \* block sizes the peer asks for (0: no more Flow Controls)
          FlowStatuses, \* what the peer answers: "cts", "wait", "overflow"
          n_wft_max,    \* WAITs accepted in a row (16)
          FlushMax,     \* flush_max_frames (587)
          Ops,          \* the calls made: "send", "recv", "drain"
          Faults,       \* "stop", "tx" (a write fails), "garbage", "lost" (a CF is lost or repeated),
                        \* "ncr" (N_Cr passes, or the bus fails), "impatient" (the peer gives up)
          MaxSent, MaxSaid, MaxLost, MaxQueue   \* bounds on messages, losses, queued frames

ASSUME IsoTpAssumption ==
    /\ Sizes \subseteq Nat /\ BlockSizes \subseteq Nat /\ SNs \in Nat \ {0, 1}
    /\ {n_wft_max, FlushMax, MaxSent, MaxSaid, MaxLost, MaxQueue} \subseteq Nat
    /\ FlowStatuses \subseteq {"cts", "wait", "overflow"} /\ Ops \subseteq {"send", "recv", "drain"}
    /\ Faults \subseteq {"stop", "tx", "garbage", "lost", "ncr", "impatient"}

VARIABLES
    fc_dirty,   \* a segmented send ended badly
    rx,         \* Reassembly: [m, next, whole] or NoRx
    call,       \* the call in progress: [pc, m, off, bs, in_block, waits, fc]
    rxq, txq,   \* the bus: frames for this channel, frames for the peer
    stop,       \* stop_requested
    sent, said, lost,   \* how many messages were sent each way, and frames lost or repeated
    peer,       \* the other node: [rx, owes, bs, in_block, tx, go], and the history bit `over`
    got,        \* history: what recv returned, as [id, whole]
    bad,        \* history: Len(got) when a segmented send last ended badly
    exposed     \* history: fc_dirty was cleared, last, with the peer still to say something of
                \* the send that ended badly

chan == <<fc_dirty, rx>>
bus  == <<rxq, txq>>
vars == <<chan, call, bus, stop, sent, said, lost, peer, got, bad, exposed>>

NoMessage == [id |-> 0, n |-> 0]
NoRx      == [m |-> NoMessage, next |-> 0, whole |-> TRUE]
Idle      == [pc |-> "idle", m |-> NoMessage, off |-> 0, bs |-> 0, in_block |-> 0, waits |-> 0,
              fc |-> NoMessage]

Frame(k, m, i) == [k |-> k, m |-> m, i |-> i, fs |-> "none", bs |-> 0]
Flow(fs, bs, m) == [k |-> "FC", m |-> m, i |-> 0, fs |-> fs, bs |-> bs]

\* First Frame read: one message begun.  Consecutive Frame read: one more part.
Begun(m)      == [m |-> m, next |-> 1, whole |-> TRUE]
Grown(r, f)   == [r EXCEPT !.next = @ + 1, !.whole = @ /\ f.m = r.m /\ f.i = r.next]
InOrder(r, f) == f.i % SNs = r.next % SNs
Complete(r)   == r.next > r.m.n

Init ==
    /\ fc_dirty = FALSE /\ rx = NoRx /\ call = Idle
    /\ rxq = <<>> /\ txq = <<>> /\ stop = FALSE
    /\ sent = 0 /\ said = 0 /\ lost = 0
    /\ peer = [rx |-> NoRx, owes |-> FALSE, bs |-> 0, in_block |-> 0, tx |-> NoRx, go |-> FALSE,
               over |-> FALSE]
    /\ got = <<>> /\ bad = 0 /\ exposed = FALSE

-------------------------------------------------------------------------------
(* send *)

\* tx: a frame on the bus; a write that fails puts nothing there.
tx(f) == txq' = Append(txq, f)
TxMayFail == "tx" \in Faults

\* A call ends.
Returns == call' = Idle

\* Mutant: a segmented send that ends badly does not say so.
EndsBadly_unmarked == Returns /\ bad' = Len(got) /\ UNCHANGED fc_dirty

\* A segmented send that ends badly leaves the channel dirty.
EndsBadly == Returns /\ fc_dirty' = TRUE /\ bad' = Len(got)

\* Mutant: a send keeps the transfer an earlier recv left half read.
SendStart_keeps(n) ==
    LET m == [id |-> sent + 1, n |-> n] IN
    /\ "send" \in Ops /\ call.pc = "idle" /\ sent < MaxSent
    /\ sent' = sent + 1
    /\ IF n = 0 THEN Returns /\ tx(Frame("SF", m, 0))
       ELSE call' = [Idle EXCEPT !.pc = IF fc_dirty THEN "flush" ELSE "first", !.m = m] /\ UNCHANGED txq
    /\ UNCHANGED <<fc_dirty, rx, rxq, stop, said, lost, peer, got, bad, exposed>>

\* The channel has moved on from a transfer a recv cut short; a Single Frame is written at
\* once, a segmented send on a dirty channel drains first.
SendStart(n) ==
    LET m == [id |-> sent + 1, n |-> n] IN
    /\ "send" \in Ops /\ call.pc = "idle" /\ sent < MaxSent
    /\ sent' = sent + 1 /\ rx' = NoRx
    /\ \/ n = 0 /\ Returns /\ tx(Frame("SF", m, 0))
       \/ n = 0 /\ TxMayFail /\ Returns /\ UNCHANGED txq
       \/ /\ n > 0 /\ UNCHANGED txq
          /\ call' = [Idle EXCEPT !.pc = IF fc_dirty THEN "flush" ELSE "first", !.m = m]
    /\ UNCHANGED <<fc_dirty, rxq, stop, said, lost, peer, got, bad, exposed>>

\* flush_rx: what the peer still says of the send that ended badly is read away.
FlushReads ==
    /\ call.pc = "flush" /\ rxq # <<>> /\ call.off < FlushMax
    /\ rxq' = Tail(rxq) /\ call' = [call EXCEPT !.off = @ + 1]
    /\ UNCHANGED <<chan, txq, stop, sent, said, lost, peer, got, bad, exposed>>

\* ... until it has been quiet for flush_quiet_ms, or the frame cap is reached.  A window is no
\* proof: the peer may still have something to say of that send.
FlushEnds ==
    /\ call.pc = "flush" /\ (rxq = <<>> \/ call.off = FlushMax)
    /\ fc_dirty' = FALSE /\ call' = [call EXCEPT !.pc = "first", !.off = 0]
    /\ exposed' = (bus # <<<<>>, <<>>>> \/ peer.owes)
    /\ UNCHANGED <<rx, bus, stop, sent, said, lost, peer, got, bad>>

\* A stop mid-drain leaves the channel dirty; one before the First Frame begins nothing.
SendStopped ==
    /\ stop /\ call.pc \in {"flush", "first"} /\ Returns
    /\ UNCHANGED <<chan, bus, stop, sent, said, lost, peer, got, bad, exposed>>

\* The First Frame goes out.  Its own write failing leaves the peer nothing to answer.
SendFirst ==
    /\ ~stop /\ call.pc = "first"
    /\ \/ call' = [call EXCEPT !.pc = "await"] /\ tx(Frame("FF", call.m, 0))
       \/ TxMayFail /\ Returns /\ UNCHANGED txq
    /\ UNCHANGED <<chan, rxq, stop, sent, said, lost, peer, got, bad, exposed>>

\* await_flow_control, one frame read: a stale Consecutive Frame is passed over ...
AwaitSkips ==
    /\ ~stop /\ call.pc = "await" /\ rxq # <<>> /\ Head(rxq).k = "CF"
    /\ rxq' = Tail(rxq)
    /\ UNCHANGED <<chan, call, txq, stop, sent, said, lost, peer, got, bad, exposed>>

\* ... CTS opens a block ...
AwaitCleared ==
    /\ ~stop /\ call.pc = "await" /\ rxq # <<>> /\ Head(rxq).k = "FC" /\ Head(rxq).fs = "cts"
    /\ rxq' = Tail(rxq)
    /\ call' = [call EXCEPT !.pc = "sending", !.bs = Head(rxq).bs, !.in_block = 0, !.waits = 0,
                            !.fc = Head(rxq).m]
    /\ UNCHANGED <<chan, txq, stop, sent, said, lost, peer, got, bad, exposed>>

\* Mutant: a WAIT re-arms the wait and is not counted.
AwaitWaits_forever ==
    /\ ~stop /\ call.pc = "await" /\ rxq # <<>> /\ Head(rxq).k = "FC" /\ Head(rxq).fs = "wait"
    /\ rxq' = Tail(rxq)
    /\ UNCHANGED <<chan, call, txq, stop, sent, said, lost, peer, got, bad, exposed>>

\* ... WAIT re-arms the wait, n_wft_max times ...
AwaitWaits ==
    /\ ~stop /\ call.pc = "await" /\ rxq # <<>> /\ Head(rxq).k = "FC" /\ Head(rxq).fs = "wait"
    /\ rxq' = Tail(rxq)
    /\ IF call.waits < n_wft_max
       THEN call' = [call EXCEPT !.waits = @ + 1] /\ UNCHANGED <<fc_dirty, bad>>
       ELSE EndsBadly
    /\ UNCHANGED <<rx, txq, stop, sent, said, lost, peer, got, exposed>>

\* ... OVERFLOW, or a frame that is no Flow Control, ends the transfer.
AwaitRefused ==
    /\ ~stop /\ call.pc = "await" /\ rxq # <<>> /\ Head(rxq).k # "CF"
    /\ Head(rxq).k = "FC" => Head(rxq).fs = "overflow"
    /\ rxq' = Tail(rxq) /\ EndsBadly
    /\ UNCHANGED <<rx, txq, stop, sent, said, lost, peer, got, exposed>>

\* N_Bs, or the transfer's allowance, passes - a queued frame does not help once it has - or
\* the bus fails.
AwaitTimesOut ==
    /\ ~stop /\ call.pc = "await" /\ EndsBadly
    /\ UNCHANGED <<rx, bus, stop, sent, said, lost, peer, got, exposed>>

\* The stop is asked for before every wait and every Consecutive Frame.
SegmentedStopped ==
    /\ stop /\ call.pc \in {"await", "sending"} /\ EndsBadly
    /\ UNCHANGED <<rx, bus, stop, sent, said, lost, peer, got, exposed>>

\* The block is full: the receiver owes another Flow Control.
BlockFull(in_block) == call.bs > 0 /\ in_block >= call.bs

SendConsecutive ==
    LET off == call.off + 1 IN
    /\ ~stop /\ call.pc = "sending"
    /\ \/ /\ tx(Frame("CF", call.m, off))
          /\ call' = IF off = call.m.n THEN Idle
                     ELSE [call EXCEPT !.off = off, !.in_block = @ + 1,
                                       !.pc = IF BlockFull(call.in_block + 1) THEN "await" ELSE @]
          /\ UNCHANGED <<fc_dirty, bad>>
       \/ TxMayFail /\ EndsBadly /\ UNCHANGED txq
    /\ UNCHANGED <<rx, rxq, stop, sent, said, lost, peer, got, exposed>>

-------------------------------------------------------------------------------
(* recv, reassemble, the drains *)

RecvStart ==
    /\ "recv" \in Ops /\ call.pc = "idle" /\ call' = [Idle EXCEPT !.pc = "recv"]
    /\ UNCHANGED <<chan, bus, stop, sent, said, lost, peer, got, bad, exposed>>

\* Mutant: a message read leaves the channel dirty.
Delivers_dirty(m, whole) ==
    /\ got' = Append(got, [id |-> m.id, whole |-> whole])
    /\ exposed' = exposed /\ rx' = NoRx /\ Returns /\ UNCHANGED fc_dirty

\* A message is whole: recv returns it, and the last bad end is no longer the latest thing.
Delivers(m, whole) ==
    /\ got' = Append(got, [id |-> m.id, whole |-> whole])
    /\ fc_dirty' = FALSE /\ exposed' = (exposed \/ fc_dirty) /\ rx' = NoRx /\ Returns

\* An orphan Flow Control is passed over, in a transfer or between two; so is a Consecutive
\* Frame of no transfer in progress, and an empty frame in one.
RecvSkips ==
    /\ call.pc = "recv" /\ rxq # <<>>
    /\ Head(rxq).k \in {"FC", IF rx = NoRx THEN "CF" ELSE "empty"}
    /\ rxq' = Tail(rxq)
    /\ UNCHANGED <<chan, call, txq, stop, sent, said, lost, peer, got, bad, exposed>>

\* A Single Frame is a message; in a transfer it means the peer moved on (`held`).
RecvSingle ==
    /\ call.pc = "recv" /\ rxq # <<>> /\ Head(rxq).k = "SF"
    /\ rxq' = Tail(rxq) /\ Delivers(Head(rxq).m, TRUE)
    /\ UNCHANGED <<txq, stop, sent, said, lost, peer, bad>>

\* A First Frame begins one, in place of what was in progress; it is answered CTS, 0, 0.
RecvFirst ==
    /\ call.pc = "recv" /\ rxq # <<>> /\ Head(rxq).k = "FF"
    /\ rxq' = Tail(rxq)
    /\ \/ rx' = Begun(Head(rxq).m) /\ tx(Flow("cts", 0, Head(rxq).m)) /\ UNCHANGED call
       \/ TxMayFail /\ rx' = NoRx /\ Returns /\ UNCHANGED txq
    /\ UNCHANGED <<fc_dirty, stop, sent, said, lost, peer, got, bad, exposed>>

\* The next Consecutive Frame by its sequence number; any other ends the transfer.
RecvConsecutive ==
    /\ call.pc = "recv" /\ rxq # <<>> /\ Head(rxq).k = "CF" /\ rx # NoRx
    /\ rxq' = Tail(rxq)
    /\ LET r == Grown(rx, Head(rxq)) IN
       IF ~InOrder(rx, Head(rxq)) THEN rx' = NoRx /\ Returns /\ UNCHANGED <<fc_dirty, got, exposed>>
       ELSE IF Complete(r) THEN Delivers(r.m, r.whole)
       ELSE rx' = r /\ UNCHANGED <<fc_dirty, call, got, exposed>>
    /\ UNCHANGED <<txq, stop, sent, said, lost, peer, bad>>

\* A frame that is not ISO-TP ends the receive, and the transfer with it.
RecvGarbage ==
    /\ call.pc = "recv" /\ rxq # <<>>
    /\ Head(rxq).k = "bad" \/ (Head(rxq).k = "empty" /\ rx = NoRx)
    /\ rxq' = Tail(rxq) /\ rx' = NoRx /\ Returns
    /\ UNCHANGED <<fc_dirty, txq, stop, sent, said, lost, peer, got, bad, exposed>>

\* The caller's deadline passes: a transfer in progress is kept for the next recv.
RecvTimesOut ==
    /\ call.pc = "recv" /\ Returns
    /\ UNCHANGED <<chan, bus, stop, sent, said, lost, peer, got, bad, exposed>>

\* N_Cr, which orphan Flow Controls do not re-arm, passes in a receive blocked on the next
\* Consecutive Frame, or the bus fails: the transfer is over.
RecvNCr ==
    /\ "ncr" \in Faults /\ call.pc = "recv" /\ rx # NoRx
    /\ rx' = NoRx /\ Returns
    /\ UNCHANGED <<fc_dirty, bus, stop, sent, said, lost, peer, got, bad, exposed>>

RecvStopped ==
    /\ stop /\ call.pc = "recv" /\ rx' = NoRx /\ Returns
    /\ UNCHANGED <<fc_dirty, bus, stop, sent, said, lost, peer, got, bad, exposed>>

\* drain_quiet and drain_idle (and, reading nothing away, abandon_reception).
DrainStart ==
    /\ "drain" \in Ops /\ call.pc = "idle" /\ call' = [Idle EXCEPT !.pc = "drain"] /\ rx' = NoRx
    /\ UNCHANGED <<fc_dirty, bus, stop, sent, said, lost, peer, got, bad, exposed>>

DrainReads ==
    /\ call.pc = "drain" /\ rxq # <<>> /\ rxq' = Tail(rxq)
    /\ UNCHANGED <<chan, call, txq, stop, sent, said, lost, peer, got, bad, exposed>>

DrainEnds ==
    /\ call.pc = "drain" /\ Returns
    /\ UNCHANGED <<chan, bus, stop, sent, said, lost, peer, got, bad, exposed>>

RequestStop ==
    /\ "stop" \in Faults /\ ~stop /\ stop' = TRUE
    /\ UNCHANGED <<chan, call, bus, sent, said, lost, peer, got, bad, exposed>>

-------------------------------------------------------------------------------
(* The bus and the peer: external *)

says(f) == Len(rxq) < MaxQueue /\ rxq' = Append(rxq, f)

\* One frame of this channel reaches the peer.  A Consecutive Frame it has not cleared is an
\* error it remembers.
PeerHears ==
    LET f == Head(txq)
        r == Grown(peer.rx, f)
    IN  /\ txq # <<>> /\ txq' = Tail(txq)
        /\ \/ f.k = "SF" /\ peer' = [peer EXCEPT !.rx = NoRx, !.owes = FALSE]
           \/ f.k = "FF" /\ peer' = [peer EXCEPT !.rx = Begun(f.m), !.owes = TRUE]
           \/ f.k = "FC" /\ peer' = [peer EXCEPT !.go = (peer.tx # NoRx)]
           \/ f.k = "CF" /\ peer.rx = NoRx /\ UNCHANGED peer
           \/ /\ f.k = "CF" /\ peer.rx # NoRx /\ (peer.owes \/ ~InOrder(peer.rx, f))
              /\ peer' = [peer EXCEPT !.rx = NoRx, !.owes = FALSE,
                                      !.over = @ \/ (peer.owes /\ ~exposed)]
           \/ /\ f.k = "CF" /\ peer.rx # NoRx /\ ~peer.owes /\ InOrder(peer.rx, f)
              /\ peer' = [peer EXCEPT !.rx = IF Complete(r) THEN NoRx ELSE r, !.in_block = @ + 1,
                                      !.owes = /\ ~Complete(r) /\ peer.bs > 0
                                               /\ peer.in_block + 1 >= peer.bs]
        /\ UNCHANGED <<chan, call, rxq, stop, sent, said, lost, got, bad, exposed>>

PeerAnswers ==
    /\ peer.owes
    /\ \E fs \in FlowStatuses, bs \in BlockSizes :
        /\ says(Flow(fs, bs, peer.rx.m))
        /\ \/ fs = "cts" /\ peer' = [peer EXCEPT !.owes = FALSE, !.bs = bs, !.in_block = 0]
           \/ fs = "wait" /\ UNCHANGED peer
           \/ fs = "overflow" /\ peer' = [peer EXCEPT !.owes = FALSE, !.rx = NoRx]
    /\ UNCHANGED <<chan, call, txq, stop, sent, said, lost, got, bad, exposed>>

\* The peer says something of its own: a Single Frame, or a First Frame and, once cleared,
\* the rest.
PeerSays ==
    /\ said < MaxSaid /\ said' = said + 1 /\ peer.tx = NoRx
    /\ \E n \in Sizes :
        LET m == [id |-> said + 1, n |-> n] IN
        /\ says(Frame(IF n = 0 THEN "SF" ELSE "FF", m, 0))
        /\ peer' = [peer EXCEPT !.tx = IF n = 0 THEN NoRx ELSE Begun(m), !.go = FALSE]
    /\ UNCHANGED <<chan, call, txq, stop, sent, lost, got, bad, exposed>>

PeerContinues ==
    LET t == [peer.tx EXCEPT !.next = @ + 1] IN
    /\ peer.tx # NoRx /\ peer.go
    /\ says(Frame("CF", peer.tx.m, peer.tx.next))
    /\ peer' = [peer EXCEPT !.tx = IF Complete(t) THEN NoRx ELSE t, !.go = ~Complete(t)]
    /\ UNCHANGED <<chan, call, txq, stop, sent, said, lost, got, bad, exposed>>

\* It gives up a transfer, in either direction, or puts a frame on rx_id that is not ISO-TP.
PeerGivesUp ==
    /\ "impatient" \in Faults
    /\ \/ peer.tx # NoRx /\ peer' = [peer EXCEPT !.tx = NoRx, !.go = FALSE]
       \/ peer.rx # NoRx /\ peer' = [peer EXCEPT !.rx = NoRx, !.owes = FALSE]
    /\ UNCHANGED <<chan, call, bus, stop, sent, said, lost, got, bad, exposed>>

PeerGarbles ==
    /\ "garbage" \in Faults /\ lost < MaxLost /\ lost' = lost + 1
    /\ \E k \in {"bad", "empty"} : says(Frame(k, NoMessage, 0))
    /\ UNCHANGED <<chan, call, txq, stop, sent, said, peer, got, bad, exposed>>

\* A Consecutive Frame is lost on its way here (an overrun of the bus's queue), or read twice
\* (the controller repeated it).
BusLoses ==
    /\ "lost" \in Faults /\ lost < MaxLost /\ rxq # <<>> /\ Head(rxq).k = "CF"
    /\ lost' = lost + 1 /\ rxq' \in {Tail(rxq), <<Head(rxq)>> \o rxq}
    /\ UNCHANGED <<chan, call, txq, stop, sent, said, peer, got, bad, exposed>>

-------------------------------------------------------------------------------
Steps == \/ FlushReads \/ FlushEnds \/ SendStopped \/ SendFirst \/ AwaitSkips \/ AwaitCleared
         \/ AwaitWaits \/ AwaitRefused \/ AwaitTimesOut \/ SegmentedStopped \/ SendConsecutive
Recvs == \/ RecvSkips \/ RecvSingle \/ RecvFirst \/ RecvConsecutive \/ RecvGarbage
Peers == \/ PeerHears \/ PeerAnswers \/ PeerContinues

Next ==
    \/ \E n \in Sizes : SendStart(n)
    \/ Steps \/ Recvs \/ Peers
    \/ RecvStart \/ RecvTimesOut \/ RecvNCr \/ RecvStopped
    \/ DrainStart \/ DrainReads \/ DrainEnds \/ RequestStop
    \/ PeerSays \/ PeerGivesUp \/ PeerGarbles \/ BusLoses

Spec == Init /\ [][Next]_vars

\* The thread in a call goes on; a blocked receive ends only as its caller or a stop says.
\* The bus carries what it was given.  The peer need not answer.
Fairness == WF_vars(Steps) /\ WF_vars(Recvs) /\ WF_vars(RecvStopped) /\ WF_vars(PeerHears)

FairSpec == Spec /\ Fairness

-------------------------------------------------------------------------------
(* Properties *)

Messages == [id : Nat, n : Nat]
Receptions == [m : Messages, next : Nat, whole : BOOLEAN]
Frames == [k : {"SF", "FF", "CF", "FC", "bad", "empty"}, m : Messages, i : Nat,
           fs : {"none", "cts", "wait", "overflow"}, bs : Nat]

\* The channel, the call in progress and the bus stay within their types.
TypeOK ==
    /\ {fc_dirty, stop, exposed} \subseteq BOOLEAN /\ rx \in Receptions
    /\ call \in [pc : {"idle", "flush", "first", "await", "sending", "recv", "drain"}, m : Messages,
                 off : Nat, bs : Nat, in_block : Nat, waits : 0 .. n_wft_max, fc : Messages]
    /\ rxq \in Seq(Frames) /\ txq \in Seq(Frames)
    /\ {sent, said, lost, bad} \subseteq Nat
    /\ peer \in [rx : Receptions, owes : BOOLEAN, bs : Nat, in_block : Nat, tx : Receptions,
                 go : BOOLEAN, over : BOOLEAN]
    /\ got \in Seq([id : Nat, whole : BOOLEAN])

\* recv never returns a PDU put together from two messages, whatever was given up, drained,
\* sent or stopped in between (rx reset by send, flush_rx, the drains; the SN check).
NoSplice == \A i \in DOMAIN got : got[i].whole

\* A caller that only polls loses nothing the bus has not lost (#467): what recv returned is
\* every message up to the latest one, however many deadlines passed in a transfer.
NothingSkipped == lost = 0 => \A i \in DOMAIN got : got[i].id = i

\* Every Consecutive Frame is one the peer has cleared: never past a block, never before a
\* Flow Control - except where the protection has its stated limits: a recv succeeded after a
\* send ended badly (recv_succeeded), or the peer outlasted the drain's quiet window or cap.
NeverUncleared == ~peer.over

\* ... and, with the same exception, never on the word of a Flow Control meant for an
\* earlier transfer of this channel (fc_dirty, flush_rx's quiet window).
ClearedByItsOwn ==
    [][call.pc = "sending" /\ ~exposed /\ Len(txq') > Len(txq) => call.fc = call.m]_vars

\* A segmented send drains only while no message has been read since the send that ended
\* badly: a reply that arrived after a later exchange is never read away (#296).
DrainSparesReplies == call.pc = "flush" => Len(got) = bad

\* A send ends, whatever the peer answers, and as often: no peer holds one forever.
SendEnds == call.pc \in {"flush", "first", "await", "sending"} ~> call.pc = "idle"

\* A worker told to stop leaves the call it is in, a receive without a deadline included.
StopEnds == stop /\ call.pc \notin {"idle", "drain"} ~> call.pc = "idle"
===============================================================================
