---------------------------- MODULE SharedParkProofs ----------------------------
(***************************************************************************)
(* What the parked wire owes its handles, for any number of handles, any   *)
(* ring, any driver queue and any traffic, whoever closes a handle when.   *)
(*                                                                         *)
(* The argument: whoever throws frames away has drain_mu and began while   *)
(* nobody listened, and a handle comes to be owed frames only with         *)
(* drain_mu; a boundary drain that read as many frames as the driver can   *)
(* queue, or found it empty, has read away all that was queued before it;  *)
(* a ring slot carries its sequence number, so a cursor taken at the tail  *)
(* never meets a frame written before it was.                              *)
(*                                                                         *)
(* And that one loss is booked once.  The table's cursor of a handle is    *)
(* its own, or was raised past a loss to the oldest frame by somebody who  *)
(* booked it; so what a handle will count when it looks is what was booked *)
(* ahead of it and what is still to book.  A receive that finds the wire   *)
(* gone may count a loss the table never books: only on one that failed,   *)
(* as a wire closes in good order once nobody holds it.                    *)
(***************************************************************************)
EXTENDS SharedPark, FiniteSetTheorems, WellFoundedInduction, TLAPS

-------------------------------------------------------------------------------
(* The invariant *)

Calls == [pc : CallerPcs, op : RecvOps \cup {"none", "join", "send", "sendsub"},
          pub : BOOLEAN, n : Nat, read : Nat]
Closers == [pc : {"open", "release", "awaitdone", "closed"}, sub : BOOLEAN]
LogicalHandles == [closed : BOOLEAN, subscribed : BOOLEAN, cursor : Nat \ {0}, dropped : Nat, wake : BOOLEAN]

\* What the steps below are about stays within its type; a sequence number is never 0.
Shape ==
    /\ state \in {"running", "closing", "failed", "closed"}
    /\ ring \in [0 .. (Capacity - 1) -> Slots] /\ next_seq \in Nat \ {0}
    /\ subs \subseteq Handles /\ unread \in [Handles -> {"absent", "fresh", "old"}]
    /\ drain_mu \in Handles \cup {Reader, Nobody}
    /\ reader \in [pc : ReaderPcs, n : Nat] /\ caller \in [Handles -> Calls]
    /\ closer \in [Handles -> Closers] /\ handle \in [Handles -> LogicalHandles]
    /\ rxq \in Seq(Nat) /\ arrived \in Nat /\ ghost \in [Handles -> Ghosts]

\* The driver queues no more than it holds, and only what has arrived.
Queued ==
    /\ Len(rxq) <= DriverQueue
    /\ \A i \in DOMAIN rxq : rxq[i] \in 1 .. arrived
    /\ \A i \in DOMAIN ring : ring[i].seq # 0 => ring[i].arr # 0
    /\ \A h \in Handles : ghost[h].floor <= arrived /\ ghost[h].began <= arrived

\* Who drains or reads the driver, takes a boundary or registers on a running wire has drain_mu.
Locked ==
    /\ reader.pc \in {"drain", "reading"} => drain_mu = Reader
    /\ \A h \in Handles :
        /\ caller[h].pc \in {"batch", "look", "admitted", "finishing"} => drain_mu = h
        /\ caller[h].pc = "register" /\ state = "running" => drain_mu = h

\* A handle the wire owes frames to since it had drain_mu counts as listening while it is open;
\* nobody throws frames away while there is one.
Draining == reader.pc = "drain" \/ \E h \in Handles : caller[h].pc = "look"
Owed ==
    /\ \A h \in Handles : ghost[h].how = "lock" /\ ~handle[h].closed => h \in subs \/ unread[h] = "fresh"
    /\ Draining => \A h \in Handles : ghost[h].how = "lock" => handle[h].closed
    /\ \A h \in Handles : closer[h].pc # "open" => handle[h].closed

\* A boundary drain has read away what was queued when it began, as far as it has come; it
\* counts from nothing.
Drained ==
    \A h \in Handles :
        /\ caller[h].pc \in {"batch", "look"} =>
              \A i \in DOMAIN rxq : i + caller[h].read + caller[h].n > DriverQueue => rxq[i] > ghost[h].began
        /\ caller[h].pc \notin {"batch", "look", "finishing", "awaitdone"} => caller[h].n = 0 /\ caller[h].read = 0

\* A cursor is never past the tail.
Behind == \A h \in Handles : handle[h].cursor <= next_seq

IInv == Shape /\ Queued /\ Locked /\ Owed /\ Drained /\ Behind /\ BoundaryExact

-------------------------------------------------------------------------------
(* The ring and the queue *)

\* A sequence number has a slot.
LEMMA SlotInRing == ASSUME NEW s \in Nat \ {0} PROVE SlotOf(s) \in 0 .. (Capacity - 1)
<1>1. s - 1 \in Nat
    OBVIOUS
<1>2. Capacity \in Nat \ {0}
    BY CapacityAssumption DEF CapacityAssumption
<1> QED BY <1>1, <1>2 DEF SlotOf

\* The first of some numbers is one of them.
LEMMA FirstIsOne == ASSUME NEW S, S \subseteq Nat, S # {} PROVE Min(S) \in S /\ \A y \in S : Min(S) <= y
<1>1. PICK x \in S : \A y \in S : ~(<<y, x>> \in OpToRel(<, Nat))
    BY NatLessThanWellFounded, WFMin
<1>2. \A y \in S : <<y, x>> \in Nat \X Nat /\ <<y, x>>[1] = y /\ <<y, x>>[2] = x
    OBVIOUS
<1>3. \A y \in S : ~(y < x)
    BY <1>1, <1>2, Zenon DEF OpToRel
<1>4. \A y \in S : x <= y
    BY <1>3
<1> QED BY <1>1, <1>4 DEF Min

\* A receive leaves the cursor at the tail or past a slot it could read: never further back.
LEMMA AdvanceForward ==
    ASSUME Shape, NEW h \in Handles, NEW from \in Nat \ {0}, from <= next_seq
    PROVE  LET at == Advance(Readable(ring, h, from, next_seq), next_seq) IN
           at \in Nat \ {0} /\ from <= at /\ at <= next_seq
<1> DEFINE S == Readable(ring, h, from, next_seq)
<1>1. next_seq \in Nat /\ S \subseteq Nat /\ \A s \in S : from <= s /\ s <= next_seq - 1
    BY DEF Shape, Readable
<1>2. CASE S = {}
    BY <1>1, <1>2 DEF Advance
<1>3. CASE S # {}
  <2>1. Min(S) \in S
      BY <1>1, <1>3, FirstIsOne
  <2>2. Advance(S, next_seq) = Min(S) + 1
      BY <1>3 DEF Advance
  <2> QED BY <1>1, <2>1, <2>2
<1> QED BY <1>2, <1>3

\* What a cursor further on can read, one that is not so far can.
LEMMA ReadableShrinks ==
    ASSUME Shape, NEW h \in Handles, NEW from \in Nat, NEW to \in Nat, from <= to
    PROVE  Readable(ring, h, to, next_seq) \subseteq Readable(ring, h, from, next_seq)
BY DEF Shape, Readable

\* A frame published reaches only its own slot: what was readable is, or is overwritten.
LEMMA PutReadable ==
    ASSUME Shape, NEW h \in Handles, NEW from \in Nat \ {0}, NEW arr \in Nat,
           ring' = Put(ring, next_seq, Record(arr)), next_seq' = next_seq + 1,
           NEW s \in Readable(ring', h, from, next_seq')
    PROVE  \/ s = next_seq /\ ring'[SlotOf(s)].arr = arr
           \/ s \in Readable(ring, h, from, next_seq) /\ ring'[SlotOf(s)] = ring[SlotOf(s)]
<1>1. /\ s \in Nat \ {0} /\ from <= s /\ s <= next_seq /\ next_seq \in Nat \ {0} /\ ring'[SlotOf(s)].seq = s
      /\ ring'[SlotOf(s)].origin # h
    BY DEF Shape, Readable
<1>2. SlotOf(s) \in 0 .. (Capacity - 1) /\ SlotOf(next_seq) \in 0 .. (Capacity - 1)
    BY <1>1, SlotInRing
<1>3. CASE SlotOf(s) = SlotOf(next_seq)
  <2>1. ring'[SlotOf(s)] = Record(arr)
      BY <1>2, <1>3 DEF Shape, Put
  <2> QED BY <1>1, <2>1 DEF Record
<1>4. CASE SlotOf(s) # SlotOf(next_seq)
  <2>1. ring'[SlotOf(s)] = ring[SlotOf(s)] /\ s # next_seq
      BY <1>2, <1>4 DEF Shape, Put
  <2>2. s \in from .. (next_seq - 1)
      BY <1>1, <2>1
  <2> QED BY <1>1, <2>1, <2>2 DEF Readable
<1> QED BY <1>3, <1>4

\* The ring with one more frame, which has arrived.
LEMMA PutTyped ==
    ASSUME Shape, Queued, NEW arr \in Nat \ {0}, ring' = Put(ring, next_seq, Record(arr)), next_seq' = next_seq + 1
    PROVE  /\ ring' \in [0 .. (Capacity - 1) -> Slots] /\ next_seq' \in Nat \ {0}
           /\ \A i \in DOMAIN ring' : ring'[i].seq # 0 => ring'[i].arr # 0
<1>1. Record(arr) \in Slots /\ Record(arr).arr = arr
    BY DEF Record, Slots, Shape
<1>2. ring' = [ring EXCEPT ![SlotOf(next_seq)] = Record(arr)]
    BY DEF Put
<1>3. ring \in [0 .. (Capacity - 1) -> Slots] /\ next_seq \in Nat \ {0}
    BY DEF Shape
<1>4. ring' \in [0 .. (Capacity - 1) -> Slots] /\ DOMAIN ring' = DOMAIN ring
    BY <1>1, <1>2, <1>3
<1>5. ASSUME NEW i \in DOMAIN ring', ring'[i].seq # 0
      PROVE  ring'[i].arr # 0
    BY <1>1, <1>2, <1>3, <1>4, <1>5 DEF Queued
<1> QED BY <1>3, <1>4, <1>5

\* One frame is read from the driver.
LEMMA TailMoves ==
    ASSUME Shape, Queued, rxq # <<>>, rxq' = Tail(rxq)
    PROVE  /\ rxq' \in Seq(Nat) /\ Len(rxq') <= DriverQueue
           /\ Head(rxq) = rxq[1] /\ 1 \in DOMAIN rxq /\ Head(rxq) \in 1 .. arrived /\ Head(rxq) \in Nat \ {0}
           /\ \A i \in DOMAIN rxq' : i \in Nat /\ i + 1 \in DOMAIN rxq /\ rxq'[i] = rxq[i + 1]
<1>1. rxq \in Seq(Nat) /\ arrived \in Nat /\ Len(rxq) \in Nat /\ DriverQueue \in Nat
    BY ParkAssumption DEF ParkAssumption, Shape
<1>2. Len(rxq) >= 1 /\ Head(rxq) = rxq[1] /\ 1 \in DOMAIN rxq
    BY <1>1
<1>3. rxq' \in Seq(Nat) /\ Len(rxq') = Len(rxq) - 1
    BY <1>1, <1>2
<1>4. \A i \in DOMAIN rxq' : i \in Nat /\ i + 1 \in DOMAIN rxq /\ rxq'[i] = rxq[i + 1]
    BY <1>1, <1>2, <1>3
<1>5. Head(rxq) \in 1 .. arrived
    BY <1>2 DEF Queued
<1> QED BY <1>1, <1>2, <1>3, <1>4, <1>5 DEF Queued

-------------------------------------------------------------------------------
(* What a step leaves alone, and what it must see to, for the invariant to stand *)

\* A step of one handle: the ring, the driver and the reader stand, and the other handles
\* stay as closed, as far on and as listened for as they were.
OnlyIts(h) ==
    /\ UNCHANGED <<ring, next_seq, reader, rxq, arrived>>
    /\ state' = "running" => state = "running"
    /\ \A o \in Handles \ {h} :
        /\ caller'[o] = caller[o] /\ closer'[o] = closer[o] /\ ghost'[o] = ghost[o]
        /\ unread'[o] = unread[o] /\ (o \in subs => o \in subs')
        /\ (handle'[o].closed <=> handle[o].closed) /\ handle'[o].cursor = handle[o].cursor

\* Its hold on drain_mu.
Holding(h) ==
    /\ drain_mu' = drain_mu \/ (drain_mu = Nobody /\ drain_mu' = h) \/ (drain_mu = h /\ drain_mu' = Nobody)
    /\ caller'[h].pc \in {"batch", "look", "admitted", "finishing"} => drain_mu' = h
    /\ caller'[h].pc = "register" /\ state' = "running" => drain_mu' = h

\* What the wire owes it.
Owing(h) ==
    /\ handle[h].closed => handle'[h].closed
    /\ closer'[h].pc # "open" => handle'[h].closed
    /\ ghost'[h].how = "lock" /\ ~handle'[h].closed => h \in subs' \/ unread'[h] = "fresh"
    /\ ghost'[h].how = "lock" => ghost[h].how = "lock" \/ handle'[h].closed
                                   \/ (drain_mu = h /\ caller[h].pc # "look" /\ caller'[h].pc # "look")
    /\ caller'[h].pc = "look" => caller[h].pc = "look" \/ ~readers_locked

\* How far its boundary drain has come.
Draws(h) ==
    /\ caller'[h].pc \in {"batch", "look"} =>
          \A i \in DOMAIN rxq : i + caller'[h].read + caller'[h].n > DriverQueue => rxq[i] > ghost'[h].began
    /\ caller'[h].pc \notin {"batch", "look", "finishing", "awaitdone"} => caller'[h].n = 0 /\ caller'[h].read = 0

\* Its cursor and its boundary.
Stands(h) ==
    /\ handle[h].cursor <= handle'[h].cursor /\ handle'[h].cursor <= next_seq
    /\ ghost'[h].floor <= arrived /\ ghost'[h].began <= arrived
    /\ \/ ghost'[h].floor <= ghost[h].floor
       \/ handle'[h].cursor = next_seq /\ \A i \in DOMAIN rxq : rxq[i] > ghost'[h].floor

\* A step of one handle that sees to all of it keeps the invariant.
LEMMA HandleMoves ==
    ASSUME IInv, Shape', NEW h \in Handles, OnlyIts(h), Holding(h), Owing(h), Draws(h), Stands(h)
    PROVE  IInv'
<1>a. /\ Shape /\ Queued /\ Locked /\ Owed /\ Drained /\ Behind /\ BoundaryExact
      /\ Reader \notin Handles /\ Nobody \notin Handles /\ Reader # Nobody
    BY ParkAssumption DEF IInv, ParkAssumption
<1>1. Queued'
    BY <1>a DEF Queued, OnlyIts, Stands
<1>2. Locked'
    BY <1>a DEF Locked, OnlyIts, Holding
<1>3. Owed'
  <2>1. ASSUME NEW o \in Handles, ghost'[o].how = "lock", ~handle'[o].closed
        PROVE  o \in subs' \/ unread'[o] = "fresh"
      BY <1>a, <2>1 DEF Owed, OnlyIts, Owing
  <2>2. ASSUME Draining', NEW o \in Handles, ghost'[o].how = "lock"
        PROVE  handle'[o].closed
    <3>1. CASE Draining
      <4>1. CASE o = h
        <5>1. CASE ghost[h].how = "lock"
            BY <1>a, <2>2, <3>1, <4>1, <5>1 DEF Owed, Owing
        <5>2. CASE drain_mu = h /\ caller[h].pc # "look"
            BY <1>a, <3>1, <5>2 DEF Draining, Locked
        <5> QED BY <2>2, <4>1, <5>1, <5>2 DEF Owing
      <4>2. CASE o # h
          BY <1>a, <2>2, <3>1, <4>2 DEF Owed, OnlyIts
      <4> QED BY <4>1, <4>2
    <3>2. CASE ~Draining
      <4>1. caller'[h].pc = "look" /\ caller[h].pc # "look" /\ ~readers_locked
          BY <2>2, <3>2 DEF Draining, OnlyIts, Owing
      <4>2. \A p \in Handles : ghost[p].how = "lock" => handle[p].closed
          BY <1>a, <4>1 DEF Owed, readers_locked
      <4> QED BY <2>2, <4>1, <4>2 DEF OnlyIts, Owing
    <3> QED BY <3>1, <3>2
  <2>3. \A o \in Handles : closer'[o].pc # "open" => handle'[o].closed
      BY <1>a DEF Owed, OnlyIts, Owing
  <2> QED BY <2>1, <2>2, <2>3 DEF Owed
<1>4. Drained'
    BY <1>a DEF Drained, OnlyIts, Draws
<1>5. Behind'
    BY <1>a DEF Behind, OnlyIts, Stands
<1>6. BoundaryExact'
  <2>0. /\ \A o \in Handles : handle[o].cursor \in Nat /\ handle'[o].cursor \in Nat
        /\ \A o \in Handles : ghost[o].floor \in Nat /\ ghost'[o].floor \in Nat
        /\ next_seq \in Nat /\ ring \in [0 .. (Capacity - 1) -> Slots]
      BY <1>a DEF Shape, LogicalHandles, Ghosts
  <2>1. ASSUME NEW o \in Handles, NEW s \in Readable(ring', o, handle'[o].cursor, next_seq')
        PROVE  ring'[SlotOf(s)].arr > ghost'[o].floor
    <3>1. ring' = ring /\ next_seq' = next_seq /\ handle[o].cursor <= handle'[o].cursor
        BY <2>0 DEF OnlyIts, Stands
    <3>2. s \in Readable(ring, o, handle[o].cursor, next_seq)
        BY <1>a, <2>0, <2>1, <3>1, ReadableShrinks
    <3>3. ring[SlotOf(s)].arr > ghost[o].floor
        BY <1>a, <3>2 DEF BoundaryExact
    <3>4. handle'[o].cursor # next_seq
        BY <2>0, <2>1, <3>1 DEF Readable
    <3>5. ghost'[o].floor <= ghost[o].floor
        BY <2>0, <3>4 DEF OnlyIts, Stands
    <3>6. ring[SlotOf(s)].arr \in Nat
      <4>1. s \in Nat \ {0}
          BY <1>a, <2>0, <3>2 DEF Readable, Shape, LogicalHandles
      <4> QED BY <2>0, <4>1, SlotInRing DEF Slots
    <3> QED BY <2>0, <3>1, <3>3, <3>5, <3>6
  <2>2. ASSUME NEW o \in Handles, NEW i \in DOMAIN rxq'
        PROVE  rxq'[i] > ghost'[o].floor
    <3>1. rxq' = rxq /\ rxq[i] \in Nat /\ rxq[i] > ghost[o].floor
        BY <1>a, <2>2 DEF OnlyIts, BoundaryExact, Shape
    <3> QED BY <2>0, <2>2, <3>1 DEF OnlyIts, Stands
  <2> QED BY <2>1, <2>2 DEF BoundaryExact
<1> QED BY <1>1, <1>2, <1>3, <1>4, <1>5, <1>6 DEF IInv

\* What a handle's step does to the types is seen to by its own record's.
LEMMA HandleTyped ==
    ASSUME Shape, NEW h \in Handles, OnlyIts(h),
           state' \in {"running", "closing", "failed", "closed"}, subs' \subseteq Handles,
           unread' \in [Handles -> {"absent", "fresh", "old"}], drain_mu' \in {drain_mu, h, Nobody},
           caller' \in [Handles -> Calls], closer' \in [Handles -> Closers],
           handle' \in [Handles -> LogicalHandles], ghost' \in [Handles -> Ghosts]
    PROVE  Shape'
BY DEF Shape, OnlyIts

\* A handle's step that changes no more than its call in progress, its hold on drain_mu, the
\* wire's state and who has a wake token.
LEMMA CallMoves ==
    ASSUME IInv, NEW h \in Handles, NEW r \in Calls, caller' = [caller EXCEPT ![h] = r],
           UNCHANGED <<rings, unread, reader, closer, rxq, arrived, ghost>>,
           state' \in {"running", "closing", "failed", "closed"}, state' = "running" => state = "running",
           handle' \in [Handles -> LogicalHandles],
           \A o \in Handles : (handle'[o].closed <=> handle[o].closed) /\ handle'[o].cursor = handle[o].cursor,
           Holding(h), Draws(h), r.pc = "look" => caller[h].pc = "look" \/ ~readers_locked
    PROVE  IInv'
<1>a. Shape /\ Queued /\ Owed /\ Behind
    BY DEF IInv
<1>b. /\ ring' = ring /\ next_seq' = next_seq /\ subs' = subs /\ unread' = unread /\ reader' = reader
      /\ closer' = closer /\ rxq' = rxq /\ arrived' = arrived /\ ghost' = ghost
    BY DEF rings
<1>1. OnlyIts(h) /\ caller'[h] = r /\ caller' \in [Handles -> Calls]
    BY <1>a, <1>b DEF OnlyIts, Shape
<1>2. drain_mu' \in {drain_mu, h, Nobody}
    BY DEF Holding
<1>3. Shape'
    BY <1>a, <1>b, <1>1, <1>2, HandleTyped DEF Shape
<1>4. Owing(h)
    BY <1>a, <1>b, <1>1 DEF Owing, Owed
<1>5. Stands(h)
  <2>1. handle[h].cursor \in Nat /\ ghost[h].floor \in Nat
      BY <1>a DEF Shape, LogicalHandles, Ghosts
  <2> QED BY <1>a, <1>b, <2>1 DEF Stands, Queued, Behind
<1> QED BY <1>1, <1>3, <1>4, <1>5, HandleMoves

\* The reader's: it takes nothing from the driver and puts nothing in the ring.
LEMMA ReaderMoves ==
    ASSUME IInv, UNCHANGED <<rings, unread, caller, closer, rxq, arrived, ghost>>,
           state' \in {"running", "closing", "failed", "closed"}, state' = "running" => state = "running",
           handle' \in [Handles -> LogicalHandles],
           \A o \in Handles : (handle'[o].closed <=> handle[o].closed) /\ handle'[o].cursor = handle[o].cursor,
           reader' \in [pc : ReaderPcs, n : Nat],
           \/ drain_mu' = drain_mu
           \/ drain_mu = Nobody /\ drain_mu' = Reader
           \/ drain_mu = Reader /\ drain_mu' = Nobody,
           reader'.pc \in {"drain", "reading"} => drain_mu' = Reader,
           reader'.pc = "drain" => reader.pc = "drain" \/ ~readers_locked
    PROVE  IInv'
<1>a. /\ Shape /\ Queued /\ Locked /\ Owed /\ Drained /\ Behind /\ BoundaryExact
      /\ Reader \notin Handles /\ Nobody \notin Handles /\ Reader # Nobody
    BY ParkAssumption DEF IInv, ParkAssumption
<1>b. /\ ring' = ring /\ next_seq' = next_seq /\ subs' = subs /\ unread' = unread
      /\ caller' = caller /\ closer' = closer /\ rxq' = rxq /\ arrived' = arrived /\ ghost' = ghost
    BY DEF rings
<1>1. Shape'
    BY <1>a, <1>b DEF Shape
<1>2. Queued' /\ Drained' /\ Behind'
    BY <1>a, <1>b DEF Queued, Drained, Behind
<1>3. Locked'
    BY <1>a, <1>b DEF Locked
<1>4. Owed'
  <2>1. Draining' => Draining \/ ~readers_locked
      BY <1>b DEF Draining
  <2>2. Draining' => \A o \in Handles : ghost[o].how = "lock" => handle[o].closed
      BY <1>a, <2>1 DEF Owed, readers_locked
  <2> QED BY <1>a, <1>b, <2>2 DEF Owed
<1>5. BoundaryExact'
    BY <1>a, <1>b DEF BoundaryExact
<1> QED BY <1>1, <1>2, <1>3, <1>4, <1>5 DEF IInv

\* A wake token given leaves a handle as closed and as far on as it was.
LEMMA WokenKeeps ==
    ASSUME Shape, NEW S
    PROVE  /\ Woken(handle, S) \in [Handles -> LogicalHandles]
           /\ \A o \in Handles : /\ Woken(handle, S)[o].closed <=> handle[o].closed
                                 /\ Woken(handle, S)[o].cursor = handle[o].cursor
BY DEF Shape, Woken, LogicalHandles

\* So does a failure taken.
LEMMA FailedKeeps ==
    ASSUME Shape, MarkFailed
    PROVE  /\ handle' \in [Handles -> LogicalHandles]
           /\ \A o \in Handles : (handle'[o].closed <=> handle[o].closed) /\ handle'[o].cursor = handle[o].cursor
           /\ state' \in {"running", "closing", "failed", "closed"} /\ state' # "running"
BY WokenKeeps DEF MarkFailed, Shape

LEMMA ReaderSame ==
    ASSUME IInv, UNCHANGED <<life, rings, heard, caller, closer, handle, driver, ghost>>,
           reader' \in [pc : ReaderPcs, n : Nat],
           \/ drain_mu' = drain_mu
           \/ drain_mu = Nobody /\ drain_mu' = Reader
           \/ drain_mu = Reader /\ drain_mu' = Nobody,
           reader'.pc \in {"drain", "reading"} => drain_mu' = Reader,
           reader'.pc = "drain" => reader.pc = "drain" \/ ~readers_locked
    PROVE  IInv'
<1>1. Shape
    BY DEF IInv
<1>2. /\ unread' = unread /\ caller' = caller /\ closer' = closer /\ rxq' = rxq /\ arrived' = arrived
      /\ ghost' = ghost /\ rings' = rings /\ state' = state /\ handle' = handle
    BY DEF life, heard, driver
<1>3. handle' \in [Handles -> LogicalHandles] /\ state' \in {"running", "closing", "failed", "closed"}
    BY <1>1, <1>2 DEF Shape
<1>4. \A o \in Handles : (handle'[o].closed <=> handle[o].closed) /\ handle'[o].cursor = handle[o].cursor
    BY <1>2
<1> QED BY <1>2, <1>3, <1>4, ReaderMoves

-------------------------------------------------------------------------------
(* The reader's steps *)

\* Those that only move it, or take and release drain_mu.
LEMMA ReaderKeeps ==
    ASSUME IInv, \/ ReaderStops \/ ReaderParks \/ ReaderResumes \/ ReaderUnparks \/ ReaderBatch
                 \/ ReaderDrained \/ ReaderDrainFails \/ ReaderLocks \/ ReaderTimesOut
    PROVE  IInv'
<1>a. Shape /\ Locked
    BY DEF IInv
<1>1. reader' \in [pc : ReaderPcs, n : Nat]
    BY DEF ReaderPcs, ReaderAt, ReaderExits, ReaderStops, ReaderParks, ReaderResumes, ReaderUnparks,
           ReaderBatch, ReaderDrained, ReaderDrainFails, ReaderLocks, ReaderTimesOut
<1>2. UNCHANGED <<life, rings, heard, caller, closer, handle, driver, ghost>>
    BY DEF ReaderStops, ReaderParks, ReaderResumes, ReaderUnparks,
           ReaderBatch, ReaderDrained, ReaderDrainFails, ReaderLocks, ReaderTimesOut
<1>3. /\ \/ drain_mu' = drain_mu
         \/ drain_mu = Nobody /\ drain_mu' = Reader
         \/ drain_mu = Reader /\ drain_mu' = Nobody
      /\ reader'.pc \in {"drain", "reading"} => drain_mu' = Reader
      /\ reader'.pc = "drain" => ~attentive_locked
    BY <1>a DEF Locked, ReaderAt, ReaderExits, ReaderStops, ReaderParks, ReaderResumes, ReaderUnparks,
           ReaderBatch, ReaderDrained, ReaderDrainFails, ReaderLocks, ReaderTimesOut
<1>4. reader'.pc = "drain" => ~readers_locked
    BY <1>3 DEF attentive_locked
<1> QED BY <1>1, <1>2, <1>3, <1>4, ReaderSame

\* Those that take a failure, or end it.
LEMMA ReaderEnds ==
    ASSUME IInv, ReaderFails \/ ReaderReadFails \/ ReaderFinishes
    PROVE  IInv'
<1>a. Shape /\ Locked
    BY DEF IInv
<1>1. /\ handle' \in [Handles -> LogicalHandles]
      /\ \A o \in Handles : (handle'[o].closed <=> handle[o].closed) /\ handle'[o].cursor = handle[o].cursor
      /\ state' \in {"running", "closing", "failed", "closed"} /\ state' # "running"
  <2>1. CASE MarkFailed
      BY <1>a, <2>1, FailedKeeps
  <2>2. CASE ReaderFinishes
      BY <1>a, <2>2 DEF ReaderFinishes, finish_close, Shape
  <2> QED BY <2>1, <2>2 DEF ReaderFails, ReaderReadFails
<1>2. /\ reader' \in [pc : ReaderPcs, n : Nat] /\ reader'.pc \notin {"drain", "reading"}
      /\ drain_mu' = drain_mu \/ (drain_mu = Reader /\ drain_mu' = Nobody)
    BY DEF ReaderPcs, ReaderAt, ReaderExits, ReaderFails, ReaderReadFails, ReaderFinishes
<1>3. UNCHANGED <<rings, unread, caller, closer, rxq, arrived, ghost>>
    BY DEF ReaderFails, ReaderReadFails, ReaderFinishes, heard, driver
<1> QED BY <1>1, <1>2, <1>3, ReaderMoves

-------------------------------------------------------------------------------
(* A caller's steps *)

\* A handle's step that changes no more than its call in progress and its hold on drain_mu.
LEMMA CallSame ==
    ASSUME IInv, NEW h \in Handles, NEW r \in Calls, caller' = [caller EXCEPT ![h] = r],
           UNCHANGED <<state, rings, unread, reader, closer, rxq, arrived, ghost>>,
           handle' = handle \/ (\E w \in BOOLEAN : handle' = [handle EXCEPT ![h].wake = w]),
           Holding(h), Draws(h), r.pc = "look" => caller[h].pc = "look" \/ ~readers_locked
    PROVE  IInv'
<1>1. Shape
    BY DEF IInv
<1>2. /\ handle' \in [Handles -> LogicalHandles]
      /\ \A o \in Handles : (handle'[o].closed <=> handle[o].closed) /\ handle'[o].cursor = handle[o].cursor
  <2>1. handle \in [Handles -> LogicalHandles]
      BY <1>1 DEF Shape
  <2>2. CASE handle' = handle
      BY <2>1, <2>2
  <2>3. ASSUME NEW w \in BOOLEAN, handle' = [handle EXCEPT ![h].wake = w]
        PROVE  /\ handle' \in [Handles -> LogicalHandles]
               /\ \A o \in Handles : (handle'[o].closed <=> handle[o].closed) /\ handle'[o].cursor = handle[o].cursor
    <3>1. [handle[h] EXCEPT !.wake = w] \in LogicalHandles
        BY <2>1 DEF LogicalHandles
    <3>2. handle' = [handle EXCEPT ![h] = [handle[h] EXCEPT !.wake = w]]
        BY <2>1, <2>3
    <3>3. /\ [handle[h] EXCEPT !.wake = w].cursor = handle[h].cursor
          /\ [handle[h] EXCEPT !.wake = w].closed <=> handle[h].closed
        BY <2>1 DEF LogicalHandles
    <3> QED BY <2>1, <3>1, <3>2, <3>3
  <2> QED BY <2>2, <2>3
<1>3. state' \in {"running", "closing", "failed", "closed"} /\ (state' = "running" => state = "running")
    BY <1>1 DEF Shape
<1> QED BY <1>2, <1>3, CallMoves

\* A call that ends counts nothing.
LEMMA CallTyped ==
    ASSUME NEW to \in CallerPcs
    PROVE  NoCall(to) \in Calls /\ NoCall(to).pc = to /\ NoCall(to).n = 0 /\ NoCall(to).read = 0
BY DEF Calls, NoCall

\* A call that moves or ends where nothing is asked of it, and takes no lock.
LEMMA CallQuiet ==
    ASSUME IInv, NEW h \in Handles, UNCHANGED <<state, rings, unread, reader, closer, driver, handle, ghost>>,
           drain_mu' = drain_mu \/ (drain_mu = h /\ drain_mu' = Nobody),
           NEW r \in Calls, caller' = [caller EXCEPT ![h] = r],
           r.pc \notin {"batch", "look", "admitted", "finishing", "register"},
           r.pc = "awaitdone" \/ (r.n = 0 /\ r.read = 0)
    PROVE  IInv'
<1>1. /\ caller \in [Handles -> Calls] /\ UNCHANGED <<rxq, arrived>>
    BY DEF IInv, Shape, driver
<1>2. caller'[h] = r
    BY <1>1
<1>3. Holding(h)
    BY <1>2 DEF Holding
<1>4. Draws(h)
    BY <1>2 DEF Draws
<1> QED BY <1>1, <1>3, <1>4, CallSame

\* A call that ends, a boundary drain given up with it.
LEMMA Ends ==
    ASSUME IInv, NEW h \in Handles, UNCHANGED <<state, rings, unread, reader, closer, driver, handle, ghost>>,
           drain_mu' = drain_mu \/ (drain_mu = h /\ drain_mu' = Nobody),
           NEW to \in CallerPcs \ {"batch", "look", "admitted", "finishing", "register"}, CallEnds(h, to)
    PROVE  IInv'
<1>1. NoCall(to) \in Calls /\ NoCall(to).pc = to /\ NoCall(to).n = 0 /\ NoCall(to).read = 0
    BY CallTyped
<1>2. caller' = [caller EXCEPT ![h] = NoCall(to)]
    BY DEF CallEnds
<1> QED BY <1>1, <1>2, CallQuiet

\* A call that goes on from where nothing is counted.
LEMMA Goes ==
    ASSUME IInv, NEW h \in Handles, UNCHANGED <<state, rings, unread, reader, closer, driver, handle, ghost, drain_mu>>,
           caller[h].pc \notin {"batch", "look", "finishing", "awaitdone"},
           NEW to \in CallerPcs \ {"batch", "look", "admitted", "finishing", "register", "awaitdone"},
           NEW op \in RecvOps \cup {"none", "join", "send", "sendsub"},
           caller' = [caller EXCEPT ![h].pc = to, ![h].op = op] \/ caller' = [caller EXCEPT ![h].pc = to]
    PROVE  IInv'
<1>a. caller \in [Handles -> Calls] /\ caller[h].n = 0 /\ caller[h].read = 0
    BY DEF IInv, Shape, Drained
<1>1. CASE caller' = [caller EXCEPT ![h].pc = to, ![h].op = op]
  <2> DEFINE r == [caller[h] EXCEPT !.pc = to, !.op = op]
  <2>1. r \in Calls /\ r.pc = to /\ r.n = 0 /\ r.read = 0
      BY <1>a DEF Calls
  <2>2. caller' = [caller EXCEPT ![h] = r]
      BY <1>a, <1>1
  <2> HIDE DEF r
  <2> QED BY <2>1, <2>2, CallQuiet
<1>2. CASE caller' = [caller EXCEPT ![h].pc = to]
  <2> DEFINE r == [caller[h] EXCEPT !.pc = to]
  <2>1. r \in Calls /\ r.pc = to /\ r.n = 0 /\ r.read = 0
      BY <1>a DEF Calls
  <2>2. caller' = [caller EXCEPT ![h] = r]
      BY <1>a, <1>2
  <2> HIDE DEF r
  <2> QED BY <2>1, <2>2, CallQuiet
<1> QED BY <1>1, <1>2

\* A step that changes nothing of the generation but who sends.
LEMMA Quiet ==
    ASSUME UNCHANGED <<life, rings, heard, reader, closer, handle, driver, ghost>>
    PROVE  UNCHANGED <<state, rings, unread, reader, closer, driver, handle, ghost>>
BY DEF life, heard

\* The calls' steps that end them, or move them on where they hold nothing.
LEMMA CallsKeep ==
    ASSUME IInv, NEW h \in Handles,
           \/ AdmitRefused(h) \/ BatchGivesUp(h) \/ AwaitDone(h) \/ SendStart(h) \/ Write(h) \/ WriteReturns(h)
           \/ RefreshCheck(h) \/ RecvHead(h) \/ RecvTimesOut(h) \/ \E op \in RecvOps : RecvStart(h, op)
    PROVE  IInv'
<1>a. Locked /\ caller[h] \in Calls
    BY DEF IInv, Shape
<1> DEFINE Frame == UNCHANGED <<state, rings, unread, reader, closer, driver, handle, ghost>>
<1>1. CASE AdmitRefused(h)
  <2>1. Frame
      BY <1>1 DEF AdmitRefused, life
  <2>2. PICK to \in {"joinfail", "idle"} : CallEnds(h, to)
      BY <1>1 DEF AdmitRefused
  <2>3. to \in CallerPcs \ {"batch", "look", "admitted", "finishing", "register"} /\ drain_mu' = drain_mu
      BY <1>1 DEF CallerPcs, AdmitRefused
  <2> QED BY <2>1, <2>2, <2>3, Ends
<1>2. CASE BatchGivesUp(h)
  <2>1. Frame /\ CallEnds(h, "idle") /\ drain_mu = h /\ drain_mu' = Nobody
      BY <1>a, <1>2, Quiet DEF BatchGivesUp, Locked
  <2>2. "idle" \in CallerPcs \ {"batch", "look", "admitted", "finishing", "register"}
      BY DEF CallerPcs
  <2> QED BY <2>1, <2>2, Ends
<1>3. CASE AwaitDone(h)
  <2>1. Frame
      BY <1>3, Quiet DEF AwaitDone
  <2>2. PICK to \in {"joinfail", "idle"} : CallEnds(h, to)
      BY <1>3 DEF AwaitDone
  <2>3. to \in CallerPcs \ {"batch", "look", "admitted", "finishing", "register"} /\ drain_mu' = drain_mu
      BY <1>3 DEF CallerPcs, AwaitDone
  <2> QED BY <2>1, <2>2, <2>3, Ends
<1>4. CASE SendStart(h)
  <2>1. Frame /\ drain_mu' = drain_mu /\ caller[h].pc = "idle"
      BY <1>4, Quiet DEF SendStart, Calling
  <2>2. PICK to \in {"write", "admit"}, op \in {"send", "sendsub"} :
            caller' = [caller EXCEPT ![h].pc = to, ![h].op = op]
      BY <1>4 DEF SendStart
  <2>3. to \in CallerPcs \ {"batch", "look", "admitted", "finishing", "register", "awaitdone"}
      BY DEF CallerPcs
  <2> QED BY <2>1, <2>2, <2>3, Goes
<1>5. CASE Write(h) \/ WriteReturns(h) \/ RefreshCheck(h) \/ RecvHead(h) \/ RecvTimesOut(h)
  <2>1. Frame /\ drain_mu' = drain_mu
      BY <1>5, Quiet DEF Write, WriteReturns, RefreshCheck, RecvHead, RecvTimesOut
  <2>2. \/ CallEnds(h, "idle")
        \/ \E from \in {"write", "writing", "refresh", "rhead"} :
              \E to \in {"writing", "refresh", "refreshing", "rlock"} : CallerAt(h, from, to)
      BY <1>5 DEF Write, WriteReturns, RefreshCheck, RecvHead, RecvTimesOut
  <2>3. CASE CallEnds(h, "idle")
    <3>1. "idle" \in CallerPcs \ {"batch", "look", "admitted", "finishing", "register"}
        BY DEF CallerPcs
    <3> QED BY <2>1, <2>3, <3>1, Ends
  <2>4. ASSUME NEW from \in {"write", "writing", "refresh", "rhead"},
               NEW to \in {"writing", "refresh", "refreshing", "rlock"}, CallerAt(h, from, to)
        PROVE  IInv'
    <3>1. to \in CallerPcs \ {"batch", "look", "admitted", "finishing", "register", "awaitdone"}
        BY DEF CallerPcs
    <3>2. caller' = [caller EXCEPT ![h].pc = to] /\ caller[h].pc = from
        BY <2>4 DEF CallerAt
    <3> QED BY <2>1, <3>1, <3>2, Goes
  <2> QED BY <2>2, <2>3, <2>4
<1>6. ASSUME NEW op \in RecvOps, RecvStart(h, op)
      PROVE  IInv'
  <2>1. Frame /\ drain_mu' = drain_mu /\ caller[h].pc = "idle" /\ caller' = [caller EXCEPT ![h].pc = "rhead", ![h].op = op]
      BY <1>6, Quiet DEF RecvStart, Calling
  <2>2. "rhead" \in CallerPcs \ {"batch", "look", "admitted", "finishing", "register", "awaitdone"}
      BY DEF CallerPcs
  <2> QED BY <2>1, <2>2, Goes
<1> QED BY <1>1, <1>2, <1>3, <1>4, <1>5, <1>6

\* A receive that is woken: only its token is spent.
LEMMA WakesKeep == ASSUME IInv, NEW h \in Handles, RecvWakes(h) PROVE IInv'
<1>a. caller \in [Handles -> Calls] /\ caller[h].pc = "rwait" /\ caller[h].n = 0 /\ caller[h].read = 0
    BY DEF IInv, Shape, Drained, RecvWakes, CallerAt
<1> DEFINE r == [caller[h] EXCEPT !.pc = "rhead"]
<1>1. r \in Calls /\ caller' = [caller EXCEPT ![h] = r] /\ r.pc = "rhead" /\ r.n = 0 /\ r.read = 0 /\ caller'[h] = r
    BY <1>a DEF RecvWakes, CallerAt, Calls, CallerPcs
<1> HIDE DEF r
<1>2. UNCHANGED <<state, rings, unread, reader, closer, rxq, arrived, ghost>> /\ drain_mu' = drain_mu
    BY DEF RecvWakes, life, heard, driver
<1>3. \E w \in BOOLEAN : handle' = [handle EXCEPT ![h].wake = w]
    BY DEF RecvWakes
<1>4. Holding(h) /\ Draws(h)
    BY <1>1, <1>2 DEF Holding, Draws
<1> QED BY <1>1, <1>2, <1>3, <1>4, CallSame

\* A call that takes drain_mu and finds the wire attentive, or that a drain's next batch begins.
LEMMA LocksKeep ==
    ASSUME IInv, NEW h \in Handles, AdmitAttentive(h) \/ BatchBegins(h)
    PROVE  IInv'
<1>a. caller \in [Handles -> Calls] /\ Locked /\ Drained
    BY DEF IInv, Shape
<1>b. UNCHANGED <<state, rings, unread, reader, closer, rxq, arrived, ghost>> /\ handle' = handle
    BY DEF AdmitAttentive, BatchBegins, life, heard, driver
<1>1. CASE AdmitAttentive(h)
  <2> DEFINE r == [caller[h] EXCEPT !.pc = "admitted"]
  <2>1. r \in Calls /\ caller' = [caller EXCEPT ![h] = r] /\ caller'[h] = r /\ r.pc = "admitted"
        /\ r.n = caller[h].n /\ r.read = caller[h].read /\ caller[h].pc = "admit"
      BY <1>a, <1>1 DEF AdmitAttentive, CallerAt, Calls, CallerPcs
  <2> HIDE DEF r
  <2>2. Holding(h)
      BY <1>1, <2>1 DEF AdmitAttentive, Holding
  <2>3. Draws(h)
      BY <1>a, <2>1 DEF Drained, Draws
  <2> QED BY <1>b, <2>1, <2>2, <2>3, CallSame
<1>2. CASE BatchBegins(h)
  <2> DEFINE r == [caller[h] EXCEPT !.pc = "look"]
  <2>1. r \in Calls /\ caller' = [caller EXCEPT ![h] = r] /\ caller'[h] = r /\ r.pc = "look"
        /\ r.n = caller[h].n /\ r.read = caller[h].read /\ caller[h].pc = "batch"
      BY <1>a, <1>2 DEF BatchBegins, CallerAt, Calls, CallerPcs
  <2> HIDE DEF r
  <2>2. Holding(h) /\ ~readers_locked
      BY <1>a, <1>2, <2>1 DEF BatchBegins, Locked, Holding
  <2>3. Draws(h)
      BY <1>a, <1>b, <2>1 DEF Drained, Draws
  <2> QED BY <1>b, <2>1, <2>2, <2>3, CallSame
<1> QED BY <1>1, <1>2

\* A boundary drain that meets a failure, and takes it.
LEMMA FailuresKeep ==
    ASSUME IInv, NEW h \in Handles, BoundaryFails(h) \/ BoundaryFinishes(h)
    PROVE  IInv'
<1>a. caller \in [Handles -> Calls] /\ Shape /\ Locked /\ Drained
    BY DEF IInv, Shape
<1>b. UNCHANGED <<rings, unread, reader, closer, rxq, arrived, ghost>>
    BY DEF BoundaryFails, BoundaryFinishes, heard, driver
<1>1. /\ handle' \in [Handles -> LogicalHandles]
      /\ \A o \in Handles : (handle'[o].closed <=> handle[o].closed) /\ handle'[o].cursor = handle[o].cursor
      /\ state' \in {"running", "closing", "failed", "closed"} /\ state' # "running"
  <2>1. CASE MarkFailed
      BY <1>a, <2>1, FailedKeeps
  <2>2. CASE BoundaryFinishes(h)
      BY <1>a, <2>2 DEF BoundaryFinishes, finish_close, Shape
  <2> QED BY <2>1, <2>2 DEF BoundaryFails
<1>2. PICK to \in {"finishing", "awaitdone"} : /\ caller' = [caller EXCEPT ![h].pc = to]
                                              /\ caller[h].pc \in {"look", "finishing"}
                                              /\ (drain_mu' = drain_mu \/ (to = "awaitdone" /\ drain_mu' = Nobody))
    BY DEF BoundaryFails, BoundaryFinishes, CallerAt
<1> DEFINE r == [caller[h] EXCEPT !.pc = to]
<1>3. to \in CallerPcs /\ caller[h] \in Calls
    BY <1>a, <1>2 DEF CallerPcs
<1>4. r \in Calls /\ r.pc = to
    BY <1>3 DEF Calls
<1>5. caller' = [caller EXCEPT ![h] = r]
    BY <1>a, <1>2
<1>6. caller'[h] = r
    BY <1>a, <1>5
<1> HIDE DEF r
<1>7. drain_mu = h
    BY <1>a, <1>2 DEF Locked
<1>8. Holding(h) /\ Draws(h)
    BY <1>2, <1>4, <1>6, <1>7 DEF Holding, Draws
<1> QED BY <1>b, <1>1, <1>2, <1>4, <1>5, <1>8, CallMoves

-------------------------------------------------------------------------------
(* The steps that move a handle's cursor, its boundary, or what it is owed *)

\* A step of one handle whose call, record and ghost become the ones named.
LEMMA Becomes ==
    ASSUME IInv, NEW h \in Handles, NEW r \in Calls, NEW c \in Closers, NEW l \in LogicalHandles, NEW g \in Ghosts,
           caller' = [caller EXCEPT ![h] = r], closer' = [closer EXCEPT ![h] = c],
           handle' = [handle EXCEPT ![h] = l], ghost' = [ghost EXCEPT ![h] = g],
           UNCHANGED <<ring, next_seq, reader, rxq, arrived>>,
           state' \in {"running", "closing", "failed", "closed"}, state' = "running" => state = "running",
           subs' \subseteq Handles, \A o \in Handles \ {h} : o \in subs => o \in subs',
           unread' \in [Handles -> {"absent", "fresh", "old"}], \A o \in Handles \ {h} : unread'[o] = unread[o],
           \* the hold on drain_mu
           drain_mu' = drain_mu \/ (drain_mu = Nobody /\ drain_mu' = h) \/ (drain_mu = h /\ drain_mu' = Nobody),
           r.pc \in {"batch", "look", "admitted", "finishing"} => drain_mu' = h,
           r.pc = "register" /\ state' = "running" => drain_mu' = h,
           \* what is owed
           handle[h].closed => l.closed, c.pc # "open" => l.closed,
           g.how = "lock" /\ ~l.closed => h \in subs' \/ unread'[h] = "fresh",
           g.how = "lock" => ghost[h].how = "lock" \/ l.closed \/ (drain_mu = h /\ caller[h].pc # "look"),
           r.pc # "look" \/ r = caller[h],
           \* the boundary
           r.pc = "batch" => \A i \in DOMAIN rxq : i + r.read + r.n > DriverQueue => rxq[i] > g.began,
           r.pc = "look" => \A i \in DOMAIN rxq : i + r.read + r.n > DriverQueue => rxq[i] > g.began,
           r.pc \notin {"batch", "look", "finishing", "awaitdone"} => r.n = 0 /\ r.read = 0,
           handle[h].cursor <= l.cursor, l.cursor <= next_seq, g.floor <= arrived, g.began <= arrived,
           g.floor <= ghost[h].floor \/ (l.cursor = next_seq /\ \A i \in DOMAIN rxq : rxq[i] > g.floor)
    PROVE  IInv'
<1>a. Shape
    BY DEF IInv
<1>1. caller'[h] = r /\ closer'[h] = c /\ handle'[h] = l /\ ghost'[h] = g
    BY <1>a DEF Shape
<1>2. /\ caller' \in [Handles -> Calls] /\ closer' \in [Handles -> Closers]
      /\ handle' \in [Handles -> LogicalHandles] /\ ghost' \in [Handles -> Ghosts]
    BY <1>a DEF Shape
<1>3. OnlyIts(h)
    BY <1>a DEF Shape, OnlyIts
<1>4. drain_mu' \in {drain_mu, h, Nobody}
    OBVIOUS
<1>5. Shape'
    BY <1>a, <1>2, <1>3, <1>4, HandleTyped
<1>6. Holding(h)
    BY <1>1 DEF Holding
<1>7. Owing(h)
  <2>1. handle[h].closed => handle'[h].closed
      BY <1>1
  <2>2. closer'[h].pc # "open" => handle'[h].closed
      BY <1>1
  <2>3. ghost'[h].how = "lock" /\ ~handle'[h].closed => h \in subs' \/ unread'[h] = "fresh"
      BY <1>1
  <2>4. ghost'[h].how = "lock" => ghost[h].how = "lock" \/ handle'[h].closed
                                   \/ (drain_mu = h /\ caller[h].pc # "look" /\ caller'[h].pc # "look")
      BY <1>1
  <2>5. caller'[h].pc = "look" => caller[h].pc = "look" \/ ~readers_locked
      BY <1>1
  <2> QED BY <2>1, <2>2, <2>3, <2>4, <2>5 DEF Owing
<1>8. Draws(h)
    BY <1>1 DEF Draws
<1>9. Stands(h)
    BY <1>1 DEF Stands
<1> QED BY <1>3, <1>5, <1>6, <1>7, <1>8, <1>9, HandleMoves

\* Opening onto a running wire: the cursor is taken at the tail.
LEMMA JoinKeeps == ASSUME IInv, NEW h \in Handles, Join(h) PROVE IInv'
<1>a. Shape /\ Queued /\ Locked /\ Owed /\ Drained /\ Behind
    BY DEF IInv
<1> DEFINE r == [caller[h] EXCEPT !.pc = "admit", !.op = "join"]
           l == [handle[h] EXCEPT !.cursor = next_seq]
           n == IF reader.pc = "parked" /\ ~attentive_locked THEN arrived ELSE 0
           g == [ghost[h] EXCEPT !.opened = n]
<1>1. /\ caller[h] \in Calls /\ closer[h] \in Closers /\ handle[h] \in LogicalHandles /\ ghost[h] \in Ghosts
      /\ n \in Nat /\ next_seq \in Nat \ {0} /\ caller[h].pc = "none" /\ caller[h].n = 0 /\ caller[h].read = 0
    BY <1>a DEF Shape, Join, Drained
<1> HIDE DEF n
<1>2. r \in Calls /\ r.pc = "admit" /\ r.n = 0 /\ r.read = 0
    BY <1>1 DEF Calls, CallerPcs
<1>3. l \in LogicalHandles /\ (l.closed <=> handle[h].closed) /\ l.cursor = next_seq
    BY <1>1 DEF LogicalHandles
<1>4. g \in Ghosts /\ g.how = ghost[h].how /\ g.floor = ghost[h].floor /\ g.began = ghost[h].began
    BY <1>1 DEF Ghosts
<1>5. /\ caller' = [caller EXCEPT ![h] = r] /\ closer' = [closer EXCEPT ![h] = closer[h]]
      /\ handle' = [handle EXCEPT ![h] = l]
    BY <1>a DEF Shape, Join
<1>6. ghost' = [ghost EXCEPT ![h] = g]
    BY <1>a DEF Shape, Join, n
<1>7. /\ ring' = ring /\ next_seq' = next_seq /\ reader' = reader /\ rxq' = rxq /\ arrived' = arrived
      /\ state' = state /\ subs' = subs /\ unread' = unread /\ drain_mu' = drain_mu
    BY DEF Join, rings, driver
<1> HIDE DEF r, l, g
<1>8. handle[h].cursor <= l.cursor /\ l.cursor <= next_seq /\ g.floor <= arrived /\ g.began <= arrived
      /\ g.floor <= ghost[h].floor
  <2>1. /\ handle[h].cursor \in Nat /\ handle[h].cursor <= next_seq
        /\ ghost[h].floor \in Nat /\ ghost[h].floor <= arrived /\ ghost[h].began <= arrived
      BY <1>a, <1>1 DEF Behind, Queued, Ghosts, LogicalHandles
  <2> QED BY <1>1, <1>3, <1>4, <2>1
<1>9. /\ g.how = "lock" /\ ~l.closed => h \in subs' \/ unread'[h] = "fresh"
      /\ closer[h].pc # "open" => l.closed
    BY <1>a, <1>3, <1>4, <1>7 DEF Owed
<1>10. /\ state' \in {"running", "closing", "failed", "closed"} /\ subs' \subseteq Handles
       /\ unread' \in [Handles -> {"absent", "fresh", "old"}]
    BY <1>a, <1>7 DEF Shape
<1> QED BY <1>1, <1>2, <1>3, <1>4, <1>5, <1>6, <1>7, <1>8, <1>9, <1>10, Becomes

\* A handle that is admitted, or that receives first, finds nobody reading: its drain begins.
LEMMA DrainBegins == ASSUME IInv, NEW h \in Handles, AdmitParked(h) \/ RecvLocks(h) PROVE IInv'
<1>a. Shape /\ Queued /\ Locked /\ Owed /\ Drained /\ Behind
    BY DEF IInv
<1>1. /\ caller[h] \in Calls /\ closer[h] \in Closers /\ handle[h] \in LogicalHandles /\ ghost[h] \in Ghosts
      /\ arrived \in Nat /\ next_seq \in Nat \ {0} /\ caller[h].n = 0 /\ caller[h].read = 0
    BY <1>a DEF Shape, AdmitParked, RecvLocks, CallerAt, Drained
<1>2. PICK r \in Calls : /\ caller' = [caller EXCEPT ![h] = r] /\ r.n = 0 /\ r.read = 0
                         /\ r.pc = "batch" \/ r.pc = "register"
                         /\ r.pc = "batch" => drain_mu' = h
                         /\ r.pc = "register" => drain_mu' = h \/ state # "running"
  <2>1. CASE \E p \in BOOLEAN : caller' = [caller EXCEPT ![h].pc = "batch", ![h].pub = p] /\ drain_mu' = h
    <3>1. PICK p \in BOOLEAN : caller' = [caller EXCEPT ![h].pc = "batch", ![h].pub = p] /\ drain_mu' = h
        BY <2>1
    <3> DEFINE r == [caller[h] EXCEPT !.pc = "batch", !.pub = p]
    <3>2. r \in Calls /\ r.n = 0 /\ r.read = 0 /\ r.pc = "batch"
        BY <1>1 DEF Calls, CallerPcs
    <3>3. caller' = [caller EXCEPT ![h] = r]
        BY <1>a, <3>1 DEF Shape
    <3> QED BY <3>1, <3>2, <3>3
  <2>2. CASE caller' = [caller EXCEPT ![h].pc = "register"] /\ (drain_mu' = h \/ state # "running")
    <3> DEFINE r == [caller[h] EXCEPT !.pc = "register"]
    <3>2. r \in Calls /\ r.n = 0 /\ r.read = 0 /\ r.pc = "register"
        BY <1>1 DEF Calls, CallerPcs
    <3>3. caller' = [caller EXCEPT ![h] = r]
        BY <1>a, <2>2 DEF Shape
    <3> QED BY <2>2, <3>2, <3>3
  <2> QED BY <2>1, <2>2 DEF AdmitParked, RecvLocks, CallerAt
<1>3. PICK l \in LogicalHandles : /\ handle' = [handle EXCEPT ![h] = l] /\ (l.closed <=> handle[h].closed)
                                  /\ l.cursor = handle[h].cursor \/ l.cursor = next_seq
  <2>1. CASE handle' = handle
    <3>1. handle' = [handle EXCEPT ![h] = handle[h]]
        BY <1>a, <2>1 DEF Shape
    <3> QED BY <1>1, <3>1
  <2>2. CASE handle' = [handle EXCEPT ![h].cursor = next_seq]
    <3> DEFINE l == [handle[h] EXCEPT !.cursor = next_seq]
    <3>1. l \in LogicalHandles /\ (l.closed <=> handle[h].closed) /\ l.cursor = next_seq
        BY <1>1 DEF LogicalHandles
    <3>2. handle' = [handle EXCEPT ![h] = l]
        BY <1>a, <2>2 DEF Shape
    <3> QED BY <3>1, <3>2
  <2> QED BY <2>1, <2>2 DEF AdmitParked, RecvLocks
<1>4. PICK g \in Ghosts : /\ ghost' = [ghost EXCEPT ![h] = g] /\ g.how = ghost[h].how
                          /\ g.floor = ghost[h].floor /\ g.began <= arrived
  <2>1. CASE ghost' = ghost
    <3>1. ghost' = [ghost EXCEPT ![h] = ghost[h]]
        BY <1>a, <2>1 DEF Shape
    <3>2. ghost[h].began <= arrived
        BY <1>a DEF Queued
    <3> QED BY <1>1, <3>1, <3>2
  <2>2. CASE ghost' = [ghost EXCEPT ![h].began = arrived]
    <3> DEFINE g == [ghost[h] EXCEPT !.began = arrived]
    <3>1. g \in Ghosts /\ g.how = ghost[h].how /\ g.floor = ghost[h].floor /\ g.began <= arrived
        BY <1>1 DEF Ghosts
    <3>2. ghost' = [ghost EXCEPT ![h] = g]
        BY <1>a, <2>2 DEF Shape
    <3> HIDE DEF g
    <3> QED BY <3>1, <3>2
  <2> QED BY <2>1, <2>2 DEF AdmitParked, RecvLocks
<1>5. /\ ring' = ring /\ next_seq' = next_seq /\ reader' = reader /\ rxq' = rxq /\ arrived' = arrived
      /\ state' = state /\ subs' = subs /\ unread' = unread /\ closer' = [closer EXCEPT ![h] = closer[h]]
      /\ drain_mu' = drain_mu \/ (drain_mu = Nobody /\ drain_mu' = h)
    BY <1>a DEF Shape, AdmitParked, RecvLocks, rings, life, driver, heard
<1>6. handle[h].cursor <= l.cursor /\ l.cursor <= next_seq /\ g.floor <= arrived /\ g.floor <= ghost[h].floor
  <2>1. handle[h].cursor \in Nat /\ handle[h].cursor <= next_seq /\ ghost[h].floor \in Nat /\ ghost[h].floor <= arrived
      BY <1>a, <1>1 DEF Behind, Queued, Ghosts, LogicalHandles
  <2> QED BY <1>1, <1>3, <1>4, <2>1
<1>7. /\ g.how = "lock" /\ ~l.closed => h \in subs' \/ unread'[h] = "fresh"
      /\ closer[h].pc # "open" => l.closed
    BY <1>a, <1>3, <1>4, <1>5 DEF Owed
<1>8. r.pc = "batch" => \A i \in DOMAIN rxq : i + r.read + r.n > DriverQueue => rxq[i] > g.began
  <2>1. Len(rxq) \in Nat /\ Len(rxq) <= DriverQueue /\ DOMAIN rxq = 1 .. Len(rxq) /\ DriverQueue \in Nat
      BY <1>a, ParkAssumption DEF ParkAssumption, Shape, Queued
  <2> QED BY <1>2, <2>1
<1>9. /\ state' \in {"running", "closing", "failed", "closed"} /\ subs' \subseteq Handles
      /\ unread' \in [Handles -> {"absent", "fresh", "old"}]
    BY <1>a, <1>5 DEF Shape
<1> QED BY <1>1, <1>2, <1>3, <1>4, <1>5, <1>6, <1>7, <1>8, <1>9, Becomes

\* A boundary taken at the tail, with nothing queued from before it.
LEMMA Establishes ==
    ASSUME IInv, NEW h \in Handles, NEW floor \in Nat, Established(h, floor), caller[h].pc \in {"batch", "look"},
           floor <= arrived, \A i \in DOMAIN rxq : rxq[i] > floor,
           UNCHANGED <<life, done, rings, heard, drain_mu, send_mu, reader, closer, driver>>
    PROVE  IInv'
<1>a. Shape /\ Queued /\ Locked /\ Owed /\ Behind /\ BoundaryExact
    BY DEF IInv
<1> DEFINE to == IF caller[h].op \in RecvOps THEN "register" ELSE "admitted"
           r == [NoCall(to) EXCEPT !.op = caller[h].op]
           l == [handle[h] EXCEPT !.cursor = next_seq]
           f == IF floor > ghost[h].floor THEN floor ELSE ghost[h].floor
           g == [ghost[h] EXCEPT !.floor = f, !.began = 0]
<1>1. /\ caller[h] \in Calls /\ closer[h] \in Closers /\ handle[h] \in LogicalHandles /\ ghost[h] \in Ghosts
      /\ arrived \in Nat /\ next_seq \in Nat \ {0}
    BY <1>a DEF Shape
<1>2. to \in CallerPcs /\ to \in {"register", "admitted"}
    BY DEF CallerPcs
<1> HIDE DEF to
<1>3. r \in Calls /\ r.pc = to /\ r.n = 0 /\ r.read = 0
    BY <1>1, <1>2 DEF Calls, NoCall
<1>4. l \in LogicalHandles /\ (l.closed <=> handle[h].closed) /\ l.cursor = next_seq
    BY <1>1 DEF LogicalHandles
<1>5. /\ f \in Nat /\ f <= arrived
      /\ \A i \in DOMAIN rxq : rxq[i] > f
    BY <1>a, <1>1 DEF Ghosts, Queued, BoundaryExact
<1>6. ghost' = [ghost EXCEPT ![h] = g]
    BY <1>a DEF Shape, Established
<1> HIDE DEF f
<1>7. g \in Ghosts /\ g.how = ghost[h].how /\ g.floor = f /\ g.began = 0
    BY <1>1, <1>5 DEF Ghosts
<1>8. /\ caller' = [caller EXCEPT ![h] = r] /\ closer' = [closer EXCEPT ![h] = closer[h]]
      /\ handle' = [handle EXCEPT ![h] = l]
    BY <1>a DEF Shape, Established, to
<1> HIDE DEF r, l, g
<1>9. /\ ring' = ring /\ next_seq' = next_seq /\ reader' = reader /\ rxq' = rxq /\ arrived' = arrived
      /\ state' = state /\ subs' = subs /\ unread' = unread /\ drain_mu' = drain_mu /\ drain_mu = h
    BY <1>a DEF rings, life, driver, heard, Locked
<1>10. handle[h].cursor <= l.cursor /\ l.cursor <= next_seq /\ g.floor <= arrived /\ g.began <= arrived
    BY <1>a, <1>1, <1>4, <1>5, <1>7 DEF Behind
<1>11. /\ g.how = "lock" /\ ~l.closed => h \in subs' \/ unread'[h] = "fresh"
       /\ closer[h].pc # "open" => l.closed
    BY <1>a, <1>4, <1>7, <1>9 DEF Owed
<1>12. /\ state' \in {"running", "closing", "failed", "closed"} /\ subs' \subseteq Handles
       /\ unread' \in [Handles -> {"absent", "fresh", "old"}]
    BY <1>a, <1>9 DEF Shape
<1>13. g.floor <= ghost[h].floor \/ (l.cursor = next_seq /\ \A i \in DOMAIN rxq : rxq[i] > g.floor)
    BY <1>4, <1>5, <1>7
<1>14. r.pc # "look" /\ r.pc # "batch" /\ r.pc # "finishing"
    BY <1>2, <1>3
<1> QED BY <1>1, <1>3, <1>4, <1>7, <1>8, <1>6, <1>9, <1>10, <1>11, <1>12, <1>13, <1>14, Becomes

\* A boundary drain's end: as many frames as the driver can queue were read, or it is empty,
\* or the drain establishes nothing.
LEMMA BoundariesKeep ==
    ASSUME IInv, NEW h \in Handles, BatchEnds(h) \/ BoundaryEmpty(h)
    PROVE  IInv'
<1>a. Shape /\ Queued /\ Drained
    BY DEF IInv
<1>b. UNCHANGED <<life, done, rings, heard, drain_mu, send_mu, reader, closer, driver>>
      /\ caller[h].pc \in {"batch", "look"}
    BY DEF BatchEnds, BoundaryEmpty
<1>1. PICK floor \in {ghost[h].began, 0, arrived} :
        /\ Established(h, floor)
        /\ floor = 0 \/ rxq = <<>> \/ (floor = ghost[h].began /\ caller[h].read >= BoundaryFrames)
    BY DEF BatchEnds, BoundaryEmpty
<1>2. /\ arrived \in Nat /\ ghost[h].began \in Nat /\ ghost[h].began <= arrived
      /\ caller[h].read \in Nat /\ caller[h].n \in Nat /\ DriverQueue \in Nat /\ BoundaryFrames \in Nat
      /\ BoundaryFrames >= DriverQueue /\ \A i \in DOMAIN rxq : i \in Nat \ {0}
  <2>1. caller[h] \in Calls /\ ghost[h] \in Ghosts /\ arrived \in Nat /\ rxq \in Seq(Nat)
      BY <1>a DEF Shape
  <2>2. caller[h].read \in Nat /\ caller[h].n \in Nat /\ ghost[h].began \in Nat
      BY <2>1 DEF Calls, Ghosts
  <2>3. ghost[h].began <= arrived
      BY <1>a DEF Queued
  <2>4. DriverQueue \in Nat /\ BoundaryFrames \in Nat /\ BoundaryFrames >= DriverQueue
      BY ParkAssumption DEF ParkAssumption
  <2>5. \A i \in DOMAIN rxq : i \in Nat \ {0}
      BY <2>1
  <2> QED BY <2>1, <2>2, <2>3, <2>4, <2>5
<1>3. floor \in Nat /\ floor <= arrived
    BY <1>1, <1>2
<1>4. \A i \in DOMAIN rxq : rxq[i] > floor
  <2>1. CASE floor = 0
      BY <1>a, <1>2, <2>1 DEF Queued
  <2>2. CASE rxq = <<>>
      BY <2>2
  <2>3. CASE floor = ghost[h].began /\ caller[h].read >= BoundaryFrames
      BY <1>a, <1>b, <1>2, <2>3 DEF Drained
  <2> QED BY <1>1, <2>1, <2>2, <2>3
<1> QED BY <1>b, <1>1, <1>3, <1>4, Establishes

\* A step that changes a handle's call and what it is owed, never its cursor or its boundary.
LEMMA OwedMoves ==
    ASSUME IInv, NEW h \in Handles, NEW r \in Calls, NEW w \in {"lock", "stamp", "none"}, NEW since \in Nat,
           caller' = [caller EXCEPT ![h] = r],
           ghost' = [ghost EXCEPT ![h] = [ghost[h] EXCEPT !.since = since, !.how = w]],
           UNCHANGED <<state, rings, reader, closer, handle, driver>>,
           unread' = unread \/ \E u \in {"absent", "fresh", "old"} : unread' = [unread EXCEPT ![h] = u],
           drain_mu' = drain_mu \/ (drain_mu = h /\ drain_mu' = Nobody),
           r = caller[h] \/ (r.pc \notin {"batch", "look", "admitted", "finishing", "register", "awaitdone"}
                             /\ r.n = 0 /\ r.read = 0),
           r = caller[h] => drain_mu' = drain_mu,
           w = "lock" => unread'[h] = "fresh" \/ (unread'[h] = unread[h] /\ ghost[h].how = "lock"),
           w = "lock" => ghost[h].how = "lock" \/ (drain_mu = h /\ caller[h].pc # "look")
    PROVE  IInv'
<1>a. Shape /\ Queued /\ Locked /\ Owed /\ Drained /\ Behind
    BY DEF IInv
<1> DEFINE g == [ghost[h] EXCEPT !.since = since, !.how = w]
<1>1. /\ caller[h] \in Calls /\ closer[h] \in Closers /\ handle[h] \in LogicalHandles /\ ghost[h] \in Ghosts
      /\ arrived \in Nat /\ next_seq \in Nat \ {0} /\ handle[h].cursor \in Nat /\ ghost[h].floor \in Nat
    BY <1>a DEF Shape, LogicalHandles, Ghosts
<1>2. g \in Ghosts /\ g.how = w /\ g.floor = ghost[h].floor /\ g.began = ghost[h].began
    BY <1>1 DEF Ghosts
<1>3. ghost' = [ghost EXCEPT ![h] = g]
    OBVIOUS
<1> HIDE DEF g
<1>4. closer' = [closer EXCEPT ![h] = closer[h]] /\ handle' = [handle EXCEPT ![h] = handle[h]]
    BY <1>a DEF Shape
<1>5. /\ ring' = ring /\ next_seq' = next_seq /\ reader' = reader /\ rxq' = rxq /\ arrived' = arrived
      /\ state' = state /\ subs' = subs
    BY DEF rings, driver
<1>6. handle[h].cursor <= next_seq /\ g.floor <= arrived /\ g.began <= arrived /\ g.floor <= ghost[h].floor
    BY <1>a, <1>1, <1>2 DEF Behind, Queued
<1>7. /\ g.how = "lock" /\ ~handle[h].closed => h \in subs' \/ unread'[h] = "fresh"
      /\ closer[h].pc # "open" => handle[h].closed
    BY <1>a, <1>2, <1>5 DEF Owed
<1>8. /\ state' \in {"running", "closing", "failed", "closed"} /\ subs' \subseteq Handles
      /\ unread' \in [Handles -> {"absent", "fresh", "old"}] /\ \A o \in Handles \ {h} : unread'[o] = unread[o]
    BY <1>a, <1>5 DEF Shape
<1>9. /\ r.pc \in {"batch", "look", "admitted", "finishing"} => drain_mu' = h
      /\ r.pc = "register" /\ state' = "running" => drain_mu' = h
    BY <1>a, <1>5 DEF Locked
<1>10. /\ r.pc \in {"batch", "look"} => \A i \in DOMAIN rxq : i + r.read + r.n > DriverQueue => rxq[i] > g.began
       /\ r.pc \notin {"batch", "look", "finishing", "awaitdone"} => r.n = 0 /\ r.read = 0
    BY <1>a, <1>2 DEF Drained
<1>11. r.pc # "look" \/ r = caller[h]
    OBVIOUS
<1>12. /\ r.pc = "batch" => \A i \in DOMAIN rxq : i + r.read + r.n > DriverQueue => rxq[i] > g.began
       /\ r.pc = "look" => \A i \in DOMAIN rxq : i + r.read + r.n > DriverQueue => rxq[i] > g.began
    BY <1>10
<1>13. handle[h].cursor <= handle[h].cursor
    BY <1>1
<1>14. g.how = "lock" => ghost[h].how = "lock" \/ handle[h].closed \/ (drain_mu = h /\ caller[h].pc # "look")
    BY <1>2
<1>15. /\ state' = "running" => state = "running"
       /\ \A o \in Handles \ {h} : o \in subs => o \in subs'
       /\ drain_mu' = drain_mu \/ (drain_mu = Nobody /\ drain_mu' = h) \/ (drain_mu = h /\ drain_mu' = Nobody)
    BY <1>5
<1>16. UNCHANGED <<ring, next_seq, reader, rxq, arrived>>
    BY <1>5
<1>17. r.pc \notin {"batch", "look", "finishing", "awaitdone"} => r.n = 0 /\ r.read = 0
    BY <1>10
<1> DEFINE c == closer[h]  l == handle[h]
<1>18. /\ c \in Closers /\ l \in LogicalHandles
       /\ closer' = [closer EXCEPT ![h] = c] /\ handle' = [handle EXCEPT ![h] = l]
       /\ handle[h].cursor <= l.cursor /\ l.cursor <= next_seq /\ (handle[h].closed => l.closed)
       /\ (c.pc # "open" => l.closed) /\ (g.how = "lock" /\ ~l.closed => h \in subs' \/ unread'[h] = "fresh")
       /\ g.how = "lock" => ghost[h].how = "lock" \/ l.closed \/ (drain_mu = h /\ caller[h].pc # "look")
    BY <1>1, <1>4, <1>6, <1>7, <1>13, <1>14
<1> HIDE DEF c, l
<1> QED BY <1>2, <1>3, <1>6, <1>8, <1>9, <1>11, <1>12, <1>15, <1>16, <1>17, <1>18, Becomes

\* A stamp: what is owed is noted once, or stays as it was.
LEMMA Noted ==
    ASSUME IInv, NEW h \in Handles, NEW w \in {"lock", "stamp", "none"}, NEW since \in Nat,
           \/ ghost' = ghost
           \/ ghost' = [ghost EXCEPT ![h] = ghost[h]]
           \/ ghost' = [ghost EXCEPT ![h] = [ghost[h] EXCEPT !.since = since, !.how = w]]
    PROVE  \E v \in {ghost[h].how, w}, s \in Nat :
               /\ ghost' = [ghost EXCEPT ![h] = [ghost[h] EXCEPT !.since = s, !.how = v]]
               /\ v \in {"lock", "stamp", "none"}
<1>1. ghost \in [Handles -> Ghosts] /\ ghost[h] \in Ghosts
    BY DEF IInv, Shape
<1>2. /\ ghost[h] = [ghost[h] EXCEPT !.since = ghost[h].since, !.how = ghost[h].how]
      /\ ghost[h].since \in Nat /\ ghost[h].how \in {"lock", "stamp", "none"}
    BY <1>1 DEF Ghosts
<1>3. ghost = [ghost EXCEPT ![h] = ghost[h]]
    BY <1>1
<1>4. CASE ghost' = [ghost EXCEPT ![h] = [ghost[h] EXCEPT !.since = since, !.how = w]]
    BY <1>4
<1>5. CASE ghost' = ghost \/ ghost' = [ghost EXCEPT ![h] = ghost[h]]
  <2>1. ghost' = [ghost EXCEPT ![h] = [ghost[h] EXCEPT !.since = ghost[h].since, !.how = ghost[h].how]]
      BY <1>2, <1>3, <1>5
  <2> QED BY <1>2, <2>1
<1> QED BY <1>4, <1>5

\* An admission ends: from now on the wire owes the handle its frames, and drain_mu is let go.
LEMMA AdmissionsKeep == ASSUME IInv, NEW h \in Handles, Admitted(h) PROVE IInv'
<1>a. Shape /\ Locked /\ Drained /\ caller \in [Handles -> Calls] /\ arrived \in Nat
    BY DEF IInv, Shape
<1>1. caller[h].pc = "admitted" /\ drain_mu = h /\ drain_mu' = Nobody /\ caller[h].n = 0 /\ caller[h].read = 0
    BY <1>a DEF Admitted, Locked, Drained
<1>2. PICK to \in {"joined", "write"} : caller' = [caller EXCEPT ![h].pc = to]
    BY DEF Admitted
<1> DEFINE r == [caller[h] EXCEPT !.pc = to]
<1>3. caller[h] \in Calls /\ to \in CallerPcs
    BY <1>a, <1>2 DEF CallerPcs
<1>4. r \in Calls /\ r.pc = to /\ r.n = 0 /\ r.read = 0
    BY <1>1, <1>3 DEF Calls
<1>5. caller' = [caller EXCEPT ![h] = r]
    BY <1>a, <1>2
<1> HIDE DEF r
<1>6. ghost' = [ghost EXCEPT ![h] = ghost[h]]
      \/ ghost' = [ghost EXCEPT ![h] = [ghost[h] EXCEPT !.since = arrived, !.how = "lock"]]
    BY DEF Admitted
<1>7. PICK v \in {ghost[h].how, "lock"}, s \in Nat :
          /\ ghost' = [ghost EXCEPT ![h] = [ghost[h] EXCEPT !.since = s, !.how = v]]
          /\ v \in {"lock", "stamp", "none"}
    BY <1>a, <1>6, Noted
<1>8. unread' = [unread EXCEPT ![h] = "fresh"] /\ unread'[h] = "fresh"
      /\ UNCHANGED <<state, rings, reader, closer, handle, driver>>
    BY <1>a DEF Admitted, life, Shape
<1> QED BY <1>1, <1>2, <1>4, <1>5, <1>7, <1>8, OwedMoves

\* A stamp without drain_mu, after a write or at the end of a join.
LEMMA StampsKeep == ASSUME IInv, NEW h \in Handles, JoinReturns(h) \/ Refresh(h) PROVE IInv'
<1>a. Shape /\ caller \in [Handles -> Calls] /\ arrived \in Nat /\ ghost[h].how \in {"lock", "stamp", "none"}
    BY DEF IInv, Shape, Ghosts
<1>1. PICK to \in {"joinfail", "idle"} : CallEnds(h, to)
    BY DEF JoinReturns, Refresh
<1> DEFINE r == NoCall(to)
<1>2. r \in Calls /\ r.pc = to /\ r.n = 0 /\ r.read = 0
  <2>1. to \in CallerPcs
      BY <1>1 DEF CallerPcs
  <2> QED BY <2>1, CallTyped
<1>3. caller' = [caller EXCEPT ![h] = r]
    BY <1>1 DEF CallEnds
<1> HIDE DEF r
<1>4. UNCHANGED <<state, rings, reader, closer, handle, driver>> /\ drain_mu' = drain_mu
    BY DEF JoinReturns, Refresh, life
<1>5. CASE UNCHANGED <<unread, ghost>>
  <2>1. PICK v \in {ghost[h].how, "none"}, s \in Nat :
            /\ ghost' = [ghost EXCEPT ![h] = [ghost[h] EXCEPT !.since = s, !.how = v]]
            /\ v \in {"lock", "stamp", "none"}
      BY <1>a, <1>5, Noted
  <2>2. unread'[h] = unread[h]
      BY <1>5
  <2>3. v = "lock" => ghost[h].how = "lock"
      OBVIOUS
  <2> QED BY <1>1, <1>2, <1>3, <1>4, <1>5, <2>1, <2>2, <2>3, OwedMoves
<1>6. CASE Stamped(h)
  <2>1. ghost' = [ghost EXCEPT ![h] = ghost[h]]
        \/ ghost' = [ghost EXCEPT ![h] = [ghost[h] EXCEPT !.since = arrived, !.how = "stamp"]]
      BY <1>6 DEF Stamped
  <2>2. PICK v \in {ghost[h].how, "stamp"}, s \in Nat :
            /\ ghost' = [ghost EXCEPT ![h] = [ghost[h] EXCEPT !.since = s, !.how = v]]
            /\ v \in {"lock", "stamp", "none"}
      BY <1>a, <2>1, Noted
  <2>3. unread' = [unread EXCEPT ![h] = "fresh"] /\ unread'[h] = "fresh"
      BY <1>a, <1>6 DEF Stamped, Shape
  <2>4. v = "lock" => ghost[h].how = "lock"
      OBVIOUS
  <2> QED BY <1>1, <1>2, <1>3, <1>4, <2>2, <2>3, <2>4, OwedMoves
<1> QED BY <1>5, <1>6 DEF JoinReturns, Refresh

\* A stamp ages.
LEMMA AgesKeep == ASSUME IInv, NEW h \in Handles, Age(h) PROVE IInv'
<1>1. Shape /\ caller \in [Handles -> Calls]
    BY DEF IInv, Shape
<1>2. caller' = [caller EXCEPT ![h] = caller[h]] /\ caller[h] \in Calls
    BY <1>1 DEF Age, threads
<1>3. ghost' = [ghost EXCEPT ![h] = [ghost[h] EXCEPT !.since = 0, !.how = "none"]]
    BY DEF Age
<1>4. /\ UNCHANGED <<state, rings, reader, closer, handle, driver>> /\ drain_mu' = drain_mu
      /\ unread' = [unread EXCEPT ![h] = "old"]
    BY DEF Age, life, threads
<1> QED BY <1>2, <1>3, <1>4, OwedMoves

\* The one critical section of a receive: the cursor goes forward, a first receive registers.
LEMMA ScansKeep == ASSUME IInv, NEW h \in Handles, RecvScan(h) PROVE IInv'
<1>a. Shape /\ Queued /\ Locked /\ Owed /\ Drained /\ Behind
    BY DEF IInv
<1> DEFINE new      == ~handle[h].subscribed /\ state = "running"
           table    == IF new THEN subs \cup {h} ELSE subs
           oldest   == oldest_locked(next_seq)
           from     == OwnCursor(handle[h].cursor, oldest)
           readable == Readable(ring, h, from, next_seq)
           at       == Advance(readable, next_seq)
           gap      == OwnGap(handle[h].cursor, oldest)
           l        == [handle[h] EXCEPT !.subscribed = (h \in table), !.cursor = at, !.dropped = @ + gap]
           g        == IF ~new \/ ghost[h].how = "lock" THEN ghost[h]
                       ELSE [ghost[h] EXCEPT !.since = arrived, !.how = "lock"]
           over     == readable # {} \/ terminal \/ caller[h].op = "look"
           r        == IF over THEN NoCall("idle") ELSE [caller[h] EXCEPT !.pc = "rwait"]
<1>1. /\ caller[h] \in Calls /\ closer[h] \in Closers /\ handle[h] \in LogicalHandles /\ ghost[h] \in Ghosts
      /\ arrived \in Nat /\ next_seq \in Nat \ {0}
    BY <1>a DEF Shape
<1>2. handle[h].cursor \in Nat \ {0} /\ handle[h].cursor <= next_seq /\ handle[h].dropped \in Nat
    BY <1>a, <1>1 DEF LogicalHandles, Behind
<1>3. oldest \in Nat \ {0} /\ oldest <= next_seq
    BY <1>1, CapacityAssumption DEF CapacityAssumption, oldest_locked
<1> HIDE DEF oldest
<1>4. from \in Nat \ {0} /\ handle[h].cursor <= from /\ from <= next_seq
    BY <1>1, <1>2, <1>3 DEF OwnCursor
<1>5. gap \in Nat
    BY <1>1, <1>2, <1>3 DEF OwnGap
<1> HIDE DEF from, gap
<1>6. at \in Nat \ {0} /\ from <= at /\ at <= next_seq
    BY <1>a, <1>4, AdvanceForward
<1> HIDE DEF readable, at
<1>7. at \in Nat \ {0} /\ handle[h].cursor <= at /\ at <= next_seq
    BY <1>1, <1>2, <1>4, <1>6
<1>8. /\ caller[h].pc \in {"rhead", "register"} /\ caller[h].n = 0 /\ caller[h].read = 0
      /\ new => drain_mu = h
    BY <1>a, <1>1 DEF RecvScan, Drained, Locked
<1>9. /\ subs' = table /\ (new => h \in table) /\ subs \subseteq table /\ table \subseteq Handles
    BY <1>a DEF RecvScan, Shape
<1>10. unread' = (IF new THEN [unread EXCEPT ![h] = "absent"] ELSE unread)
    BY DEF RecvScan
<1>11. /\ unread' \in [Handles -> {"absent", "fresh", "old"}] /\ \A o \in Handles \ {h} : unread'[o] = unread[o]
       /\ new \/ unread' = unread
    BY <1>a, <1>10 DEF Shape
<1>12. ghost' = [ghost EXCEPT ![h] = g]
    BY <1>a, <1>1 DEF RecvScan, Shape
<1>13. handle' = [handle EXCEPT ![h] = l]
  <2>1. handle' = [handle EXCEPT ![h].subscribed = (h \in table), ![h].cursor = at, ![h].dropped = @ + gap]
      BY DEF RecvScan, oldest, from, gap, readable, at
  <2> QED BY <1>a, <2>1 DEF Shape
<1>14. caller' = [caller EXCEPT ![h] = r]
  <2>1. IF over THEN CallEnds(h, "idle") ELSE caller' = [caller EXCEPT ![h].pc = "rwait"]
      BY DEF RecvScan, oldest, from, readable
  <2> QED BY <1>a, <2>1 DEF Shape, CallEnds
<1>15. /\ ring' = ring /\ next_seq' = next_seq /\ reader' = reader /\ rxq' = rxq /\ arrived' = arrived
       /\ state' = state /\ closer' = [closer EXCEPT ![h] = closer[h]]
       /\ drain_mu' = drain_mu \/ (drain_mu = h /\ drain_mu' = Nobody)
    BY <1>a DEF RecvScan, life, driver, Shape
<1> HIDE DEF over, table
<1>16. r \in Calls /\ r.pc \in {"idle", "rwait"} /\ r.n = 0 /\ r.read = 0
    BY <1>1, <1>8 DEF Calls, NoCall, CallerPcs
<1>17. l \in LogicalHandles /\ l.cursor = at /\ (l.closed <=> handle[h].closed)
  <2>1. handle[h].dropped + gap \in Nat /\ (h \in table) \in BOOLEAN
      BY <1>2, <1>5
  <2>2. l = [handle[h] EXCEPT !.subscribed = (h \in table), !.cursor = at, !.dropped = handle[h].dropped + gap]
      BY <1>1 DEF LogicalHandles
  <2>3. \A b \in BOOLEAN, n \in Nat :
            LET k == [handle[h] EXCEPT !.subscribed = b, !.cursor = at, !.dropped = n]
            IN  k \in LogicalHandles /\ k.cursor = at /\ (k.closed <=> handle[h].closed)
      BY <1>1, <1>7 DEF LogicalHandles
  <2> QED BY <2>1, <2>2, <2>3
<1>18. /\ g \in Ghosts /\ g.floor = ghost[h].floor /\ g.began = ghost[h].began
       /\ g.how = "lock" => ghost[h].how = "lock" \/ new
    BY <1>1 DEF Ghosts
<1> HIDE DEF l, g, r
<1>19. g.how = "lock" /\ ~l.closed => h \in subs' \/ unread'[h] = "fresh"
    BY <1>a, <1>9, <1>11, <1>17, <1>18 DEF Owed
<1>20. g.floor <= arrived /\ g.began <= arrived /\ g.floor <= ghost[h].floor
    BY <1>a, <1>1, <1>18 DEF Queued, Ghosts
<1>21. /\ closer[h].pc # "open" => l.closed
       /\ handle[h].closed => l.closed
       /\ g.how = "lock" => ghost[h].how = "lock" \/ l.closed \/ (drain_mu = h /\ caller[h].pc # "look")
    BY <1>a, <1>8, <1>17, <1>18 DEF Owed
<1>22. state' \in {"running", "closing", "failed", "closed"} /\ (state' = "running" => state = "running")
    BY <1>a, <1>15 DEF Shape
<1>23. subs' \subseteq Handles /\ \A o \in Handles \ {h} : o \in subs => o \in subs'
    BY <1>9
<1>24. UNCHANGED <<ring, next_seq, reader, rxq, arrived>>
    BY <1>15
<1>25. /\ r.pc # "look" /\ r.pc # "batch" /\ r.pc \notin {"batch", "look", "admitted", "finishing"} /\ r.pc # "register"
    BY <1>16
<1>26. handle[h].cursor <= l.cursor /\ l.cursor <= next_seq
    BY <1>7, <1>17
<1>27. drain_mu' = drain_mu \/ (drain_mu = Nobody /\ drain_mu' = h) \/ (drain_mu = h /\ drain_mu' = Nobody)
    BY <1>15
<1> HIDE DEF new
<1> QED BY <1>1, <1>11, <1>12, <1>13, <1>14, <1>15, <1>16, <1>17, <1>18, <1>19, <1>20, <1>21, <1>22, <1>23,
           <1>24, <1>25, <1>26, <1>27, Becomes

\* A close, and the poll of the monitor: the call in progress stays where it is.
LEMMA SideMoves ==
    ASSUME IInv, NEW h \in Handles, NEW c \in Closers, NEW l \in LogicalHandles, NEW g \in Ghosts,
           UNCHANGED <<caller, ring, next_seq, reader, rxq, arrived, drain_mu>>,
           closer' = [closer EXCEPT ![h] = c], handle' = [handle EXCEPT ![h] = l], ghost' = [ghost EXCEPT ![h] = g],
           state' \in {"running", "closing", "failed", "closed"}, state' = "running" => state = "running",
           subs' = subs \/ (subs' = subs \ {h} /\ l.closed),
           unread' = unread \/ (unread' = [unread EXCEPT ![h] = "absent"] /\ l.closed),
           handle[h].closed => l.closed, c.pc # "open" => l.closed,
           g = ghost[h] \/ g = NoGhost,
           handle[h].cursor <= l.cursor, l.cursor <= next_seq
    PROVE  IInv'
<1>a. Shape /\ Queued /\ Locked /\ Owed /\ Drained
    BY DEF IInv
<1>1. caller[h] \in Calls /\ ghost[h].floor \in Nat /\ arrived \in Nat /\ ghost[h].floor <= arrived /\ ghost[h].began <= arrived
    BY <1>a DEF Shape, Queued, Ghosts
<1>2. caller' = [caller EXCEPT ![h] = caller[h]]
    BY <1>a DEF Shape
<1>3. g.floor <= arrived /\ g.began <= arrived /\ g.floor <= ghost[h].floor /\ (g.how = "lock" => ghost[h].how = "lock")
    BY <1>1 DEF NoGhost
<1>4. /\ subs' \subseteq Handles /\ \A o \in Handles \ {h} : o \in subs => o \in subs'
      /\ unread' \in [Handles -> {"absent", "fresh", "old"}] /\ \A o \in Handles \ {h} : unread'[o] = unread[o]
    BY <1>a DEF Shape
<1>5. g.how = "lock" /\ ~l.closed => h \in subs' \/ unread'[h] = "fresh"
    BY <1>a, <1>3 DEF Owed
<1>6. /\ caller[h].pc \in {"batch", "look", "admitted", "finishing"} => drain_mu' = h
      /\ caller[h].pc = "register" /\ state' = "running" => drain_mu' = h
    BY <1>a DEF Locked
<1>7. /\ caller[h].pc \in {"batch", "look"} =>
            \A i \in DOMAIN rxq : i + caller[h].read + caller[h].n > DriverQueue => rxq[i] > g.began
      /\ caller[h].pc \notin {"batch", "look", "finishing", "awaitdone"} => caller[h].n = 0 /\ caller[h].read = 0
  <2>1. CASE g = ghost[h]
      BY <1>a, <2>1 DEF Drained
  <2>2. CASE g = NoGhost
    <3>1. g.began = 0 /\ \A i \in DOMAIN rxq : rxq[i] > 0
        BY <1>a, <1>1, <2>2 DEF NoGhost, Queued
    <3> QED BY <1>a, <3>1 DEF Drained
  <2> QED BY <2>1, <2>2
<1>8. /\ caller[h].pc = "batch" => \A i \in DOMAIN rxq : i + caller[h].read + caller[h].n > DriverQueue => rxq[i] > g.began
      /\ caller[h].pc = "look" => \A i \in DOMAIN rxq : i + caller[h].read + caller[h].n > DriverQueue => rxq[i] > g.began
    BY <1>7
<1>9. caller[h].pc \notin {"batch", "look", "finishing", "awaitdone"} => caller[h].n = 0 /\ caller[h].read = 0
    BY <1>7
<1>10. g.how = "lock" => ghost[h].how = "lock" \/ l.closed \/ (drain_mu = h /\ caller[h].pc # "look")
    BY <1>3
<1>11. g.floor <= ghost[h].floor \/ (l.cursor = next_seq /\ \A i \in DOMAIN rxq : rxq[i] > g.floor)
    BY <1>3
<1> QED BY <1>1, <1>2, <1>3, <1>4, <1>5, <1>6, <1>8, <1>9, <1>10, <1>11, Becomes

LEMMA SidesKeep ==
    ASSUME IInv, NEW h \in Handles, diagnostics(h) \/ CloseBegins(h) \/ CloseReleases(h) \/ CloseFinishes(h)
    PROVE  IInv'
<1>a. Shape /\ Owed /\ Behind
    BY DEF IInv
<1>1. /\ closer[h] \in Closers /\ handle[h] \in LogicalHandles /\ ghost[h] \in Ghosts
      /\ next_seq \in Nat \ {0} /\ handle[h].cursor \in Nat \ {0} /\ handle[h].dropped \in Nat
      /\ handle[h].cursor <= next_seq /\ (closer[h].pc # "open" => handle[h].closed)
  <2>1. closer[h] \in Closers /\ handle[h] \in LogicalHandles /\ ghost[h] \in Ghosts /\ next_seq \in Nat \ {0}
      BY <1>a DEF Shape
  <2>2. handle[h].cursor \in Nat \ {0} /\ handle[h].dropped \in Nat
      BY <2>1 DEF LogicalHandles
  <2> QED BY <1>a, <2>1, <2>2 DEF Behind, Owed
<1>2. /\ closer = [closer EXCEPT ![h] = closer[h]] /\ handle = [handle EXCEPT ![h] = handle[h]]
      /\ ghost = [ghost EXCEPT ![h] = ghost[h]] /\ handle[h].cursor <= handle[h].cursor
    BY <1>a, <1>1 DEF Shape
<1>3. state \in {"running", "closing", "failed", "closed"}
    BY <1>a DEF Shape
<1>4. CASE diagnostics(h)
  <2>1. /\ UNCHANGED <<caller, ring, next_seq, reader, rxq, arrived, drain_mu>>
        /\ closer' = closer /\ handle' = handle /\ ghost' = ghost /\ state' = state /\ subs' = subs /\ unread' = unread
      BY <1>4 DEF diagnostics, life, heard, threads, driver
  <2> DEFINE c == closer[h]  l == handle[h]  g == ghost[h]
  <2>2. /\ closer' = [closer EXCEPT ![h] = c] /\ handle' = [handle EXCEPT ![h] = l]
        /\ ghost' = [ghost EXCEPT ![h] = g]
      BY <1>2, <2>1
  <2>3. /\ state' \in {"running", "closing", "failed", "closed"} /\ (state' = "running" => state = "running")
        /\ UNCHANGED <<caller, ring, next_seq, reader, rxq, arrived, drain_mu>> /\ subs' = subs /\ unread' = unread
      BY <1>3, <2>1
  <2>4. /\ c \in Closers /\ l \in LogicalHandles /\ g \in Ghosts /\ g = ghost[h]
        /\ handle[h].cursor <= l.cursor /\ l.cursor <= next_seq
        /\ (handle[h].closed => l.closed) /\ (c.pc # "open" => l.closed)
      BY <1>1, <1>2
  <2> HIDE DEF c, l, g
  <2> QED BY <2>2, <2>3, <2>4, SideMoves
<1>5. CASE CloseBegins(h)
  <2> DEFINE c == [pc |-> "release", sub |-> handle[h].subscribed]
             l == [handle[h] EXCEPT !.closed = TRUE, !.subscribed = FALSE, !.wake = TRUE]
  <2>1. c \in Closers
      BY <1>1 DEF Closers, LogicalHandles
  <2>2. l \in LogicalHandles /\ l.closed /\ l.cursor = handle[h].cursor
      BY <1>1 DEF LogicalHandles
  <2>3. NoGhost \in Ghosts
      BY DEF NoGhost, Ghosts
  <2>4. closer' = [closer EXCEPT ![h] = c] /\ ghost' = [ghost EXCEPT ![h] = NoGhost]
      BY <1>5 DEF CloseBegins
  <2>5. handle' = [handle EXCEPT ![h] = l]
      BY <1>a, <1>5 DEF CloseBegins, Shape
  <2>6. /\ UNCHANGED <<caller, ring, next_seq, reader, rxq, arrived, drain_mu>>
        /\ state' = state /\ subs' = subs /\ unread' = unread
      BY <1>5 DEF CloseBegins, life, rings, heard, driver
  <2> HIDE DEF c, l
  <2>7. handle[h].cursor <= l.cursor /\ l.cursor <= next_seq
      BY <1>1, <2>2
  <2>8. state' \in {"running", "closing", "failed", "closed"} /\ (state' = "running" => state = "running")
      BY <1>3, <2>6
  <2> QED BY <2>1, <2>2, <2>3, <2>4, <2>5, <2>6, <2>7, <2>8, SideMoves
<1>6. CASE CloseReleases(h)
  <2> DEFINE oldest == oldest_locked(next_seq)
             to   == IF refs - 1 <= 0 /\ state = "running" THEN "awaitdone" ELSE "closed"
             c    == [closer[h] EXCEPT !.pc = to]
             at   == OwnCursor(handle[h].cursor, oldest)
             lost == handle[h].dropped + OwnGap(handle[h].cursor, oldest)
             l    == IF closer[h].sub THEN [handle[h] EXCEPT !.cursor = at, !.dropped = lost] ELSE handle[h]
  <2>1. c \in Closers
      BY <1>1 DEF Closers
  <2>2. oldest \in Nat \ {0} /\ oldest <= next_seq
      BY <1>1, CapacityAssumption DEF CapacityAssumption, oldest_locked
  <2> HIDE DEF oldest
  <2>3. at \in Nat \ {0} /\ handle[h].cursor <= at /\ at <= next_seq /\ lost \in Nat
      BY <1>1, <2>2 DEF OwnCursor, OwnGap
  <2>4. handle' = [handle EXCEPT ![h] = l]
    <3>1. CASE closer[h].sub
      <4>1. handle' = [handle EXCEPT ![h].cursor = OwnCursor(@, oldest),
                                     ![h].dropped = @ + OwnGap(handle[h].cursor, oldest)]
          BY <1>6, <3>1 DEF CloseReleases, oldest
      <4> QED BY <1>a, <3>1, <4>1 DEF Shape
    <3>2. CASE ~closer[h].sub
        BY <1>2, <1>6, <3>2 DEF CloseReleases
    <3> QED BY <3>1, <3>2
  <2> HIDE DEF at, lost
  <2>5. l \in LogicalHandles /\ (l.closed <=> handle[h].closed) /\ handle[h].cursor <= l.cursor /\ l.cursor <= next_seq
    <3>1. CASE closer[h].sub
      <4>1. l = [handle[h] EXCEPT !.cursor = at, !.dropped = lost]
          BY <3>1
      <4>2. [handle[h] EXCEPT !.cursor = at, !.dropped = lost] \in LogicalHandles
            /\ [handle[h] EXCEPT !.cursor = at, !.dropped = lost].cursor = at
            /\ ([handle[h] EXCEPT !.cursor = at, !.dropped = lost].closed <=> handle[h].closed)
          BY <1>1, <2>3 DEF LogicalHandles
      <4> QED BY <2>3, <4>1, <4>2
    <3>2. CASE ~closer[h].sub
        BY <1>1, <3>2
    <3> QED BY <3>1, <3>2
  <2> HIDE DEF l
  <2>6. handle[h].closed
      BY <1>1, <1>6 DEF CloseReleases
  <2>7. closer' = [closer EXCEPT ![h] = c]
      BY <1>a, <1>6 DEF CloseReleases, Shape
  <2> HIDE DEF c
  <2>8. /\ UNCHANGED <<caller, ring, next_seq, reader, rxq, arrived, drain_mu>> /\ ghost' = ghost
        /\ state' \in {"running", "closing", "failed", "closed"} /\ (state' = "running" => state = "running")
        /\ subs' = subs \/ subs' = subs \ {h}
        /\ unread' = [unread EXCEPT ![h] = "absent"]
      BY <1>3, <1>6 DEF CloseReleases, driver
  <2>9. subs' = subs \/ (subs' = subs \ {h} /\ l.closed)
      BY <2>5, <2>6, <2>8
  <2>10. ghost' = [ghost EXCEPT ![h] = ghost[h]]
      BY <1>2, <2>8
  <2> QED BY <1>1, <2>1, <2>4, <2>5, <2>6, <2>7, <2>8, <2>9, <2>10, SideMoves
<1>7. CASE CloseFinishes(h)
  <2> DEFINE c == [closer[h] EXCEPT !.pc = "closed"]
  <2>1. c \in Closers
      BY <1>1 DEF Closers
  <2>2. closer' = [closer EXCEPT ![h] = c]
      BY <1>a, <1>7 DEF CloseFinishes, Shape
  <2> HIDE DEF c
  <2>3. /\ UNCHANGED <<caller, ring, next_seq, reader, rxq, arrived, drain_mu>>
        /\ handle' = [handle EXCEPT ![h] = handle[h]] /\ ghost' = [ghost EXCEPT ![h] = ghost[h]]
        /\ subs' = subs /\ unread' = unread /\ state' = "closed"
      BY <1>2, <1>7 DEF CloseFinishes, finish_close, rings, heard, driver
  <2>4. handle[h].closed
      BY <1>1, <1>7 DEF CloseFinishes
  <2>5. state' \in {"running", "closing", "failed", "closed"} /\ (state' = "running" => state = "running")
      BY <2>3
  <2> QED BY <1>1, <1>2, <2>1, <2>2, <2>3, <2>4, <2>5, SideMoves
<1> QED BY <1>4, <1>5, <1>6, <1>7

-------------------------------------------------------------------------------
(* The steps that move frames *)

\* A frame arrives: it is later than everything noted so far.
LEMMA ArrivalsKeep == ASSUME IInv, Arrive PROVE IInv'
<1>a. Shape /\ Queued /\ Locked /\ Owed /\ Drained /\ Behind /\ BoundaryExact
    BY DEF IInv
<1>b. /\ state' = state /\ ring' = ring /\ next_seq' = next_seq /\ subs' = subs /\ unread' = unread
      /\ drain_mu' = drain_mu /\ reader' = reader /\ caller' = caller /\ closer' = closer
      /\ handle' = handle /\ ghost' = ghost
    BY DEF Arrive, life, rings, heard, threads
<1>1. rxq \in Seq(Nat) /\ arrived \in Nat /\ arrived' = arrived + 1 /\ arrived + 1 \in Nat /\ DriverQueue \in Nat
    BY <1>a, ParkAssumption DEF ParkAssumption, Shape, Arrive
<1>2. /\ rxq' \in Seq(Nat) /\ Len(rxq') <= DriverQueue
      /\ \A i \in DOMAIN rxq' : (i \in DOMAIN rxq /\ rxq'[i] = rxq[i]) \/ rxq'[i] = arrived + 1
  <2>1. CASE Len(rxq) < DriverQueue
    <3>1. rxq' = Append(rxq, arrived + 1)
        BY <2>1 DEF Arrive
    <3> QED BY <1>1, <2>1, <3>1
  <2>2. CASE ~(Len(rxq) < DriverQueue)
    <3>1. rxq' = rxq
        BY <2>2 DEF Arrive
    <3> QED BY <1>a, <1>1, <3>1 DEF Queued
  <2> QED BY <2>1, <2>2
<1>3. Shape'
    BY <1>a, <1>b, <1>1, <1>2 DEF Shape
<1>4. \A h \in Handles : ghost[h].floor \in Nat /\ ghost[h].began \in Nat /\ ghost[h].floor <= arrived /\ ghost[h].began <= arrived
    BY <1>a DEF Shape, Ghosts, Queued
<1>5. Queued'
  <2>1. \A i \in DOMAIN rxq' : rxq'[i] \in 1 .. arrived'
    <3>1. \A i \in DOMAIN rxq : rxq[i] \in Nat /\ 1 <= rxq[i] /\ rxq[i] <= arrived
        BY <1>a, <1>1 DEF Queued
    <3> QED BY <1>1, <1>2, <3>1
  <2>2. \A h \in Handles : ghost'[h].floor <= arrived' /\ ghost'[h].began <= arrived'
      BY <1>b, <1>1, <1>4
  <2> QED BY <1>a, <1>b, <1>2, <2>1, <2>2 DEF Queued
<1>6. Locked' /\ Owed' /\ Behind'
    BY <1>a, <1>b DEF Locked, Owed, Draining, Behind
<1>7. Drained'
  <2>1. ASSUME NEW h \in Handles, caller[h].pc \in {"batch", "look"}, NEW i \in DOMAIN rxq',
               i + caller[h].read + caller[h].n > DriverQueue
        PROVE  rxq'[i] > ghost[h].began
    <3>1. CASE i \in DOMAIN rxq /\ rxq'[i] = rxq[i]
        BY <1>a, <2>1, <3>1 DEF Drained
    <3>2. CASE rxq'[i] = arrived + 1
        BY <1>1, <1>4, <3>2
    <3> QED BY <1>2, <2>1, <3>1, <3>2
  <2> QED BY <1>a, <1>b, <2>1 DEF Drained
<1>8. BoundaryExact'
  <2>1. ASSUME NEW h \in Handles, NEW i \in DOMAIN rxq'
        PROVE  rxq'[i] > ghost[h].floor
    <3>1. CASE i \in DOMAIN rxq /\ rxq'[i] = rxq[i]
        BY <1>a, <3>1 DEF BoundaryExact
    <3>2. CASE rxq'[i] = arrived + 1
        BY <1>1, <1>4, <3>2
    <3> QED BY <1>2, <2>1, <3>1, <3>2
  <2> QED BY <1>a, <1>b, <2>1 DEF BoundaryExact
<1> QED BY <1>3, <1>5, <1>6, <1>7, <1>8 DEF IInv

\* A frame is taken from the driver: thrown away, or put in the ring.
LEMMA FrameMoves ==
    ASSUME IInv, rxq # <<>>, rxq' = Tail(rxq), UNCHANGED <<state, arrived, subs, unread, closer, ghost>>,
           \/ ring' = ring /\ next_seq' = next_seq
           \/ ring' = Put(ring, next_seq, Record(Head(rxq))) /\ next_seq' = next_seq + 1,
           handle' \in [Handles -> LogicalHandles], \A o \in Handles : handle'[o].closed <=> handle[o].closed,
           \A o \in Handles : handle[o].cursor <= handle'[o].cursor /\ handle'[o].cursor <= next_seq',
           reader' \in [pc : ReaderPcs, n : Nat], caller' \in [Handles -> Calls],
           drain_mu' \in Handles \cup {Reader, Nobody}, Draining' => Draining,
           Locked', Drained'
    PROVE  IInv'
<1>a. Shape /\ Queued /\ Owed /\ Behind /\ BoundaryExact
    BY DEF IInv
<1>1. /\ rxq' \in Seq(Nat) /\ Len(rxq') <= DriverQueue
      /\ Head(rxq) = rxq[1] /\ 1 \in DOMAIN rxq /\ Head(rxq) \in 1 .. arrived /\ Head(rxq) \in Nat \ {0}
      /\ \A i \in DOMAIN rxq' : i \in Nat /\ i + 1 \in DOMAIN rxq /\ rxq'[i] = rxq[i + 1]
    BY <1>a, TailMoves
<1>2. /\ ring' \in [0 .. (Capacity - 1) -> Slots] /\ next_seq' \in Nat \ {0}
      /\ \A i \in DOMAIN ring' : ring'[i].seq # 0 => ring'[i].arr # 0
  <2>1. CASE ring' = ring /\ next_seq' = next_seq
      BY <1>a, <2>1 DEF Shape, Queued
  <2>2. CASE ring' = Put(ring, next_seq, Record(Head(rxq))) /\ next_seq' = next_seq + 1
      BY <1>a, <1>1, <2>2, PutTyped
  <2> QED BY <2>1, <2>2
<1>3. Shape'
    BY <1>a, <1>1, <1>2 DEF Shape
<1>4. Queued'
  <2>1. \A i \in DOMAIN rxq' : rxq'[i] \in 1 .. arrived'
      BY <1>a, <1>1 DEF Queued
  <2> QED BY <1>a, <1>1, <1>2, <2>1 DEF Queued
<1>5. Owed'
    BY <1>a DEF Owed
<1>6. Behind'
    BY DEF Behind
<1>7. BoundaryExact'
  <2>0. /\ \A o \in Handles : handle[o].cursor \in Nat \ {0} /\ handle'[o].cursor \in Nat \ {0}
        /\ \A o \in Handles : ghost[o].floor \in Nat
        /\ \A o \in Handles : rxq[1] > ghost[o].floor
        /\ next_seq \in Nat \ {0}
      BY <1>a, <1>1 DEF Shape, LogicalHandles, Ghosts, BoundaryExact
  <2>1. ASSUME NEW o \in Handles, NEW s \in Readable(ring', o, handle'[o].cursor, next_seq')
        PROVE  ring'[SlotOf(s)].arr > ghost'[o].floor
    <3>1. handle[o].cursor <= handle'[o].cursor
        OBVIOUS
    <3>2. s \in Readable(ring', o, handle[o].cursor, next_seq')
        BY <1>2, <1>3, <2>0, <2>1, <3>1 DEF Readable
    <3>3. CASE ring' = ring /\ next_seq' = next_seq
        BY <1>a, <3>2, <3>3 DEF BoundaryExact
    <3>4. CASE ring' = Put(ring, next_seq, Record(Head(rxq))) /\ next_seq' = next_seq + 1
      <4> DEFINE arr == Head(rxq)  from == handle[o].cursor
      <4>a. /\ arr \in Nat /\ from \in Nat \ {0} /\ ring' = Put(ring, next_seq, Record(arr)) /\ next_seq' = next_seq + 1
            /\ s \in Readable(ring', o, from, next_seq')
          BY <1>1, <2>0, <3>2, <3>4
      <4> HIDE DEF arr, from
      <4>b. \/ s = next_seq /\ ring'[SlotOf(s)].arr = arr
            \/ s \in Readable(ring, o, from, next_seq) /\ ring'[SlotOf(s)] = ring[SlotOf(s)]
          BY <1>a, <4>a, PutReadable
      <4>1. \/ s = next_seq /\ ring'[SlotOf(s)].arr = Head(rxq)
            \/ s \in Readable(ring, o, handle[o].cursor, next_seq) /\ ring'[SlotOf(s)] = ring[SlotOf(s)]
          BY <4>b DEF arr, from
      <4>2. CASE ring'[SlotOf(s)].arr = Head(rxq)
          BY <1>1, <2>0, <4>2
      <4>3. CASE s \in Readable(ring, o, handle[o].cursor, next_seq) /\ ring'[SlotOf(s)] = ring[SlotOf(s)]
          BY <1>a, <4>3 DEF BoundaryExact
      <4> QED BY <4>1, <4>2, <4>3
    <3> QED BY <3>3, <3>4
  <2>2. ASSUME NEW o \in Handles, NEW i \in DOMAIN rxq'
        PROVE  rxq'[i] > ghost'[o].floor
      BY <1>a, <1>1, <2>2 DEF BoundaryExact
  <2> QED BY <2>1, <2>2 DEF BoundaryExact
<1> QED BY <1>3, <1>4, <1>5, <1>6, <1>7 DEF IInv

\* A drained queue only gets shorter: what a boundary drain has counted still holds.
LEMMA DrainsOn ==
    ASSUME IInv, rxq # <<>>, rxq' = Tail(rxq), UNCHANGED <<caller, ghost>>,
           \A o \in Handles : caller[o].pc \notin {"batch", "look"}
    PROVE  Drained'
BY DEF IInv, Drained

\* The reader throws a frame away.
LEMMA DiscardsKeep == ASSUME IInv, ReaderDiscards PROVE IInv'
<1>a. /\ Shape /\ Locked /\ Behind /\ reader.pc = "drain" /\ drain_mu = Reader
      /\ Reader \notin Handles /\ Nobody \notin Handles /\ Reader # Nobody
    BY ParkAssumption DEF IInv, Locked, ReaderDiscards, ParkAssumption
<1>1. /\ rxq # <<>> /\ rxq' = Tail(rxq)
      /\ UNCHANGED <<state, arrived, subs, unread, closer, ghost, ring, next_seq, caller>> /\ handle' = handle
    BY DEF ReaderDiscards, life, rings, heard
<1>2. \A o \in Handles : caller[o].pc \notin {"batch", "look", "admitted", "finishing"}
                          /\ (caller[o].pc = "register" => state # "running")
    BY <1>a DEF Locked
<1>3. /\ reader' \in [pc : ReaderPcs, n : Nat] /\ (reader'.pc = "drain" => drain_mu' = drain_mu)
      /\ reader'.pc # "reading" /\ drain_mu' \in {drain_mu, Nobody}
  <2>1. reader \in [pc : ReaderPcs, n : Nat] /\ reader.n + 1 \in Nat
      BY <1>a DEF Shape
  <2>2. CASE reader.n + 1 < Capacity
    <3>1. reader' = [reader EXCEPT !.n = reader.n + 1] /\ drain_mu' = drain_mu
        BY <2>2 DEF ReaderDiscards
    <3> QED BY <1>a, <2>1, <3>1
  <2>3. CASE ~(reader.n + 1 < Capacity)
    <3>1. PICK to \in {"check", "drain_lock"} : reader' = [pc |-> to, n |-> 0] /\ drain_mu' = Nobody
        BY <2>3 DEF ReaderDiscards
    <3> QED BY <3>1 DEF ReaderPcs
  <2> QED BY <2>2, <2>3
<1>4. Locked'
    BY <1>a, <1>1, <1>2, <1>3 DEF Locked
<1>5. Drained'
    BY <1>1, <1>2, DrainsOn
<1>6. /\ handle' \in [Handles -> LogicalHandles] /\ \A o \in Handles : handle'[o].closed <=> handle[o].closed
      /\ \A o \in Handles : handle[o].cursor <= handle'[o].cursor /\ handle'[o].cursor <= next_seq'
    BY <1>a, <1>1 DEF Shape, Behind, LogicalHandles
<1>7. caller' \in [Handles -> Calls] /\ drain_mu' \in Handles \cup {Reader, Nobody}
    BY <1>a, <1>1, <1>3 DEF Shape
<1>8. Draining' => Draining
    BY <1>a DEF Draining
<1> QED BY <1>1, <1>3, <1>4, <1>5, <1>6, <1>7, <1>8, FrameMoves

\* The reader commits a frame to the ring, or drops it on a wire that is going away.
LEMMA CommitsKeep == ASSUME IInv, ReaderCommits PROVE IInv'
<1>a. /\ Shape /\ Locked /\ Behind /\ reader.pc = "reading" /\ drain_mu = Reader
      /\ Reader \notin Handles /\ Nobody \notin Handles /\ Reader # Nobody
    BY ParkAssumption DEF IInv, Locked, ReaderCommits, ReaderAt, ParkAssumption
<1>1. /\ rxq # <<>> /\ rxq' = Tail(rxq)
      /\ UNCHANGED <<state, arrived, subs, unread, closer, ghost, caller>>
      /\ reader' = [pc |-> "check", n |-> 0] /\ drain_mu' = Nobody
    BY DEF ReaderCommits, ReaderAt, life, heard
<1>2. \A o \in Handles : caller[o].pc \notin {"batch", "look", "admitted", "finishing"}
                          /\ (caller[o].pc = "register" => state # "running")
    BY <1>a DEF Locked
<1>3. reader' \in [pc : ReaderPcs, n : Nat]
    BY <1>1 DEF ReaderPcs
<1>4. Locked'
    BY <1>a, <1>1, <1>2 DEF Locked
<1>5. Drained'
    BY <1>1, <1>2, DrainsOn
<1>6. /\ \/ ring' = ring /\ next_seq' = next_seq
         \/ ring' = Put(ring, next_seq, Record(Head(rxq))) /\ next_seq' = next_seq + 1
      /\ handle' = handle \/ handle' = Woken(handle, subs)
    BY DEF ReaderCommits
<1>7. /\ handle' \in [Handles -> LogicalHandles] /\ \A o \in Handles : handle'[o].closed <=> handle[o].closed
      /\ \A o \in Handles : handle'[o].cursor = handle[o].cursor
    BY <1>a, <1>6, WokenKeeps DEF Shape
<1>8. \A o \in Handles : handle[o].cursor <= handle'[o].cursor /\ handle'[o].cursor <= next_seq'
  <2>1. next_seq \in Nat /\ \A o \in Handles : handle[o].cursor \in Nat /\ handle[o].cursor <= next_seq
      BY <1>a DEF Shape, Behind, LogicalHandles
  <2> QED BY <1>6, <1>7, <2>1
<1>9. caller' \in [Handles -> Calls] /\ drain_mu' \in Handles \cup {Reader, Nobody}
    BY <1>a, <1>1 DEF Shape
<1>10. Draining' => Draining
    BY <1>1, <1>2 DEF Draining
<1> QED BY <1>1, <1>3, <1>4, <1>5, <1>6, <1>7, <1>8, <1>9, <1>10, FrameMoves

\* What a boundary drain's read leaves its call at: a look's end, a batch's, or the next read.
LEMMA ReadMoves ==
    ASSUME IInv, NEW h \in Handles, BoundaryRead(h)
    PROVE  /\ caller' \in [Handles -> Calls] /\ \A o \in Handles \ {h} : caller'[o] = caller[o]
           /\ \/ caller'[h].pc = "register" /\ caller'[h].n = 0 /\ caller'[h].read = 0
              \/ caller'[h].pc = "look" /\ caller'[h].n = caller[h].n + 1 /\ caller'[h].read = caller[h].read
              \/ /\ caller'[h].pc = "batch" /\ caller'[h].n = 0
                 /\ caller'[h].read <= caller[h].read + caller[h].n + 1
<1> DEFINE full   == caller[h].n + 1 = Capacity
           looked == full /\ caller[h].op = "look"
           more   == IF caller[h].pub THEN 1 ELSE Capacity
<1>1. caller \in [Handles -> Calls] /\ caller[h] \in Calls /\ caller[h].pc = "look" /\ Capacity \in Nat \ {0}
    BY CapacityAssumption DEF IInv, Shape, BoundaryRead, CapacityAssumption
<1>2. caller[h].n \in Nat /\ caller[h].read \in Nat /\ more \in Nat
    BY <1>1 DEF Calls
<1>3. full => more <= caller[h].n + 1
    BY <1>1, <1>2
<1> HIDE DEF more
<1> DEFINE A == [NoCall("register") EXCEPT !.op = "look"]
           B == [caller[h] EXCEPT !.pc = "batch", !.n = 0, !.read = caller[h].read + more]
           C == [caller[h] EXCEPT !.n = caller[h].n + 1]
           r == IF looked THEN A ELSE IF full THEN B ELSE C
<1>4. caller' = [caller EXCEPT ![h] = r]
    BY DEF BoundaryRead, more
<1>5. A \in Calls /\ A.pc = "register" /\ A.n = 0 /\ A.read = 0
    BY DEF Calls, CallerPcs, RecvOps, NoCall
<1>6. B \in Calls /\ B.pc = "batch" /\ B.n = 0 /\ B.read = caller[h].read + more
  <2>1. caller[h].read + more \in Nat
      BY <1>2
  <2> QED BY <1>1, <2>1 DEF Calls, CallerPcs
<1>7. C \in Calls /\ C.pc = "look" /\ C.n = caller[h].n + 1 /\ C.read = caller[h].read
  <2>1. caller[h].n + 1 \in Nat
      BY <1>2
  <2> QED BY <1>1, <2>1 DEF Calls
<1> HIDE DEF A, B, C
<1>8. /\ r \in Calls
      /\ \/ r.pc = "register" /\ r.n = 0 /\ r.read = 0
         \/ r.pc = "look" /\ r.n = caller[h].n + 1 /\ r.read = caller[h].read
         \/ r.pc = "batch" /\ r.n = 0 /\ r.read <= caller[h].read + caller[h].n + 1
    BY <1>2, <1>3, <1>5, <1>6, <1>7
<1> HIDE DEF r
<1>9. caller'[h] = r /\ caller' \in [Handles -> Calls] /\ \A o \in Handles \ {h} : caller'[o] = caller[o]
    BY <1>1, <1>4, <1>8
<1> QED BY <1>8, <1>9

\* One read of a boundary drain.
LEMMA ReadsKeep == ASSUME IInv, NEW h \in Handles, BoundaryRead(h) PROVE IInv'
<1>a. /\ Shape /\ Queued /\ Locked /\ Behind /\ Drained /\ caller[h].pc = "look" /\ drain_mu = h
      /\ Reader \notin Handles /\ Nobody \notin Handles /\ Reader # Nobody
    BY ParkAssumption DEF IInv, Locked, BoundaryRead, ParkAssumption
<1>1. /\ rxq # <<>> /\ rxq' = Tail(rxq) /\ reader' = reader /\ drain_mu' = drain_mu
      /\ UNCHANGED <<state, arrived, subs, unread, closer, ghost>>
    BY DEF BoundaryRead, life, heard
<1>2. /\ caller' \in [Handles -> Calls] /\ \A o \in Handles \ {h} : caller'[o] = caller[o]
      /\ \/ caller'[h].pc = "register" /\ caller'[h].n = 0 /\ caller'[h].read = 0
         \/ caller'[h].pc = "look" /\ caller'[h].n = caller[h].n + 1 /\ caller'[h].read = caller[h].read
         \/ /\ caller'[h].pc = "batch" /\ caller'[h].n = 0
            /\ caller'[h].read <= caller[h].read + caller[h].n + 1
    BY ReadMoves
<1>3. \A o \in Handles \ {h} : caller[o].pc \notin {"batch", "look", "admitted", "finishing"}
    BY <1>a DEF Locked
<1>4. Locked'
    BY <1>a, <1>1, <1>2 DEF Locked
<1>5. Drained'
  <2>1. /\ caller[h] \in Calls /\ caller'[h] \in Calls /\ DriverQueue \in Nat
        /\ caller[h].n \in Nat /\ caller[h].read \in Nat /\ caller'[h].n \in Nat /\ caller'[h].read \in Nat
      BY <1>a, <1>2, ParkAssumption DEF ParkAssumption, Shape, Calls
  <2>2. \A i \in DOMAIN rxq' : i \in Nat /\ i + 1 \in DOMAIN rxq /\ rxq'[i] = rxq[i + 1]
      BY <1>a, <1>1, TailMoves
  <2>3. ASSUME caller'[h].pc \in {"batch", "look"}, NEW i \in DOMAIN rxq',
               i + caller'[h].read + caller'[h].n > DriverQueue
        PROVE  rxq'[i] > ghost'[h].began
    <3>1. (i + 1) + caller[h].read + caller[h].n > DriverQueue
        BY <1>2, <2>1, <2>2, <2>3
    <3>2. rxq[i + 1] > ghost[h].began
        BY <1>a, <2>2, <3>1 DEF Drained
    <3> QED BY <1>1, <2>2, <3>2
  <2>4. caller'[h].pc \notin {"batch", "look", "finishing", "awaitdone"} => caller'[h].n = 0 /\ caller'[h].read = 0
      BY <1>2
  <2>5. \A o \in Handles \ {h} : caller'[o].pc \notin {"batch", "look"}
            /\ (caller'[o].pc \notin {"batch", "look", "finishing", "awaitdone"} => caller'[o].n = 0 /\ caller'[o].read = 0)
      BY <1>a, <1>2, <1>3 DEF Drained
  <2> QED BY <2>3, <2>4, <2>5 DEF Drained
<1>6. /\ \/ ring' = ring /\ next_seq' = next_seq
         \/ ring' = Put(ring, next_seq, Record(Head(rxq))) /\ next_seq' = next_seq + 1
      /\ next_seq' \in Nat \ {0} /\ next_seq <= next_seq' /\ next_seq \in Nat \ {0}
  <2>1. \/ ring' = ring /\ next_seq' = next_seq
        \/ ring' = Put(ring, next_seq, Record(Head(rxq))) /\ next_seq' = next_seq + 1
      BY Zenon DEF BoundaryRead
  <2> QED BY <1>a, <2>1 DEF Shape
<1>7. /\ handle' \in [Handles -> LogicalHandles] /\ \A o \in Handles : handle'[o].closed <=> handle[o].closed
      /\ \A o \in Handles : handle'[o].cursor = handle[o].cursor \/ handle'[o].cursor = next_seq'
  <2>1. PICK woken \in {handle, Woken(handle, subs)} :
            handle' = [woken EXCEPT ![h].cursor = IF caller[h].n + 1 = Capacity /\ caller[h].op = "look"
                                                  THEN next_seq' ELSE @]
      BY Zenon DEF BoundaryRead
  <2>2. /\ woken \in [Handles -> LogicalHandles]
        /\ \A o \in Handles : (woken[o].closed <=> handle[o].closed) /\ woken[o].cursor = handle[o].cursor
      BY <1>a, <2>1, WokenKeeps DEF Shape
  <2>3. PICK at \in {woken[h].cursor, next_seq'} : handle' = [woken EXCEPT ![h].cursor = at]
      BY <2>1
  <2>4. at \in Nat \ {0}
      BY <1>6, <2>2, <2>3 DEF LogicalHandles
  <2>5. [woken[h] EXCEPT !.cursor = at] \in LogicalHandles /\ [woken[h] EXCEPT !.cursor = at].cursor = at
        /\ ([woken[h] EXCEPT !.cursor = at].closed <=> woken[h].closed)
      BY <2>2, <2>4 DEF LogicalHandles
  <2>6. handle' = [woken EXCEPT ![h] = [woken[h] EXCEPT !.cursor = at]]
      BY <2>2, <2>3
  <2> QED BY <2>2, <2>3, <2>5, <2>6
<1>8. \A o \in Handles : handle[o].cursor <= handle'[o].cursor /\ handle'[o].cursor <= next_seq'
  <2>1. \A o \in Handles : handle[o].cursor \in Nat /\ handle[o].cursor <= next_seq
      BY <1>a DEF Shape, Behind, LogicalHandles
  <2> QED BY <1>6, <1>7, <2>1
<1>9. /\ reader' \in [pc : ReaderPcs, n : Nat] /\ drain_mu' \in Handles \cup {Reader, Nobody}
      /\ Draining' => Draining
    BY <1>a, <1>1 DEF Shape, Draining
<1> QED BY <1>1, <1>2, <1>4, <1>5, <1>6, <1>7, <1>8, <1>9, FrameMoves

-------------------------------------------------------------------------------
(* The invariant, and what it gives *)

LEMMA InitIInv == ASSUME Init PROVE IInv
<1>1. PICK first \in Handles :
        /\ state = "running"
        /\ ring = [i \in 0 .. (Capacity - 1) |-> [seq |-> 0, arr |-> 0, origin |-> Nobody]]
        /\ next_seq = 1 /\ subs = {}
        /\ unread = [h \in Handles |-> IF h = first THEN "fresh" ELSE "absent"]
        /\ drain_mu = Nobody /\ reader = [pc |-> "check", n |-> 0]
        /\ caller = [h \in Handles |-> NoCall(IF h = first THEN "idle" ELSE "none")]
        /\ closer = [h \in Handles |-> [pc |-> "open", sub |-> FALSE]]
        /\ handle = [h \in Handles |-> SharedHandle]
        /\ rxq = <<>> /\ arrived = 0
        /\ ghost = [h \in Handles |-> [NoGhost EXCEPT !.how = IF h = first THEN "lock" ELSE "none"]]
    BY DEF Init
<1>2. Capacity \in Nat \ {0} /\ DriverQueue \in Nat
    BY CapacityAssumption, ParkAssumption DEF CapacityAssumption, ParkAssumption
<1>3. \A h \in Handles :
        /\ caller[h] \in Calls /\ caller[h].pc \in {"idle", "none"} /\ caller[h].n = 0 /\ caller[h].read = 0
        /\ closer[h] \in Closers /\ closer[h].pc = "open"
        /\ handle[h] \in LogicalHandles /\ ~handle[h].closed /\ handle[h].cursor = 1
        /\ ghost[h] \in Ghosts /\ ghost[h].floor = 0 /\ ghost[h].began = 0
        /\ ghost[h].how = "lock" => unread[h] = "fresh"
  <2> SUFFICES ASSUME NEW h \in Handles
               PROVE  /\ caller[h] \in Calls /\ caller[h].pc \in {"idle", "none"} /\ caller[h].n = 0 /\ caller[h].read = 0
                      /\ closer[h] \in Closers /\ closer[h].pc = "open"
                      /\ handle[h] \in LogicalHandles /\ ~handle[h].closed /\ handle[h].cursor = 1
                      /\ ghost[h] \in Ghosts /\ ghost[h].floor = 0 /\ ghost[h].began = 0
                      /\ ghost[h].how = "lock" => unread[h] = "fresh"
      OBVIOUS
  <2>1. caller[h] \in Calls /\ caller[h].pc \in {"idle", "none"} /\ caller[h].n = 0 /\ caller[h].read = 0
      BY <1>1 DEF NoCall, Calls, CallerPcs
  <2>2. closer[h] \in Closers /\ closer[h].pc = "open"
      BY <1>1 DEF Closers
  <2>3. handle[h] \in LogicalHandles /\ ~handle[h].closed /\ handle[h].cursor = 1
      BY <1>1 DEF SharedHandle, LogicalHandles
  <2>4. ghost[h] \in Ghosts /\ ghost[h].floor = 0 /\ ghost[h].began = 0
      BY <1>1 DEF NoGhost, Ghosts
  <2>5. ghost[h].how = "lock" => unread[h] = "fresh"
      BY <1>1 DEF NoGhost
  <2> QED BY <2>1, <2>2, <2>3, <2>4, <2>5
<1>4. ring \in [0 .. (Capacity - 1) -> Slots] /\ \A i \in DOMAIN ring : ring[i].seq = 0
    BY <1>1 DEF Slots
<1>5. Shape
  <2>1. /\ caller \in [Handles -> Calls] /\ closer \in [Handles -> Closers]
        /\ handle \in [Handles -> LogicalHandles] /\ ghost \in [Handles -> Ghosts]
      BY <1>1, <1>3
  <2>2. unread \in [Handles -> {"absent", "fresh", "old"}] /\ reader \in [pc : ReaderPcs, n : Nat]
      BY <1>1 DEF ReaderPcs
  <2>3. rxq \in Seq(Nat) /\ arrived \in Nat /\ next_seq \in Nat \ {0} /\ subs \subseteq Handles
        /\ drain_mu \in Handles \cup {Reader, Nobody} /\ state \in {"running", "closing", "failed", "closed"}
      BY <1>1
  <2> QED BY <1>4, <2>1, <2>2, <2>3 DEF Shape
<1>6. Queued
    BY <1>1, <1>2, <1>3, <1>4 DEF Queued
<1>7. Locked
    BY <1>1, <1>3 DEF Locked
<1>8. Owed /\ Drained
    BY <1>1, <1>3 DEF Owed, Draining, Drained
<1>9. Behind
    BY <1>1, <1>3 DEF Behind
<1>10. BoundaryExact
    BY <1>1, <1>3 DEF BoundaryExact, Readable
<1> QED BY <1>5, <1>6, <1>7, <1>8, <1>9, <1>10 DEF IInv

LEMMA StutterIInv == ASSUME IInv, UNCHANGED vars PROVE IInv'
<1>1. /\ state' = state /\ ring' = ring /\ next_seq' = next_seq /\ subs' = subs /\ unread' = unread
      /\ drain_mu' = drain_mu /\ reader' = reader /\ caller' = caller /\ closer' = closer
      /\ handle' = handle /\ rxq' = rxq /\ arrived' = arrived /\ ghost' = ghost
    BY DEF vars, life, rings, heard, threads, driver
<1> QED BY <1>1 DEF IInv, Shape, Queued, Locked, Owed, Draining, Drained, Behind, BoundaryExact

LEMMA UnplugKeeps == ASSUME IInv, Unplug PROVE IInv'
<1>1. /\ state' = state /\ ring' = ring /\ next_seq' = next_seq /\ subs' = subs /\ unread' = unread
      /\ drain_mu' = drain_mu /\ reader' = reader /\ caller' = caller /\ closer' = closer
      /\ handle' = handle /\ rxq' = rxq /\ arrived' = arrived /\ ghost' = ghost
    BY DEF Unplug, life, rings, heard, threads
<1> QED BY <1>1 DEF IInv, Shape, Queued, Locked, Owed, Draining, Drained, Behind, BoundaryExact

LEMMA NextIInv == ASSUME IInv, [Next]_vars PROVE IInv'
<1>1. CASE ReaderStep
    BY <1>1, ReaderKeeps, ReaderEnds, DiscardsKeep, CommitsKeep DEF ReaderStep
<1>2. ASSUME NEW h \in Handles, Locks(h)
      PROVE  IInv'
    BY <1>2, CallsKeep, LocksKeep, DrainBegins DEF Locks
<1>3. ASSUME NEW h \in Handles, Runs(h)
      PROVE  IInv'
    BY <1>3, BoundariesKeep, LocksKeep, ReadsKeep, FailuresKeep, CallsKeep, AdmissionsKeep, StampsKeep,
       ScansKeep, WakesKeep DEF Runs
<1>4. ASSUME NEW h \in Handles, Closes(h)
      PROVE  IInv'
    BY <1>4, SidesKeep DEF Closes
<1>5. ASSUME NEW h \in Handles, Chooses(h)
      PROVE  IInv'
    BY <1>5, JoinKeeps, CallsKeep, SidesKeep, AgesKeep DEF Chooses
<1>6. CASE Arrive \/ Unplug
    BY <1>6, ArrivalsKeep, UnplugKeeps
<1>7. CASE Stopped \/ UNCHANGED vars
    BY <1>7, StutterIInv DEF Stopped
<1> QED BY <1>1, <1>2, <1>3, <1>4, <1>5, <1>6, <1>7 DEF Next

\* In every state the hub can reach the invariant holds: the parts of it are its types, who has
\* drain_mu, what the wire owes an open handle, and how far a boundary drain has come.
THEOREM ParkInductive == Spec => []IInv
BY InitIInv, NextIInv, PTL DEF Spec

\* A handle that drained its own boundary is never served a frame from before it, whatever the
\* size of the ring and of the driver's queue, as long as the drain may read a whole queue.
THEOREM BoundaryAlwaysExact == Spec => []BoundaryExact
<1>1. IInv => BoundaryExact
    BY DEF IInv
<1> QED BY <1>1, ParkInductive, PTL

\* A frame that leaves the driver and does not reach the ring of a running wire was thrown away
\* by a drain.
LEMMA DiscardersDrain ==
    ASSUME IInv, [Next]_vars, Discards
    PROVE  Draining
<1>a. rxq \in Seq(Nat) /\ next_seq \in Nat
    BY DEF IInv, Shape
<1>1. rxq' # rxq /\ next_seq' # next_seq + 1 /\ state = "running"
    BY <1>a DEF Discards
<1>2. CASE ReaderStep
  <2>1. ~ReaderCommits
      BY <1>1 DEF ReaderCommits
  <2>2. ReaderDiscards
      BY <1>1, <1>2, <2>1 DEF ReaderStep, ReaderStops, ReaderParks, ReaderResumes, ReaderUnparks, ReaderBatch,
         ReaderDrained, ReaderDrainFails, ReaderFails, ReaderLocks, ReaderTimesOut, ReaderReadFails,
         ReaderFinishes, driver
  <2> QED BY <2>2 DEF ReaderDiscards, Draining
<1>3. ASSUME NEW h \in Handles, Locks(h) \/ Closes(h) \/ Chooses(h)
      PROVE  FALSE
  <2>1. CASE Locks(h)
      BY <1>1, <2>1 DEF Locks, AdmitRefused, AdmitAttentive, AdmitParked, RecvLocks, driver
  <2>2. CASE Closes(h)
      BY <1>1, <2>2 DEF Closes, CloseReleases, CloseFinishes, driver
  <2>3. CASE Chooses(h)
      BY <1>1, <2>3 DEF Chooses, Join, SendStart, diagnostics, CloseBegins, BatchGivesUp, RecvTimesOut, Age,
         RecvStart, driver
  <2> QED BY <1>3, <2>1, <2>2, <2>3
<1>4. ASSUME NEW h \in Handles, Runs(h)
      PROVE  Draining
  <2>1. BoundaryRead(h)
      BY <1>1, <1>4 DEF Runs, BatchEnds, BatchBegins, BoundaryEmpty, BoundaryFails, BoundaryFinishes, AwaitDone,
         Admitted, JoinReturns, Write, WriteReturns, RefreshCheck, Refresh, RecvHead, RecvScan, RecvWakes, driver
  <2> QED BY <2>1 DEF BoundaryRead, Draining
<1>5. CASE Arrive
  <2>1. rxq' = Append(rxq, arrived + 1) \/ rxq' = rxq
      BY <1>5 DEF Arrive
  <2>2. arrived + 1 \in Nat
      BY DEF IInv, Shape
  <2>3. Len(rxq') >= Len(rxq)
      BY <1>a, <2>1, <2>2
  <2> QED BY <1>a, <2>3 DEF Discards
<1>6. CASE Unplug \/ Stopped \/ UNCHANGED vars
    BY <1>1, <1>6 DEF Unplug, Stopped, vars, driver
<1> QED BY <1>2, <1>3, <1>4, <1>5, <1>6 DEF Next

\* No drain, of the parked reader or of a boundary, ever throws away a frame that arrived after
\* an open handle became one the wire listens for under drain_mu.
THEOREM OwedFramesSpared == Spec => DrainSparesTheOwed
<1> DEFINE Spares == Discards => \A h \in Handles : Listening(h) /\ ghost[h].how = "lock"
                                                      => Head(rxq) <= ghost[h].since
<1>1. ASSUME IInv, [Next]_vars
      PROVE  Spares
  <2>1. Discards => \A h \in Handles : ghost[h].how = "lock" => handle[h].closed
      BY <1>1, DiscardersDrain DEF IInv, Owed
  <2> QED BY <2>1 DEF Listening
<1>2. IInv /\ [Next]_vars => [Spares]_vars
    BY <1>1
<1> HIDE DEF Spares
<1>3. Spec => [][Spares]_vars
    BY <1>2, ParkInductive, PTL DEF Spec
<1> QED BY <1>3 DEF DrainSparesTheOwed, Spares

-------------------------------------------------------------------------------
(* Sums over finite sets *)

\* A collection of parts of a finite set has the whole set, if it has the empty one and each part
\* of which it has what is left without any one element.
LEMMA PartByPart ==
    ASSUME NEW S, IsFiniteSet(S), NEW P, {} \in P,
           \A T \in SUBSET S : T # {} /\ (\A x \in T : T \ {x} \in P) => T \in P
    PROVE  S \in P
<1> DEFINE N == {n \in Nat : \E T \in SUBSET S : T \notin P /\ Cardinality(T) = n}
<1> SUFFICES ASSUME S \notin P PROVE FALSE
    OBVIOUS
<1>1. Cardinality(S) \in N
    BY FS_CardinalityType
<1>2. Min(N) \in N /\ \A y \in N : Min(N) <= y
    BY <1>1, FirstIsOne
<1>3. PICK T \in SUBSET S : T \notin P /\ Cardinality(T) = Min(N)
    BY <1>2
<1>4. PICK x \in T : T \ {x} \notin P
    BY <1>3
<1>5. T \ {x} \in SUBSET S
    BY <1>3
<1>6. IsFiniteSet(T) /\ IsFiniteSet(T \ {x})
    BY <1>5, FS_Subset
<1>7. Cardinality(T \ {x}) = Cardinality(T) - 1
    BY <1>4, <1>6, FS_RemoveElement
<1>8. Cardinality(T \ {x}) \in N
    BY <1>4, <1>5, <1>6, FS_CardinalityType
<1>9. Cardinality(T) \in Nat /\ Cardinality(T) <= Cardinality(T \ {x})
    BY <1>2, <1>3, <1>6, <1>8, FS_CardinalityType
<1> HIDE DEF N
<1> QED BY <1>7, <1>9

\* The sum of a function over a set is the number of its units.
Units(f, S) == {u \in S \X Nat : u[2] \in 1 .. f[u[1]]}
Total(f, S) == Cardinality(Units(f, S))

LEMMA UpTo == ASSUME NEW n \in Nat PROVE IsFiniteSet(1 .. n) /\ Cardinality(1 .. n) = n
<1>1. 1 \in Int /\ n \in Int
    OBVIOUS
<1>2. IsFiniteSet(1 .. n) /\ Cardinality(1 .. n) = IF 1 > n THEN 0 ELSE n - 1 + 1
    BY <1>1, FS_Interval
<1> QED BY <1>2

LEMMA UnitsFinite ==
    ASSUME NEW S, IsFiniteSet(S), NEW f, \A x \in S : f[x] \in Nat
    PROVE  IsFiniteSet(Units(f, S))
<1> DEFINE P == {T \in SUBSET S : IsFiniteSet(Units(f, T))}
<1>1. {} \in P
  <2>1. Units(f, {}) = {}
      BY DEF Units
  <2> QED BY <2>1, FS_EmptySet
<1>2. ASSUME NEW T \in SUBSET S, T # {}, \A x \in T : T \ {x} \in P PROVE T \in P
  <2>0. PICK x \in T : T \ {x} \in P
      BY <1>2
  <2>1. Units(f, T) = Units(f, T \ {x}) \cup ({x} \X (1 .. f[x]))
      BY <2>0 DEF Units
  <2>2. IsFiniteSet({x}) /\ IsFiniteSet(1 .. f[x])
      BY <2>0, UpTo, FS_Singleton
  <2>3. IsFiniteSet({x} \X (1 .. f[x])) /\ IsFiniteSet(Units(f, T \ {x}))
      BY <2>0, <2>2, FS_Product
  <2>4. IsFiniteSet(Units(f, T \ {x}) \cup ({x} \X (1 .. f[x])))
      BY <2>3, FS_Union
  <2> QED BY <2>1, <2>4
<1>3. S \in P
  <2> HIDE DEF P
  <2> QED BY <1>1, <1>2, PartByPart
<1> QED BY <1>3

LEMMA TotalOfNone == ASSUME NEW f PROVE Total(f, {}) = 0
<1>1. Units(f, {}) = {}
    BY DEF Units
<1> QED BY <1>1, FS_EmptySet DEF Total

LEMMA TotalLess ==
    ASSUME NEW S, IsFiniteSet(S), NEW f, \A y \in S : f[y] \in Nat, NEW x \in S
    PROVE  Total(f, S) = f[x] + Total(f, S \ {x}) /\ Total(f, S) \in Nat /\ Total(f, S \ {x}) \in Nat
<1> DEFINE A == Units(f, S \ {x})  B == {x} \X (1 .. f[x])
<1>1. Units(f, S) = A \cup B /\ A \cap B = {}
    BY DEF Units
<1>2. IsFiniteSet(S \ {x})
    BY FS_RemoveElement
<1>3. IsFiniteSet(A) /\ IsFiniteSet(Units(f, S))
    BY <1>2, UnitsFinite
<1>4. /\ IsFiniteSet({x}) /\ Cardinality({x}) = 1
      /\ IsFiniteSet(1 .. f[x]) /\ Cardinality(1 .. f[x]) = f[x]
    BY UpTo, FS_Singleton
<1>5. IsFiniteSet(B) /\ Cardinality(B) = 1 * f[x]
    BY <1>4, FS_Product
<1>6. Cardinality(A \cup B) = Cardinality(A) + Cardinality(B) - Cardinality(A \cap B)
    BY <1>3, <1>5, FS_Union
<1>7. Cardinality(A \cap B) = 0 /\ Cardinality(A) \in Nat /\ Cardinality(A \cup B) \in Nat /\ f[x] \in Nat
    BY <1>1, <1>3, FS_EmptySet, FS_CardinalityType
<1> HIDE DEF A, B
<1>8. Cardinality(A \cup B) = f[x] + Cardinality(A)
    BY <1>5, <1>6, <1>7
<1> QED BY <1>1, <1>7, <1>8 DEF Total, A

\* Where a function is 0 does not matter, nor what it is elsewhere.
LEMMA TotalWithin ==
    ASSUME NEW S, NEW T \in SUBSET S, NEW f, NEW g, \A x \in T : f[x] = g[x], \A x \in S \ T : f[x] = 0
    PROVE  Total(f, S) = Total(g, T)
<1>1. Units(f, S) = Units(g, T)
    BY DEF Units
<1> QED BY <1>1 DEF Total

LEMMA TotalAdds ==
    ASSUME NEW S, IsFiniteSet(S), NEW f, NEW g, NEW h,
           \A x \in S : f[x] \in Nat /\ g[x] \in Nat /\ h[x] \in Nat /\ h[x] = f[x] + g[x]
    PROVE  Total(h, S) = Total(f, S) + Total(g, S)
<1> DEFINE P == {T \in SUBSET S : Total(h, T) = Total(f, T) + Total(g, T)}
<1>1. {} \in P
    BY TotalOfNone
<1>2. ASSUME NEW T \in SUBSET S, T # {}, \A x \in T : T \ {x} \in P PROVE T \in P
  <2>0. PICK x \in T : T \ {x} \in P
      BY <1>2
  <2>1. IsFiniteSet(T)
      BY FS_Subset
  <2>2. /\ Total(h, T) = h[x] + Total(h, T \ {x}) /\ Total(h, T \ {x}) \in Nat
        /\ Total(f, T) = f[x] + Total(f, T \ {x}) /\ Total(f, T \ {x}) \in Nat
        /\ Total(g, T) = g[x] + Total(g, T \ {x}) /\ Total(g, T \ {x}) \in Nat
      BY <2>0, <2>1, TotalLess
  <2>3. Total(h, T \ {x}) = Total(f, T \ {x}) + Total(g, T \ {x})
      BY <2>0
  <2>4. h[x] = f[x] + g[x] /\ f[x] \in Nat /\ g[x] \in Nat
      BY <2>0
  <2>5. Total(h, T) = Total(f, T) + Total(g, T)
      BY <2>2, <2>3, <2>4
  <2> QED BY <2>5
<1>3. S \in P
  <2> HIDE DEF P
  <2> QED BY <1>1, <1>2, PartByPart
<1> QED BY <1>3

\* The fold that MapThenSumSet is.
Pick(s) == CHOOSE x \in s : TRUE
Folded(f, S, g) == g = [s \in SUBSET S |-> IF s = {} THEN 0 ELSE f[Pick(s)] + g[s \ {Pick(s)}]]

LEMMA PickIs == ASSUME NEW s, s # {} PROVE Pick(s) \in s
BY DEF Pick

LEMMA FoldIsTotal ==
    ASSUME NEW S, IsFiniteSet(S), NEW f, \A x \in S : f[x] \in Nat, NEW g, Folded(f, S, g)
    PROVE  g[S] = Total(f, S)
<1> DEFINE P == {T \in SUBSET S : g[T] = Total(f, T)}
<1>1. \A T \in SUBSET S : g[T] = IF T = {} THEN 0 ELSE f[Pick(T)] + g[T \ {Pick(T)}]
    BY DEF Folded
<1>2. {} \in P
    BY <1>1, TotalOfNone
<1>3. ASSUME NEW T \in SUBSET S, T # {}, \A x \in T : T \ {x} \in P PROVE T \in P
  <2>1. Pick(T) \in T /\ T \ {Pick(T)} \in P /\ IsFiniteSet(T)
      BY <1>3, PickIs, FS_Subset
  <2>2. Total(f, T) = f[Pick(T)] + Total(f, T \ {Pick(T)})
      BY <2>1, TotalLess
  <2>3. g[T] = f[Pick(T)] + g[T \ {Pick(T)}]
      BY <1>1, <1>3
  <2> QED BY <2>1, <2>2, <2>3
<1>4. S \in P
  <2> HIDE DEF P
  <2> QED BY <1>2, <1>3, PartByPart
<1> QED BY <1>4

LEMMA TotalIsFold ==
    ASSUME NEW S, IsFiniteSet(S), NEW f, \A x \in S : f[x] \in Nat
    PROVE  Folded(f, S, [s \in SUBSET S |-> Total(f, s)])
<1> DEFINE g == [s \in SUBSET S |-> Total(f, s)]
<1>1. ASSUME NEW s \in SUBSET S PROVE Total(f, s) = IF s = {} THEN 0 ELSE f[Pick(s)] + g[s \ {Pick(s)}]
  <2>1. CASE s = {}
      BY <2>1, TotalOfNone
  <2>2. CASE s # {}
    <3>1. Pick(s) \in s /\ IsFiniteSet(s) /\ s \ {Pick(s)} \in SUBSET S
        BY <2>2, PickIs, FS_Subset
    <3>2. Total(f, s) = f[Pick(s)] + Total(f, s \ {Pick(s)})
        BY <3>1, TotalLess
    <3> QED BY <2>2, <3>1, <3>2
  <2> QED BY <2>1, <2>2
<1> QED BY <1>1 DEF Folded

\* What book_wire_gaps_locked books is the sum of what each handle of the table has lost.
Lost(cursors_, oldest) == [h \in DOMAIN cursors_ |-> IF cursors_[h] < oldest THEN oldest - cursors_[h] ELSE 0]
LEMMA WireGapIs ==
    ASSUME NEW t, IsFiniteSet(t), NEW c, t \subseteq DOMAIN c, NEW o \in Nat, \A h \in t : c[h] \in Nat
    PROVE  WireGap(c, t, o) = Total(Lost(c, o), t)
<1> DEFINE f == Lost(c, o)
           G(g) == g = [s \in SUBSET t |->
                           IF s = {} THEN 0
                           ELSE LET x == CHOOSE x \in s : TRUE
                                IN  (IF c[x] < o THEN o - c[x] ELSE 0) + g[s \ {x}]]
           it == CHOOSE g : G(g)
<1>1. \A g : G(g) <=> Folded(f, t, g)
  <2>1. \A s \in SUBSET t : s # {} => (IF c[Pick(s)] < o THEN o - c[Pick(s)] ELSE 0) = f[Pick(s)]
      BY PickIs DEF Lost
  <2> QED BY <2>1, Zenon DEF Folded, Pick
<1>2. \A h \in t : f[h] \in Nat
    BY DEF Lost
<1>3. \E g : G(g)
    BY <1>1, <1>2, TotalIsFold
<1>4. G(it)
    BY <1>3, Zenon
<1>5. WireGap(c, t, o) = it[t]
    BY DEF WireGap, MapThenSumSet, MapThenFoldSet
<1> HIDE DEF G, it, f
<1>6. Folded(f, t, it)
    BY <1>1, <1>4
<1> QED BY <1>2, <1>5, <1>6, FoldIsTotal DEF f

-------------------------------------------------------------------------------
(* Losses *)

\* The handles that are out: opened, and not released yet.
Holders == {h \in Handles : caller[h].pc # "none" /\ closer[h].pc \in {"open", "release"}}
Referenced == refs \in Int /\ refs = Cardinality(Holders)

\* A wire that does not run has failed, or no handle is out; whoever finishes it found it so.
Over ==
    /\ state # "running" => terminal \/ Holders = {}
    /\ reader.pc = "finishing" => state # "running"
    /\ \A h \in Handles : caller[h].pc = "finishing" \/ closer[h].pc = "awaitdone" => state # "running"

\* The table has who subscribed, until its close has taken it out.
Tabled(h) ==
    /\ handle[h].closed <=> closer[h].pc # "open"
    /\ h \in subs <=> handle[h].subscribed \/ (closer[h].pc = "release" /\ closer[h].sub)
    /\ handle[h].subscribed => ~handle[h].closed

\* Where a call in progress may be: one that has a boundary to take is not of the table; a receive
\* on its way to register is not closed under.
Unread == {"none", "admit", "batch", "look", "rlock", "register"}
Receiving == {"rhead", "rlock", "register", "rwait"}
PlacedAt(r, c, listed) ==
    /\ r.pc \in Unread => ~listed
    /\ r.pc \in Receiving => r.op \in RecvOps
    /\ r.pc = "admit" => r.op \notin RecvOps
    /\ \/ r.pc \in {"none", "rlock", "register"}
       \/ r.pc \in {"batch", "look"} /\ r.op \in RecvOps
       => c = "open"
Placed(h) == PlacedAt(caller[h], closer[h].pc, h \in subs)

\* The table's cursor of a handle is its own, or one that was raised past a loss to the oldest frame.
Ahead ==
    \A h \in subs : /\ handle[h].cursor <= cursors[h]
                    /\ cursors[h] = handle[h].cursor \/ cursors[h] <= oldest_locked(next_seq)

\* What is booked for a handle: what it counted, and what was booked ahead of it.
Share == [h \in Handles |-> handle[h].dropped + (IF h \in subs THEN cursors[h] - handle[h].cursor ELSE 0)]
Booked == terminal \/ ring_gaps = Total(Share, Handles)

Accounts ==
    /\ ring_gaps \in Nat /\ cursors \in [Handles -> Nat]
    /\ Referenced /\ Over /\ Ahead /\ Booked
    /\ \A h \in Handles : Tabled(h) /\ Placed(h)

LEMMA HandlesFinite == IsFiniteSet(Handles) /\ \A S \in SUBSET Handles : IsFiniteSet(S)
BY ParkAssumption, FS_Subset DEF ParkAssumption

LEMMA OldestGrows ==
    ASSUME NEW n \in Nat \ {0}, NEW m \in Nat \ {0}, n <= m
    PROVE  oldest_locked(n) \in Nat \ {0} /\ oldest_locked(m) \in Nat \ {0} /\ oldest_locked(n) <= oldest_locked(m)
BY CapacityAssumption DEF oldest_locked, CapacityAssumption

\* What is booked for each handle is a number.
LEMMA ShareIs ==
    ASSUME Shape, Accounts
    PROVE  /\ Share \in [Handles -> Nat]
           /\ \A h \in Handles : handle[h].dropped \in Nat /\ handle[h].cursor \in Nat \ {0} /\ cursors[h] \in Nat
           /\ \A h \in subs : cursors[h] - handle[h].cursor \in Nat
<1>1. \A h \in Handles : handle[h].dropped \in Nat /\ handle[h].cursor \in Nat \ {0} /\ cursors[h] \in Nat
    BY DEF Shape, LogicalHandles, Accounts
<1>2. \A h \in subs : h \in Handles /\ handle[h].cursor <= cursors[h]
    BY DEF Shape, Accounts, Ahead
<1>3. \A h \in subs : cursors[h] - handle[h].cursor \in Nat
    BY <1>1, <1>2
<1> QED BY <1>1, <1>3 DEF Share

\* A step that books nothing: it leaves the counts, the table and who is in it, and what was booked.
HandlesBook ==
    \A o \in Handles : /\ handle'[o].closed <=> handle[o].closed
                       /\ handle'[o].subscribed <=> handle[o].subscribed
                       /\ handle'[o].dropped = handle[o].dropped
                       /\ o \in subs => handle'[o].cursor = handle[o].cursor
BooksNothing ==
    /\ UNCHANGED <<refs, subs, cursors, ring_gaps, closer>>
    /\ next_seq <= next_seq' /\ HandlesBook
    /\ \A o \in Handles : caller'[o].pc = "none" <=> caller[o].pc = "none"

\* A step that leaves the wire running, or fails it, or goes on with what is over.
WireGoesOn ==
    /\ state' = "running" => state = "running"
    /\ terminal => terminal'
    /\ state' # "running" => state # "running" \/ terminal'
    /\ reader'.pc = "finishing" => state' # "running"
    /\ \A o \in Handles : caller'[o].pc = "finishing" => state' # "running"

LEMMA BooksStay ==
    ASSUME Shape, Shape', Accounts, BooksNothing, WireGoesOn, \A o \in Handles : Placed(o)'
    PROVE  Accounts'
<1>1. Holders' = Holders /\ refs' = refs
    BY DEF BooksNothing, Holders
<1>2. Referenced'
    BY <1>1 DEF Accounts, Referenced
<1>3. Over'
    BY <1>1 DEF Accounts, Over, WireGoesOn, BooksNothing
<1>4. \A h \in Handles : Tabled(h)'
    BY DEF Accounts, Tabled, BooksNothing, HandlesBook
<1>5. oldest_locked(next_seq) <= oldest_locked(next_seq') /\ oldest_locked(next_seq) \in Nat /\ oldest_locked(next_seq') \in Nat
    BY OldestGrows DEF Shape, BooksNothing
<1>6. Ahead'
  <2> SUFFICES ASSUME NEW h \in subs'
               PROVE  /\ handle'[h].cursor <= cursors'[h]
                      /\ cursors'[h] = handle'[h].cursor \/ cursors'[h] <= oldest_locked(next_seq')
      BY DEF Ahead
  <2>1. h \in subs /\ h \in Handles /\ cursors' = cursors /\ handle'[h].cursor = handle[h].cursor
      BY DEF BooksNothing, HandlesBook, Shape
  <2>2. handle[h].cursor <= cursors[h] /\ (cursors[h] = handle[h].cursor \/ cursors[h] <= oldest_locked(next_seq))
      BY <2>1 DEF Accounts, Ahead
  <2>3. cursors[h] \in Nat
      BY <2>1 DEF Accounts
  <2> QED BY <1>5, <2>1, <2>2, <2>3
<1>7. Share' = Share
    BY DEF BooksNothing, HandlesBook, Share
<1>8. Booked'
    BY <1>7 DEF Accounts, Booked, WireGoesOn, BooksNothing
<1> QED BY <1>2, <1>3, <1>4, <1>6, <1>8 DEF Accounts, BooksNothing

\* A failure, and a wake-up, leave what is booked.
LEMMA WokenBooks == ASSUME Shape, NEW S, handle' = handle \/ handle' = Woken(handle, S) PROVE HandlesBook
<1>1. CASE handle' = handle
    BY <1>1 DEF HandlesBook
<1>2. CASE handle' = Woken(handle, S)
  <2>1. \A o \in Handles : /\ Woken(handle, S)[o].closed <=> handle[o].closed
                           /\ Woken(handle, S)[o].subscribed <=> handle[o].subscribed
                           /\ Woken(handle, S)[o].dropped = handle[o].dropped
                           /\ Woken(handle, S)[o].cursor = handle[o].cursor
      BY DEF Shape, Woken, LogicalHandles
  <2> QED BY <1>2, <2>1 DEF HandlesBook
<1> QED BY <1>1, <1>2

LEMMA FailedGoesOn ==
    ASSUME Shape, MarkFailed
    PROVE  /\ state' # "running" /\ (terminal => terminal') /\ (state = "running" => terminal') /\ refs' = refs
           /\ handle' = handle \/ handle' = Woken(handle, subs)
BY DEF MarkFailed

-------------------------------------------------------------------------------

\* The reader books nothing, and no call moves.
LEMMA ReaderBooks == ASSUME Shape, Shape', Accounts, ReaderStep PROVE Accounts'
<1>1. /\ UNCHANGED <<refs, subs, cursors, ring_gaps, closer, caller>>
      /\ handle' = handle \/ handle' = Woken(handle, subs)
      /\ next_seq' = next_seq \/ next_seq' = next_seq + 1
    BY DEF ReaderStep, ReaderStops, ReaderParks, ReaderResumes, ReaderUnparks, ReaderBatch, ReaderDiscards, ReaderDrained,
           ReaderDrainFails, ReaderFails, ReaderLocks, ReaderCommits, ReaderTimesOut, ReaderReadFails, ReaderFinishes,
           MarkFailed, finish_close, life, rings
<1>2. next_seq <= next_seq'
    BY <1>1 DEF Shape
<1>3. BooksNothing
    BY <1>1, <1>2, WokenBooks DEF BooksNothing
<1>4. \A o \in Handles : Placed(o)'
    BY <1>1 DEF Accounts, Placed
<1>5. \/ UNCHANGED <<state, terminal>> /\ reader'.pc # "finishing"
      \/ MarkFailed
      \/ reader.pc = "finishing" /\ state' = "closed" /\ terminal' = terminal
  <2>1. CASE ReaderDiscards
    <3>1. reader \in [pc : ReaderPcs, n : Nat]
        BY DEF Shape
    <3>2. [reader EXCEPT !.n = @ + 1].pc = reader.pc
        BY <3>1
    <3>3. reader.pc = "drain"
          /\ (reader' = [reader EXCEPT !.n = @ + 1] \/ \E to \in {"check", "drain_lock"} : reader' = [pc |-> to, n |-> 0])
        BY <2>1, Zenon DEF ReaderDiscards
    <3>4. \A to \in {"check", "drain_lock"} : [pc |-> to, n |-> 0].pc = to
        OBVIOUS
    <3>5. reader'.pc # "finishing"
        BY <3>2, <3>3, <3>4
    <3> QED BY <2>1, <3>5 DEF ReaderDiscards, life
  <2>2. CASE ReaderFails \/ ReaderReadFails
      BY <2>2 DEF ReaderFails, ReaderReadFails
  <2>3. CASE ReaderFinishes
      BY <2>3 DEF ReaderFinishes, ReaderExits, ReaderAt, finish_close
  <2>4. CASE \/ ReaderStops \/ ReaderParks \/ ReaderResumes \/ ReaderUnparks \/ ReaderBatch
             \/ ReaderDrained \/ ReaderDrainFails \/ ReaderLocks \/ ReaderCommits \/ ReaderTimesOut
      BY <2>4 DEF ReaderStops, ReaderParks, ReaderResumes, ReaderUnparks, ReaderBatch, ReaderDrained,
         ReaderDrainFails, ReaderLocks, ReaderCommits, ReaderTimesOut, ReaderExits, ReaderAt, life
  <2> QED BY <2>1, <2>2, <2>3, <2>4 DEF ReaderStep
<1>6. WireGoesOn
  <2>1. CASE UNCHANGED <<state, terminal>> /\ reader'.pc # "finishing"
      BY <1>1, <2>1 DEF Accounts, Over, WireGoesOn
  <2>2. CASE MarkFailed
      BY <1>1, <2>2, FailedGoesOn DEF Accounts, Over, WireGoesOn
  <2>3. CASE reader.pc = "finishing" /\ state' = "closed" /\ terminal' = terminal
      BY <1>1, <2>3 DEF Accounts, Over, WireGoesOn
  <2> QED BY <1>5, <2>1, <2>2, <2>3
<1> QED BY <1>3, <1>4, <1>6, BooksStay

\* A step of one handle's call that books nothing.
LEMMA OneBooks ==
    ASSUME Shape, NEW h \in Handles, NEW l \in LogicalHandles, handle' = [handle EXCEPT ![h] = l],
           l.closed <=> handle[h].closed, l.subscribed <=> handle[h].subscribed, l.dropped = handle[h].dropped,
           h \in subs => l.cursor = handle[h].cursor
    PROVE  HandlesBook
<1>1. \A o \in Handles : handle'[o] = IF o = h THEN l ELSE handle[o]
    BY DEF Shape
<1> QED BY <1>1 DEF HandlesBook

LEMMA CallBooks ==
    ASSUME Shape, Shape', Accounts, NEW h \in Handles, NEW r \in Calls, caller' = [caller EXCEPT ![h] = r],
           UNCHANGED <<refs, subs, cursors, ring_gaps, closer, reader>>, next_seq <= next_seq', HandlesBook,
           \/ UNCHANGED <<state, terminal>> /\ r.pc # "finishing"
           \/ MarkFailed
           \/ caller[h].pc = "finishing" /\ state' = "closed" /\ terminal' = terminal,
           r.pc # "none", caller[h].pc # "none", PlacedAt(r, closer[h].pc, h \in subs)
    PROVE  Accounts'
<1>1. \A o \in Handles : caller'[o] = IF o = h THEN r ELSE caller[o]
    BY DEF Shape
<1>2. BooksNothing
    BY <1>1 DEF BooksNothing
<1>3. \A o \in Handles : Placed(o)'
    BY <1>1 DEF Accounts, Placed
<1>4. WireGoesOn
  <2>1. CASE UNCHANGED <<state, terminal>> /\ r.pc # "finishing"
      BY <1>1, <2>1 DEF Accounts, Over, WireGoesOn
  <2>2. CASE MarkFailed
      BY <2>2, FailedGoesOn DEF WireGoesOn
  <2>3. CASE caller[h].pc = "finishing" /\ state' = "closed" /\ terminal' = terminal
      BY <2>3 DEF Accounts, Over, WireGoesOn
  <2> QED BY <2>1, <2>2, <2>3
<1> QED BY <1>2, <1>3, <1>4, BooksStay

\* One that leaves the handles and the wire alone.
LEMMA StillBooks ==
    ASSUME Shape, Shape', Accounts, NEW h \in Handles, NEW r \in Calls, caller' = [caller EXCEPT ![h] = r],
           UNCHANGED <<life, rings, closer, reader, handle>>,
           r.pc \notin {"none", "finishing"}, caller[h].pc # "none", PlacedAt(r, closer[h].pc, h \in subs)
    PROVE  Accounts'
<1>1. /\ UNCHANGED <<refs, subs, cursors, ring_gaps, closer, reader, state, terminal>> /\ next_seq' = next_seq
      /\ handle' = handle
    BY DEF life, rings
<1>2. next_seq <= next_seq'
    BY <1>1 DEF Shape
<1>3. HandlesBook
    BY <1>1 DEF HandlesBook
<1> QED BY <1>1, <1>2, <1>3, CallBooks

\* Where a call is neither on its way to a boundary nor to a receive, it may be whatever happens.
Elsewhere == CallerPcs \ (Unread \cup Receiving \cup {"finishing"})
LEMMA AwayBooks ==
    ASSUME Shape, Shape', Accounts, NEW h \in Handles, caller[h].pc # "none", NEW to \in Elsewhere,
           \/ CallEnds(h, to)
           \/ caller' = [caller EXCEPT ![h].pc = to]
           \/ \E op \in {"send", "sendsub"} : caller' = [caller EXCEPT ![h].pc = to, ![h].op = op],
           UNCHANGED <<life, rings, closer, reader, handle>>
    PROVE  Accounts'
<1>a. caller \in [Handles -> Calls] /\ caller[h] \in Calls
    BY DEF Shape
<1>1. PICK r \in Calls : caller' = [caller EXCEPT ![h] = r] /\ r.pc = to
  <2>1. CASE CallEnds(h, to)
      BY <2>1, CallTyped DEF CallEnds, Elsewhere
  <2>2. CASE caller' = [caller EXCEPT ![h].pc = to]
    <3>1. [caller[h] EXCEPT !.pc = to] \in Calls /\ [caller[h] EXCEPT !.pc = to].pc = to
        BY <1>a DEF Calls, Elsewhere
    <3>2. caller' = [caller EXCEPT ![h] = [caller[h] EXCEPT !.pc = to]]
        BY <1>a, <2>2
    <3> QED BY <3>1, <3>2
  <2>3. ASSUME NEW op \in {"send", "sendsub"}, caller' = [caller EXCEPT ![h].pc = to, ![h].op = op]
        PROVE  \E r \in Calls : caller' = [caller EXCEPT ![h] = r] /\ r.pc = to
    <3>1. [caller[h] EXCEPT !.pc = to, !.op = op] \in Calls /\ [caller[h] EXCEPT !.pc = to, !.op = op].pc = to
        BY <1>a DEF Calls, Elsewhere
    <3>2. caller' = [caller EXCEPT ![h] = [caller[h] EXCEPT !.pc = to, !.op = op]]
        BY <1>a, <2>3
    <3> QED BY <3>1, <3>2
  <2> QED BY <2>1, <2>2, <2>3
<1>2. r.pc \notin Unread \cup Receiving \cup {"finishing"} /\ r.pc # "none"
    BY <1>1 DEF Elsewhere, Unread
<1>3. PlacedAt(r, closer[h].pc, h \in subs)
    BY <1>2 DEF PlacedAt, Unread, Receiving
<1> QED BY <1>1, <1>2, <1>3, StillBooks

LEMMA AwaysBook ==
    ASSUME Shape, Shape', Accounts, NEW h \in Handles,
           \/ AdmitRefused(h) \/ AdmitAttentive(h) \/ BatchGivesUp(h) \/ AwaitDone(h) \/ Admitted(h) \/ JoinReturns(h)
           \/ Write(h) \/ WriteReturns(h) \/ RefreshCheck(h) \/ Refresh(h) \/ RecvTimesOut(h)
    PROVE  Accounts'
<1>1. UNCHANGED <<life, rings, closer, reader, handle>>
    BY DEF AdmitRefused, AdmitAttentive, BatchGivesUp, AwaitDone, Admitted, JoinReturns, Write, WriteReturns,
           RefreshCheck, Refresh, RecvTimesOut
<1>2. \E to \in {"idle", "joinfail", "admitted", "joined", "write", "writing", "refresh", "refreshing"} :
          CallEnds(h, to) \/ caller' = [caller EXCEPT ![h].pc = to]
    BY Zenon DEF AdmitRefused, AdmitAttentive, BatchGivesUp, AwaitDone, Admitted, JoinReturns, Write, WriteReturns,
           RefreshCheck, Refresh, RecvTimesOut, CallerAt
<1>3. {"idle", "joinfail", "admitted", "joined", "write", "writing", "refresh", "refreshing"} \subseteq Elsewhere
    BY DEF Elsewhere, CallerPcs, Unread, Receiving
<1>4. caller[h].pc # "none"
    BY DEF AdmitRefused, AdmitAttentive, BatchGivesUp, AwaitDone, Admitted, JoinReturns, Write, WriteReturns,
           RefreshCheck, Refresh, RecvTimesOut, CallerAt
<1> QED BY <1>1, <1>2, <1>3, <1>4, AwayBooks

\* A call's own record moves, its kind does not.
LEMMA CallAt ==
    ASSUME Shape, NEW h \in Handles, NEW to \in CallerPcs
    PROVE  /\ [caller[h] EXCEPT !.pc = to] \in Calls
           /\ [caller[h] EXCEPT !.pc = to].pc = to /\ [caller[h] EXCEPT !.pc = to].op = caller[h].op
           /\ caller' = [caller EXCEPT ![h].pc = to] => caller' = [caller EXCEPT ![h] = [caller[h] EXCEPT !.pc = to]]
<1>1. caller \in [Handles -> Calls] /\ caller[h] \in Calls
    BY DEF Shape
<1> QED BY <1>1 DEF Calls

\* What is known of a handle that has not subscribed and is not closed.
LEMMA OpenBooks ==
    ASSUME Accounts, NEW h \in Handles, ~handle[h].closed
    PROVE  closer[h].pc = "open" /\ (h \in subs <=> handle[h].subscribed)
BY DEF Accounts, Tabled

\* The starts of sends and receives, and what moves a receive on to its boundary or back to its top.
LEMMA StartsBook ==
    ASSUME Shape, Shape', Accounts, NEW h \in Handles, SendStart(h) \/ \E op \in RecvOps : RecvStart(h, op)
    PROVE  Accounts'
<1>1. UNCHANGED <<life, rings, closer, reader, handle>> /\ caller[h].pc = "idle" /\ ~handle[h].closed
    BY DEF SendStart, RecvStart, Calling
<1>2. \E to \in {"write", "admit", "rhead"}, op \in RecvOps \cup {"send", "sendsub"} :
          /\ caller' = [caller EXCEPT ![h].pc = to, ![h].op = op]
          /\ to = "rhead" => op \in RecvOps
          /\ to = "admit" => op = "send" /\ ~handle[h].subscribed
  <2>1. CASE SendStart(h)
      BY <2>1 DEF SendStart
  <2>2. ASSUME NEW op \in RecvOps, RecvStart(h, op)
        PROVE  caller' = [caller EXCEPT ![h].pc = "rhead", ![h].op = op]
      BY <2>2 DEF RecvStart
  <2> QED BY <2>1, <2>2
<1>3. PICK to \in {"write", "admit", "rhead"}, op \in RecvOps \cup {"send", "sendsub"} :
          /\ caller' = [caller EXCEPT ![h].pc = to, ![h].op = op]
          /\ to = "rhead" => op \in RecvOps
          /\ to = "admit" => op = "send" /\ ~handle[h].subscribed
    BY <1>2
<1> DEFINE r == [caller[h] EXCEPT !.pc = to, !.op = op]
<1>4. r \in Calls /\ r.pc = to /\ r.op = op /\ caller' = [caller EXCEPT ![h] = r]
  <2>1. /\ caller \in [Handles -> Calls] /\ caller[h] \in Calls
        /\ to \in CallerPcs /\ op \in RecvOps \cup {"none", "join", "send", "sendsub"}
      BY DEF CallerPcs, Shape
  <2>2. r \in Calls /\ r.pc = to /\ r.op = op
      BY <2>1 DEF Calls
  <2>3. caller' = [caller EXCEPT ![h] = r]
      BY <1>3, <2>1
  <2> QED BY <2>2, <2>3
<1> HIDE DEF r
<1>5. PlacedAt(r, closer[h].pc, h \in subs)
  <2>1. r.pc = "admit" => h \notin subs /\ r.op = "send"
      BY <1>1, <1>3, <1>4, OpenBooks
  <2>2. r.pc \in {"write", "admit", "rhead"} /\ (r.pc = "rhead" => r.op \in RecvOps)
      BY <1>3, <1>4
  <2> QED BY <2>1, <2>2 DEF PlacedAt, Unread, Receiving, RecvOps
<1> QED BY <1>1, <1>4, <1>5, StillBooks

LEMMA HeadsBook ==
    ASSUME Shape, Shape', Accounts, NEW h \in Handles, RecvHead(h) \/ BatchBegins(h)
    PROVE  Accounts'
<1>1. UNCHANGED <<life, rings, closer, reader, handle>> /\ caller[h].pc # "none" /\ Placed(h)
    BY DEF RecvHead, BatchBegins, CallerAt, Accounts
<1>2. CASE CallEnds(h, "idle")
  <2>1. "idle" \in Elsewhere
      BY DEF Elsewhere, CallerPcs, Unread, Receiving
  <2> QED BY <1>1, <1>2, <2>1, AwayBooks
<1>3. CASE RecvHead(h) /\ ~CallEnds(h, "idle")
  <2> DEFINE r == [caller[h] EXCEPT !.pc = "rlock"]
  <2>1. caller[h].pc = "rhead" /\ ~handle[h].closed /\ ~handle[h].subscribed /\ caller' = [caller EXCEPT ![h].pc = "rlock"]
      BY <1>3 DEF RecvHead, CallerAt
  <2>2. r \in Calls /\ r.pc = "rlock" /\ r.op = caller[h].op /\ caller' = [caller EXCEPT ![h] = r]
    <3>1. "rlock" \in CallerPcs
        BY DEF CallerPcs
    <3> QED BY <2>1, <3>1, CallAt
  <2> HIDE DEF r
  <2>3. PlacedAt(r, closer[h].pc, h \in subs)
      BY <1>1, <2>1, <2>2, OpenBooks DEF Placed, PlacedAt, Unread, Receiving
  <2> QED BY <1>1, <2>2, <2>3, StillBooks
<1>4. CASE BatchBegins(h)
  <2> DEFINE r == [caller[h] EXCEPT !.pc = "look"]
  <2>1. caller[h].pc = "batch" /\ caller' = [caller EXCEPT ![h].pc = "look"]
      BY <1>4 DEF BatchBegins, CallerAt
  <2>2. r \in Calls /\ r.pc = "look" /\ r.op = caller[h].op /\ caller' = [caller EXCEPT ![h] = r]
    <3>1. "look" \in CallerPcs
        BY DEF CallerPcs
    <3> QED BY <2>1, <3>1, CallAt
  <2> HIDE DEF r
  <2>3. PlacedAt(r, closer[h].pc, h \in subs)
      BY <1>1, <2>1, <2>2 DEF Placed, PlacedAt, Unread, Receiving
  <2> QED BY <1>1, <2>2, <2>3, StillBooks
<1> QED BY <1>2, <1>3, <1>4

\* One wake token is spent.
LEMMA WakesBook == ASSUME Shape, Shape', Accounts, NEW h \in Handles, RecvWakes(h) PROVE Accounts'
<1>a. handle \in [Handles -> LogicalHandles] /\ handle[h] \in LogicalHandles /\ Placed(h) /\ next_seq \in Nat
    BY DEF Shape, Accounts
<1> DEFINE r == [caller[h] EXCEPT !.pc = "rhead"]
           l == [handle[h] EXCEPT !.wake = FALSE]
<1>1. caller[h].pc = "rwait" /\ caller' = [caller EXCEPT ![h].pc = "rhead"] /\ "rhead" \in CallerPcs
    BY DEF RecvWakes, CallerAt, CallerPcs
<1>2. r \in Calls /\ r.pc = "rhead" /\ r.op = caller[h].op /\ caller' = [caller EXCEPT ![h] = r]
    BY <1>1, CallAt
<1>3. /\ l \in LogicalHandles /\ (l.closed <=> handle[h].closed) /\ (l.subscribed <=> handle[h].subscribed)
      /\ l.dropped = handle[h].dropped /\ l.cursor = handle[h].cursor
    BY <1>a DEF LogicalHandles
<1>4. handle' = [handle EXCEPT ![h] = l]
    BY <1>a DEF RecvWakes
<1> HIDE DEF r, l
<1>5. HandlesBook
    BY <1>3, <1>4, OneBooks
<1>6. /\ UNCHANGED <<refs, subs, cursors, ring_gaps, closer, reader, state, terminal>> /\ next_seq' = next_seq
    BY DEF RecvWakes, life, rings
<1>7. next_seq <= next_seq'
    BY <1>a, <1>6
<1>8. PlacedAt(r, closer[h].pc, h \in subs)
    BY <1>a, <1>1, <1>2 DEF Placed, PlacedAt, Unread, Receiving
<1>9. r.pc # "none" /\ caller[h].pc # "none" /\ r.pc # "finishing"
    BY <1>1, <1>2
<1> QED BY <1>2, <1>5, <1>6, <1>7, <1>8, <1>9, CallBooks

\* Taking the lock for a boundary: the drain begins, or there is nothing to drain.
LEMMA BeginsBook == ASSUME Shape, Shape', Accounts, NEW h \in Handles, AdmitParked(h) \/ RecvLocks(h) PROVE Accounts'
<1>a. /\ handle \in [Handles -> LogicalHandles] /\ handle[h] \in LogicalHandles /\ caller[h] \in Calls
      /\ Placed(h) /\ next_seq \in Nat \ {0}
    BY DEF Shape, Accounts
<1>1. /\ UNCHANGED <<refs, subs, cursors, ring_gaps, closer, reader, state, terminal>> /\ next_seq' = next_seq
      /\ caller[h].pc \in {"admit", "rlock"}
    BY DEF AdmitParked, RecvLocks, CallerAt, life, rings
<1>2. h \notin subs /\ (caller[h].pc = "admit" => caller[h].op \notin RecvOps)
      /\ (caller[h].pc = "rlock" => caller[h].op \in RecvOps /\ closer[h].pc = "open")
    BY <1>a, <1>1 DEF Placed, PlacedAt, Unread, Receiving
<1>3. HandlesBook
  <2>1. CASE handle' = handle
      BY <2>1 DEF HandlesBook
  <2>2. CASE handle' = [handle EXCEPT ![h].cursor = next_seq]
    <3> DEFINE l == [handle[h] EXCEPT !.cursor = next_seq]
    <3>1. /\ l \in LogicalHandles /\ (l.closed <=> handle[h].closed) /\ (l.subscribed <=> handle[h].subscribed)
          /\ l.dropped = handle[h].dropped
        BY <1>a DEF LogicalHandles
    <3>2. handle' = [handle EXCEPT ![h] = l]
        BY <1>a, <2>2
    <3> HIDE DEF l
    <3> QED BY <1>2, <3>1, <3>2, OneBooks
  <2> QED BY <2>1, <2>2 DEF AdmitParked, RecvLocks
<1>4. PICK r \in Calls : /\ caller' = [caller EXCEPT ![h] = r] /\ r.op = caller[h].op
                         /\ r.pc = "batch" \/ (r.pc = "register" /\ caller[h].pc = "rlock")
  <2>1. CASE caller[h].pc = "rlock" /\ caller' = [caller EXCEPT ![h].pc = "register"]
    <3> DEFINE r == [caller[h] EXCEPT !.pc = "register"]
    <3>1. "register" \in CallerPcs
        BY DEF CallerPcs
    <3>2. r \in Calls /\ r.pc = "register" /\ r.op = caller[h].op /\ caller' = [caller EXCEPT ![h] = r]
        BY <2>1, <3>1, CallAt
    <3> HIDE DEF r
    <3> QED BY <2>1, <3>2
  <2>2. ASSUME NEW b \in BOOLEAN, caller' = [caller EXCEPT ![h].pc = "batch", ![h].pub = b]
        PROVE  \E r \in Calls : caller' = [caller EXCEPT ![h] = r] /\ r.op = caller[h].op /\ r.pc = "batch"
    <3> DEFINE r == [caller[h] EXCEPT !.pc = "batch", !.pub = b]
    <3>1. r \in Calls /\ r.pc = "batch" /\ r.op = caller[h].op
        BY <1>a DEF Calls, CallerPcs
    <3>2. caller' = [caller EXCEPT ![h] = r]
        BY <2>2 DEF Shape
    <3> QED BY <3>1, <3>2
  <2>3. \/ caller[h].pc = "rlock" /\ caller' = [caller EXCEPT ![h].pc = "register"]
        \/ \E b \in BOOLEAN : caller' = [caller EXCEPT ![h].pc = "batch", ![h].pub = b]
    <3>1. (pending_admit \ {h} # {}) \in BOOLEAN /\ (pending_admit # {}) \in BOOLEAN
        OBVIOUS
    <3> QED BY <3>1 DEF AdmitParked, RecvLocks, CallerAt
  <2> QED BY <2>1, <2>2, <2>3
<1>5. PlacedAt(r, closer[h].pc, h \in subs)
    BY <1>1, <1>2, <1>4 DEF PlacedAt, Unread, Receiving
<1>6. next_seq <= next_seq' /\ r.pc \notin {"none", "finishing"} /\ caller[h].pc # "none"
    BY <1>a, <1>1, <1>4
<1> QED BY <1>1, <1>3, <1>4, <1>5, <1>6, CallBooks

\* A boundary is established, whatever it is worth.
LEMMA EstablishedBooks ==
    ASSUME Shape, Shape', Accounts, NEW h \in Handles, NEW floor, Established(h, floor), caller[h].pc \in {"batch", "look"},
           UNCHANGED <<life, rings, closer, reader>>
    PROVE  Accounts'
<1>a. /\ handle \in [Handles -> LogicalHandles] /\ handle[h] \in LogicalHandles /\ caller[h] \in Calls
      /\ Placed(h) /\ next_seq \in Nat \ {0}
    BY DEF Shape, Accounts
<1> DEFINE to == IF caller[h].op \in RecvOps THEN "register" ELSE "admitted"
           r  == [NoCall(to) EXCEPT !.op = caller[h].op]
           l  == [handle[h] EXCEPT !.cursor = next_seq]
<1>1. h \notin subs /\ (caller[h].op \in RecvOps => closer[h].pc = "open")
    BY <1>a DEF Placed, PlacedAt, Unread
<1>2. /\ l \in LogicalHandles /\ (l.closed <=> handle[h].closed) /\ (l.subscribed <=> handle[h].subscribed)
      /\ l.dropped = handle[h].dropped
    BY <1>a DEF LogicalHandles
<1>3. handle' = [handle EXCEPT ![h] = l]
    BY <1>a DEF Established
<1>4. r \in Calls /\ r.pc = to /\ r.op = caller[h].op
  <2>1. to \in CallerPcs /\ caller[h].op \in RecvOps \cup {"none", "join", "send", "sendsub"}
      BY <1>a DEF CallerPcs, Calls
  <2> HIDE DEF to
  <2> QED BY <2>1 DEF NoCall, Calls
<1>5. caller' = [caller EXCEPT ![h] = r]
    BY DEF Established
<1>6. /\ to \in {"register", "admitted"} /\ (to = "register" => caller[h].op \in RecvOps)
    OBVIOUS
<1> HIDE DEF to, r, l
<1>7. HandlesBook
    BY <1>1, <1>2, <1>3, OneBooks
<1>8. PlacedAt(r, closer[h].pc, h \in subs)
    BY <1>1, <1>4, <1>6 DEF PlacedAt, Unread, Receiving
<1>9. /\ UNCHANGED <<refs, subs, cursors, ring_gaps, closer, reader, state, terminal>> /\ next_seq' = next_seq
      /\ r.pc \notin {"none", "finishing"} /\ caller[h].pc # "none"
    BY <1>4, <1>6 DEF life, rings
<1>10. next_seq <= next_seq'
    BY <1>a, <1>9
<1> QED BY <1>4, <1>5, <1>7, <1>8, <1>9, <1>10, CallBooks

LEMMA BoundariesBook ==
    ASSUME Shape, Shape', Accounts, NEW h \in Handles, BatchEnds(h) \/ BoundaryEmpty(h)
    PROVE  Accounts'
<1>1. UNCHANGED <<life, rings, closer, reader>> /\ caller[h].pc \in {"batch", "look"}
    BY DEF BatchEnds, BoundaryEmpty
<1>2. \E floor : Established(h, floor)
    BY Zenon DEF BatchEnds, BoundaryEmpty
<1> QED BY <1>1, <1>2, EstablishedBooks

\* A boundary drain that meets a failure.
LEMMA FailuresBook ==
    ASSUME Shape, Shape', Accounts, NEW h \in Handles, BoundaryFails(h) \/ BoundaryFinishes(h)
    PROVE  Accounts'
<1>1. /\ UNCHANGED <<refs, subs, cursors, ring_gaps, closer, reader>> /\ next_seq' = next_seq
      /\ handle' = handle \/ handle' = Woken(handle, subs)
    BY DEF BoundaryFails, BoundaryFinishes, MarkFailed, finish_close, rings
<1>2. HandlesBook
    BY <1>1, WokenBooks
<1>3. next_seq <= next_seq'
    BY <1>1 DEF Shape
<1>4. PICK to \in {"finishing", "awaitdone"} :
          /\ caller' = [caller EXCEPT ![h].pc = to] /\ caller[h].pc \in {"look", "finishing"}
          /\ MarkFailed \/ (caller[h].pc = "finishing" /\ state' = "closed" /\ terminal' = terminal)
    BY DEF BoundaryFails, BoundaryFinishes, CallerAt, finish_close
<1> DEFINE r == [caller[h] EXCEPT !.pc = to]
<1>5. r \in Calls /\ r.pc = to /\ caller' = [caller EXCEPT ![h] = r]
  <2>1. to \in CallerPcs
      BY DEF CallerPcs
  <2> QED BY <1>4, <2>1, CallAt
<1> HIDE DEF r
<1>6. PlacedAt(r, closer[h].pc, h \in subs)
    BY <1>4, <1>5 DEF PlacedAt, Unread, Receiving
<1>7. r.pc # "none" /\ caller[h].pc # "none"
    BY <1>4, <1>5
<1> QED BY <1>1, <1>2, <1>3, <1>4, <1>5, <1>6, <1>7, CallBooks

\* One read of a boundary drain, published or thrown away.
LEMMA ReadsBook == ASSUME Shape, Shape', Accounts, NEW h \in Handles, BoundaryRead(h) PROVE Accounts'
<1>a. /\ handle \in [Handles -> LogicalHandles] /\ caller \in [Handles -> Calls] /\ caller[h] \in Calls
      /\ caller[h].n \in Nat /\ caller[h].read \in Nat
      /\ Placed(h) /\ next_seq \in Nat \ {0} /\ Capacity \in Nat
    BY CapacityAssumption DEF Shape, Accounts, Calls, CapacityAssumption
<1> DEFINE full    == caller[h].n + 1 = Capacity
           looked  == full /\ caller[h].op = "look"
           publish == caller[h].pub /\ state = "running"
           next    == IF publish THEN next_seq + 1 ELSE next_seq
           more    == IF caller[h].pub THEN 1 ELSE Capacity
           base    == IF publish THEN Woken(handle, subs) ELSE handle
           l       == IF looked THEN [base[h] EXCEPT !.cursor = next] ELSE base[h]
           A       == [NoCall("register") EXCEPT !.op = "look"]
           B       == [caller[h] EXCEPT !.pc = "batch", !.n = 0, !.read = caller[h].read + more]
           C       == [caller[h] EXCEPT !.n = caller[h].n + 1]
           r       == IF looked THEN A ELSE IF full THEN B ELSE C
<1>1. caller[h].pc = "look" /\ UNCHANGED <<refs, subs, cursors, ring_gaps, closer, reader, state, terminal>>
      /\ next_seq' = next /\ next_seq <= next
    BY <1>a DEF BoundaryRead, life
<1>2. h \notin subs /\ (caller[h].op \in RecvOps => closer[h].pc = "open")
    BY <1>a, <1>1 DEF Placed, PlacedAt, Unread
<1>3. next \in Nat \ {0} /\ more \in Nat
    BY <1>a
<1>4. base \in [Handles -> LogicalHandles]
    BY <1>a, WokenKeeps
<1>5. \A o \in Handles : /\ base[o].closed <=> handle[o].closed
                         /\ base[o].subscribed <=> handle[o].subscribed
                         /\ base[o].dropped = handle[o].dropped
                         /\ base[o].cursor = handle[o].cursor
    BY <1>a DEF Woken, LogicalHandles
<1>6. handle' = [base EXCEPT ![h] = l]
  <2>1. handle' = [base EXCEPT ![h].cursor = IF looked THEN next ELSE @]
      BY DEF BoundaryRead
  <2> HIDE DEF base, next, looked
  <2>2. CASE looked
      BY <1>4, <2>1, <2>2
  <2>3. CASE ~looked
    <3>1. base[h] \in LogicalHandles
        BY <1>4
    <3>2. [base[h] EXCEPT !.cursor = base[h].cursor] = base[h]
        BY <3>1 DEF LogicalHandles
    <3> QED BY <1>4, <2>1, <2>3, <3>2
  <2> QED BY <2>2, <2>3
<1>7. caller' = [caller EXCEPT ![h] = r]
    BY Zenon DEF BoundaryRead
<1>8. r \in Calls /\ r.pc \in {"register", "batch", "look"} /\ r.op = caller[h].op /\ (r.pc = "register" => r.op \in RecvOps)
  <2>1. A \in Calls /\ A.pc = "register" /\ A.op = "look" /\ "look" \in RecvOps
      BY DEF NoCall, Calls, CallerPcs, RecvOps
  <2> HIDE DEF more
  <2>2. B \in Calls /\ B.pc = "batch" /\ B.op = caller[h].op
    <3>1. caller[h].read + more \in Nat
        BY <1>a, <1>3
    <3> QED BY <1>a, <3>1 DEF Calls, CallerPcs
  <2>3. C \in Calls /\ C.pc = caller[h].pc /\ C.op = caller[h].op
    <3>1. caller[h].n + 1 \in Nat
        BY <1>a
    <3> QED BY <1>a, <3>1 DEF Calls
  <2> HIDE DEF A, B, C
  <2> QED BY <1>1, <2>1, <2>2, <2>3
<1>9. HandlesBook
  <2>1. base[h] \in LogicalHandles
      BY <1>4
  <2> HIDE DEF base, next, looked
  <2>2. (l.closed <=> base[h].closed) /\ (l.subscribed <=> base[h].subscribed) /\ l.dropped = base[h].dropped
      BY <2>1 DEF LogicalHandles
  <2>3. \A o \in Handles : handle'[o] = IF o = h THEN l ELSE base[o]
      BY <1>4, <1>6
  <2> HIDE DEF l
  <2> QED BY <1>2, <1>5, <2>2, <2>3 DEF HandlesBook
<1> HIDE DEF r, next
<1>10. PlacedAt(r, closer[h].pc, h \in subs)
    BY <1>2, <1>8 DEF PlacedAt, Unread, Receiving
<1>11. r.pc \notin {"none", "finishing"} /\ caller[h].pc # "none" /\ next_seq <= next_seq'
    BY <1>1, <1>8
<1> QED BY <1>1, <1>7, <1>8, <1>9, <1>10, <1>11, CallBooks

\* The clock, the driver, and a step in which nothing happens.
LEMMA OthersBook ==
    ASSUME Shape, Shape', Accounts,
           Arrive \/ Unplug \/ (\E h \in Handles : Age(h)) \/ Stopped \/ UNCHANGED vars
    PROVE  Accounts'
<1>1. UNCHANGED <<state, terminal, refs, next_seq, subs, cursors, ring_gaps, reader, caller, closer, handle>>
    BY DEF Arrive, Unplug, Age, Stopped, vars, life, rings, threads
<1>2. next_seq <= next_seq'
    BY <1>1 DEF Shape
<1>3. BooksNothing
    BY <1>1, <1>2 DEF BooksNothing, HandlesBook
<1>4. WireGoesOn
    BY <1>1 DEF WireGoesOn, Accounts, Over
<1>5. \A o \in Handles : Placed(o)'
    BY <1>1 DEF Accounts, Placed
<1> QED BY <1>3, <1>4, <1>5, BooksStay

-------------------------------------------------------------------------------
(* The steps that book, and those that count the references *)

\* Booking what the handles of a table have lost adds their losses to what is booked.
LEMMA GapsAdd ==
    ASSUME Shape, Shape', Accounts, NEW t \in SUBSET Handles, NEW c \in [Handles -> Nat], NEW oldest \in Nat,
           ring_gaps' = ring_gaps + WireGap(c, t, oldest), terminal' = terminal, Share' \in [Handles -> Nat],
           \A x \in Handles :
               terminal \/ Share'[x] = Share[x] + (IF x \in t THEN (IF c[x] < oldest THEN oldest - c[x] ELSE 0) ELSE 0)
    PROVE  Booked' /\ ring_gaps' \in Nat
<1> DEFINE gained == [x \in Handles |-> IF x \in t THEN (IF c[x] < oldest THEN oldest - c[x] ELSE 0) ELSE 0]
<1>1. IsFiniteSet(Handles) /\ IsFiniteSet(t)
    BY HandlesFinite
<1>2. WireGap(c, t, oldest) = Total(Lost(c, oldest), t)
  <2>1. t \subseteq DOMAIN c /\ \A h \in t : c[h] \in Nat
      OBVIOUS
  <2> QED BY <1>1, <2>1, WireGapIs
<1>3. Total(gained, Handles) = Total(Lost(c, oldest), t)
  <2>1. (\A x \in t : gained[x] = Lost(c, oldest)[x]) /\ \A x \in Handles \ t : gained[x] = 0
      BY DEF Lost
  <2> HIDE DEF gained
  <2> QED BY <2>1, TotalWithin
<1>4. gained \in [Handles -> Nat]
    OBVIOUS
<1>5. Share \in [Handles -> Nat]
    BY ShareIs
<1>6. Total(gained, Handles) \in Nat
    BY <1>1, <1>4, UnitsFinite, FS_CardinalityType DEF Total
<1>7. ring_gaps \in Nat /\ ring_gaps' = ring_gaps + Total(gained, Handles)
    BY <1>2, <1>3 DEF Accounts
<1>8. CASE ~terminal
  <2>1. \A x \in Handles : Share'[x] = Share[x] + gained[x]
      BY <1>8
  <2> HIDE DEF gained
  <2>2. \A x \in Handles : Share[x] \in Nat /\ gained[x] \in Nat /\ Share'[x] \in Nat
      BY <1>4, <1>5
  <2>3. Total(Share', Handles) = Total(Share, Handles) + Total(gained, Handles)
      BY <1>1, <2>1, <2>2, TotalAdds
  <2>4. ring_gaps = Total(Share, Handles)
      BY <1>8 DEF Accounts, Booked
  <2>5. ring_gaps' = Total(Share', Handles)
      BY <1>7, <2>3, <2>4
  <2> QED BY <1>6, <1>7, <2>5 DEF Booked
<1>9. CASE terminal
  <2> HIDE DEF gained
  <2> QED BY <1>6, <1>7, <1>9 DEF Booked
<1> QED BY <1>8, <1>9

\* What a handle lost is what the wire booked ahead of it and what is left to book.
LEMMA SharesAdd ==
    ASSUME NEW own \in Nat, NEW tab \in Nat, own <= tab, NEW oldest \in Nat, tab = own \/ tab <= oldest, NEW n \in Nat
    PROVE  /\ (n + OwnGap(own, oldest)) = (n + (tab - own)) + (IF tab < oldest THEN oldest - tab ELSE 0)
           /\ n + ((IF tab < oldest THEN oldest ELSE tab) - own) = (n + (tab - own)) + (IF tab < oldest THEN oldest - tab ELSE 0)
BY DEF OwnGap

\* The table raised: still ahead of its handles, and no further than the oldest frame.
LEMMA RaisedAhead ==
    ASSUME Shape, Accounts, NEW o \in subs
    PROVE  LET at == Raised(cursors, subs, oldest_locked(next_seq))[o] IN
           /\ at \in Nat /\ handle[o].cursor <= at
           /\ at = handle[o].cursor \/ at <= oldest_locked(next_seq)
           /\ at = IF cursors[o] < oldest_locked(next_seq) THEN oldest_locked(next_seq) ELSE cursors[o]
<1>1. o \in Handles /\ cursors[o] \in Nat /\ handle[o].cursor \in Nat /\ DOMAIN cursors = Handles
    BY ShareIs DEF Shape, Accounts
<1>2. oldest_locked(next_seq) \in Nat
    BY OldestGrows DEF Shape
<1>3. handle[o].cursor <= cursors[o] /\ (cursors[o] = handle[o].cursor \/ cursors[o] <= oldest_locked(next_seq))
    BY DEF Accounts, Ahead
<1> DEFINE oldest == oldest_locked(next_seq)
           at == Raised(cursors, subs, oldest)[o]
<1>4. at = IF cursors[o] < oldest THEN oldest ELSE cursors[o]
    BY <1>1 DEF Raised
<1> HIDE DEF oldest, at
<1>5. at \in Nat /\ handle[o].cursor <= at /\ (at = handle[o].cursor \/ at <= oldest)
    BY <1>1, <1>2, <1>3, <1>4 DEF oldest
<1> QED BY <1>4, <1>5 DEF at, oldest

\* The monitor's poll.
LEMMA PollBooks == ASSUME Shape, Shape', Accounts, NEW h \in Handles, diagnostics(h) PROVE Accounts'
<1> DEFINE oldest == oldest_locked(next_seq)
<1>1. /\ UNCHANGED <<state, terminal, refs, next_seq, subs, reader, caller, closer, handle>>
      /\ ring_gaps' = ring_gaps + WireGap(cursors, subs, oldest) /\ cursors' = Raised(cursors, subs, oldest)
    BY DEF diagnostics, life, threads
<1>2. oldest \in Nat /\ subs \subseteq Handles /\ cursors \in [Handles -> Nat]
    BY OldestGrows DEF Shape, Accounts
<1>3. cursors' \in [Handles -> Nat]
    BY <1>1, <1>2 DEF Raised
<1>4. Ahead'
    BY <1>1, RaisedAhead DEF Ahead
<1>5. /\ Share' \in [Handles -> Nat]
      /\ \A x \in Handles :
            Share'[x] = Share[x] + (IF x \in subs THEN (IF cursors[x] < oldest THEN oldest - cursors[x] ELSE 0) ELSE 0)
  <2> SUFFICES ASSUME NEW x \in Handles
               PROVE  /\ Share'[x] \in Nat
                      /\ Share'[x] = Share[x] + (IF x \in subs THEN (IF cursors[x] < oldest THEN oldest - cursors[x] ELSE 0) ELSE 0)
      BY DEF Share
  <2>1. Share'[x] = handle[x].dropped + (IF x \in subs THEN cursors'[x] - handle[x].cursor ELSE 0)
      BY <1>1 DEF Share
  <2>2. Share[x] = handle[x].dropped + (IF x \in subs THEN cursors[x] - handle[x].cursor ELSE 0)
        /\ handle[x].dropped \in Nat /\ handle[x].cursor \in Nat /\ cursors[x] \in Nat /\ Share[x] \in Nat
      BY ShareIs DEF Share
  <2>3. CASE x \in subs
    <3>1. /\ cursors'[x] = IF cursors[x] < oldest THEN oldest ELSE cursors[x]
          /\ cursors'[x] \in Nat /\ handle[x].cursor <= cursors'[x]
        BY <1>1, <2>3, RaisedAhead
    <3>2. handle[x].cursor <= cursors[x] /\ (cursors[x] = handle[x].cursor \/ cursors[x] <= oldest)
        BY <2>3 DEF Accounts, Ahead
    <3> HIDE DEF oldest
    <3>3. Share'[x] = Share[x] + (IF cursors[x] < oldest THEN oldest - cursors[x] ELSE 0)
        BY <1>2, <2>1, <2>2, <2>3, <3>1, <3>2, SharesAdd
    <3> QED BY <1>2, <2>2, <2>3, <3>3
  <2>4. CASE x \notin subs
      BY <2>1, <2>2, <2>4
  <2> QED BY <2>3, <2>4
<1>6. Booked' /\ ring_gaps' \in Nat
  <2> HIDE DEF oldest
  <2> QED BY <1>1, <1>2, <1>5, GapsAdd
<1>7. Referenced' /\ Over' /\ \A o \in Handles : Tabled(o)' /\ Placed(o)'
    BY <1>1 DEF Accounts, Referenced, Over, Tabled, Placed, Holders
<1> QED BY <1>3, <1>4, <1>6, <1>7 DEF Accounts

\* A handle that opens: one reference more.
LEMMA JoinsBook == ASSUME Shape, Shape', Accounts, NEW h \in Handles, Join(h) PROVE Accounts'
<1>a. /\ handle \in [Handles -> LogicalHandles] /\ handle[h] \in LogicalHandles /\ caller \in [Handles -> Calls]
      /\ caller[h] \in Calls /\ Placed(h) /\ next_seq \in Nat \ {0} /\ caller[h].pc = "none"
    BY DEF Shape, Accounts, Join
<1>1. /\ UNCHANGED <<state, terminal, next_seq, subs, cursors, ring_gaps, reader, closer>> /\ refs' = refs + 1
      /\ state = "running"
    BY DEF Join, rings
<1>2. closer[h].pc = "open" /\ h \notin subs
    BY <1>a DEF Placed, PlacedAt, Unread
<1> DEFINE r == [caller[h] EXCEPT !.pc = "admit", !.op = "join"]
           l == [handle[h] EXCEPT !.cursor = next_seq]
<1>3. r \in Calls /\ r.pc = "admit" /\ r.op = "join"
    BY <1>a DEF Calls, CallerPcs
<1>4. /\ l \in LogicalHandles /\ (l.closed <=> handle[h].closed) /\ (l.subscribed <=> handle[h].subscribed)
      /\ l.dropped = handle[h].dropped
    BY <1>a DEF LogicalHandles
<1>5. caller' = [caller EXCEPT ![h] = r] /\ handle' = [handle EXCEPT ![h] = l]
    BY <1>a DEF Join
<1> HIDE DEF r, l
<1>6. HandlesBook
    BY <1>2, <1>4, <1>5, OneBooks
<1>7. \A o \in Handles : caller'[o] = IF o = h THEN r ELSE caller[o]
    BY <1>a, <1>5
<1>8. Referenced'
  <2>1. Holders' = Holders \cup {h} /\ h \notin Holders /\ Holders \subseteq Handles
      BY <1>1, <1>2, <1>3, <1>7, <1>a DEF Holders
  <2>2. Cardinality(Holders') = Cardinality(Holders) + 1
      BY <2>1, HandlesFinite, FS_AddElement
  <2> QED BY <1>1, <2>2 DEF Accounts, Referenced
<1>9. Over'
    BY <1>1, <1>3, <1>7 DEF Accounts, Over
<1>10. \A o \in Handles : Tabled(o)'
    BY <1>1, <1>6 DEF Accounts, Tabled, HandlesBook
<1>11. \A o \in Handles : Placed(o)'
  <2>1. PlacedAt(r, closer[h].pc, h \in subs)
      BY <1>2, <1>3 DEF PlacedAt, Unread, Receiving, RecvOps
  <2> QED BY <1>1, <1>7, <2>1 DEF Accounts, Placed
<1>12. Ahead'
    BY <1>1, <1>6 DEF Accounts, Ahead, HandlesBook, Shape
<1>13. Share' = Share
    BY <1>1, <1>6 DEF HandlesBook, Share
<1>14. Booked'
    BY <1>1, <1>13 DEF Accounts, Booked
<1> QED BY <1>1, <1>8, <1>9, <1>10, <1>11, <1>12, <1>14 DEF Accounts

\* A close that begins: the table keeps the handle until its loss is booked.
LEMMA CloseBooks == ASSUME Shape, Shape', Accounts, NEW h \in Handles, CloseBegins(h) PROVE Accounts'
<1>a. /\ handle \in [Handles -> LogicalHandles] /\ handle[h] \in LogicalHandles /\ closer \in [Handles -> Closers]
      /\ Placed(h) /\ closer[h].pc = "open" /\ ~HeldByRecv(h) /\ caller[h].pc # "none"
    BY DEF Shape, Accounts, CloseBegins
<1>1. UNCHANGED <<state, terminal, refs, next_seq, subs, cursors, ring_gaps, reader, caller>>
    BY DEF CloseBegins, life, rings
<1> DEFINE c == [pc |-> "release", sub |-> handle[h].subscribed]
           l == [handle[h] EXCEPT !.closed = TRUE, !.subscribed = FALSE, !.wake = TRUE]
<1>2. closer' = [closer EXCEPT ![h] = c] /\ c.pc = "release" /\ (c.sub <=> handle[h].subscribed)
    BY DEF CloseBegins
<1>3. l.closed /\ ~l.subscribed /\ l.dropped = handle[h].dropped /\ l.cursor = handle[h].cursor
    BY <1>a DEF LogicalHandles
<1>4. handle' = [handle EXCEPT ![h] = l]
    BY <1>a DEF CloseBegins
<1> HIDE DEF c, l
<1>5. \A o \in Handles : (handle'[o] = IF o = h THEN l ELSE handle[o]) /\ (closer'[o] = IF o = h THEN c ELSE closer[o])
    BY <1>a, <1>2, <1>4
<1>6. Referenced'
  <2>1. Holders' = Holders
      BY <1>a, <1>1, <1>2, <1>5 DEF Holders
  <2> QED BY <1>1, <2>1 DEF Accounts, Referenced
<1>7. Over'
  <2>1. Holders' = Holders
      BY <1>a, <1>1, <1>2, <1>5 DEF Holders
  <2> QED BY <1>1, <1>2, <1>5, <2>1 DEF Accounts, Over
<1>8. \A o \in Handles : Tabled(o)'
  <2>1. ASSUME NEW o \in Handles, o # h PROVE Tabled(o)'
      BY <1>1, <1>5, <2>1 DEF Accounts, Tabled
  <2>2. Tabled(h)'
      BY <1>a, <1>1, <1>2, <1>3, <1>5 DEF Accounts, Tabled
  <2> QED BY <2>1, <2>2
<1>9. \A o \in Handles : Placed(o)'
  <2>1. ASSUME NEW o \in Handles, o # h PROVE Placed(o)'
      BY <1>1, <1>5, <2>1 DEF Accounts, Placed
  <2>2. Placed(h)'
      BY <1>a, <1>1, <1>2, <1>5 DEF Placed, PlacedAt, HeldByRecv, Receiving
  <2> QED BY <2>1, <2>2
<1>10. \A o \in Handles : handle'[o].dropped = handle[o].dropped /\ handle'[o].cursor = handle[o].cursor
    BY <1>3, <1>5
<1>11. Ahead'
    BY <1>1, <1>10 DEF Accounts, Ahead, Shape
<1>12. Share' = Share
    BY <1>1, <1>10 DEF Share
<1>13. Booked'
    BY <1>1, <1>12 DEF Accounts, Booked
<1> QED BY <1>1, <1>6, <1>7, <1>8, <1>9, <1>11, <1>13 DEF Accounts

\* The last close, once the reader is gone.
LEMMA ClosedBooks == ASSUME Shape, Shape', Accounts, NEW h \in Handles, CloseFinishes(h) PROVE Accounts'
<1>1. /\ UNCHANGED <<terminal, refs, next_seq, subs, cursors, ring_gaps, reader, caller, handle>> /\ state' = "closed"
      /\ closer[h].pc = "awaitdone" /\ closer' = [closer EXCEPT ![h].pc = "closed"]
    BY DEF CloseFinishes, finish_close, rings
<1>2. \A o \in Handles : /\ o # h => closer'[o] = closer[o]
                         /\ closer'[h].pc = "closed"
    BY <1>1 DEF Shape, Closers
<1>3. Holders' = Holders /\ state # "running"
    BY <1>1, <1>2 DEF Holders, Accounts, Over
<1>4. Referenced' /\ Over'
    BY <1>1, <1>2, <1>3 DEF Accounts, Referenced, Over
<1>5. \A o \in Handles : Tabled(o)' /\ Placed(o)'
  <2>1. ASSUME NEW o \in Handles, o # h PROVE Tabled(o)' /\ Placed(o)'
      BY <1>1, <1>2, <2>1 DEF Accounts, Tabled, Placed
  <2>2. Tabled(h)'
      BY <1>1, <1>2 DEF Accounts, Tabled
  <2>3. Placed(h)'
      BY <1>1, <1>2 DEF Accounts, Placed, PlacedAt
  <2> QED BY <2>1, <2>2, <2>3
<1>6. Ahead' /\ Share' = Share
    BY <1>1 DEF Accounts, Ahead, Share
<1>7. Booked'
    BY <1>1, <1>6 DEF Accounts, Booked
<1> QED BY <1>1, <1>4, <1>5, <1>6, <1>7 DEF Accounts

\* The critical section of a close: the loss booked, the handle out of the table, its reference
\* given back; the last one closes the wire.
LEMMA ReleasesBook == ASSUME Shape, Shape', Accounts, NEW h \in Handles, CloseReleases(h) PROVE Accounts'
<1> DEFINE oldest == oldest_locked(next_seq)
           sub    == closer[h].sub
           last   == refs - 1 <= 0 /\ state = "running"
           own    == handle[h].cursor
<1>a. /\ handle \in [Handles -> LogicalHandles] /\ handle[h] \in LogicalHandles /\ closer \in [Handles -> Closers]
      /\ Placed(h) /\ Tabled(h) /\ closer[h].pc = "release" /\ handle[h].closed
    BY DEF Shape, Accounts, CloseReleases, Tabled
<1>b. oldest \in Nat /\ subs \subseteq Handles /\ cursors \in [Handles -> Nat]
    BY OldestGrows DEF Shape, Accounts
<1>1. /\ UNCHANGED <<terminal, next_seq, reader, caller>> /\ refs' = refs - 1
      /\ state' = (IF last THEN "closing" ELSE state)
      /\ subs' = (IF sub THEN subs \ {h} ELSE subs)
    BY DEF CloseReleases
<1>2. /\ \A o \in Handles \ {h} : closer'[o] = closer[o]
      /\ closer'[h].pc = (IF last THEN "awaitdone" ELSE "closed") /\ closer'[h].pc \in {"awaitdone", "closed"}
  <2> DEFINE to == IF last THEN "awaitdone" ELSE "closed"
  <2>1. closer' = [closer EXCEPT ![h].pc = to]
      BY DEF CloseReleases
  <2>2. to \in {"awaitdone", "closed"}
      OBVIOUS
  <2> HIDE DEF to
  <2>3. (\A o \in Handles \ {h} : closer'[o] = closer[o]) /\ closer'[h].pc = to
      BY <1>a, <2>1 DEF Closers
  <2> QED BY <2>2, <2>3 DEF to
<1>3. sub <=> h \in subs
  <2>1. sub \in BOOLEAN
      BY <1>a DEF Closers
  <2> QED BY <1>a, <2>1 DEF Tabled
<1>4. caller[h].pc # "none"
    BY <1>a DEF Placed, PlacedAt
<1>5. /\ \A o \in Handles \ {h} : handle'[o] = handle[o]
      /\ handle'[h].closed /\ (handle'[h].subscribed <=> handle[h].subscribed)
      /\ handle'[h].dropped = handle[h].dropped + (IF sub THEN OwnGap(own, oldest) ELSE 0)
  <2>1. CASE sub
    <3> DEFINE at   == OwnCursor(own, oldest)
               lost == handle[h].dropped + OwnGap(own, oldest)
               l    == [handle[h] EXCEPT !.cursor = at, !.dropped = lost]
    <3>1. handle' = [handle EXCEPT ![h].cursor = OwnCursor(@, oldest), ![h].dropped = @ + OwnGap(own, oldest)]
        BY <2>1 DEF CloseReleases
    <3>2. handle' = [handle EXCEPT ![h] = l]
        BY <1>a, <3>1
    <3> HIDE DEF at, lost
    <3>3. (l.closed <=> handle[h].closed) /\ (l.subscribed <=> handle[h].subscribed) /\ l.dropped = lost
        BY <1>a DEF LogicalHandles
    <3> HIDE DEF l
    <3>4. handle'[h] = l /\ \A o \in Handles \ {h} : handle'[o] = handle[o]
        BY <1>a, <3>2
    <3> QED BY <1>a, <2>1, <3>3, <3>4 DEF lost
  <2>2. CASE ~sub
    <3>1. handle' = handle /\ handle[h].dropped \in Nat
        BY <1>a, <2>2 DEF CloseReleases, LogicalHandles
    <3> QED BY <1>a, <2>2, <3>1
  <2> QED BY <2>1, <2>2
<1>6. /\ cursors' = (IF sub THEN Raised(cursors, subs, oldest) ELSE cursors)
      /\ ring_gaps' = (IF sub THEN ring_gaps + WireGap(cursors, subs, oldest) ELSE ring_gaps)
    BY DEF CloseReleases
<1>7. cursors' \in [Handles -> Nat]
    BY <1>b, <1>6 DEF Raised
<1> HIDE DEF sub, own, last
<1>8. Holders' = Holders \ {h} /\ h \in Holders /\ Holders' \subseteq Holders /\ Holders \subseteq Handles
    BY <1>a, <1>1, <1>2, <1>4 DEF Holders
<1>9. Referenced'
  <2>1. Cardinality(Holders') = Cardinality(Holders) - 1
      BY <1>8, HandlesFinite, FS_RemoveElement
  <2> QED BY <1>1, <2>1 DEF Accounts, Referenced
<1>10. Over'
  <2>1. state' # "running" => terminal' \/ Holders' = {}
    <3>1. CASE last
      <4>1. refs' <= 0
          BY <1>1, <3>1 DEF last
      <4>2. Cardinality(Holders') = 0
          BY <1>8, <1>9, <4>1, HandlesFinite, FS_CardinalityType DEF Referenced
      <4> QED BY <1>8, <4>2, HandlesFinite, FS_EmptySet
    <3>2. CASE ~last
        BY <1>1, <1>8, <3>2 DEF Accounts, Over
    <3> QED BY <3>1, <3>2
  <2>2. state # "running" => state' # "running"
      BY <1>1
  <2>3. closer'[h].pc = "awaitdone" => state' # "running"
      BY <1>1, <1>2
  <2>4. \A o \in Handles : caller'[o].pc = "finishing" \/ closer'[o].pc = "awaitdone" => state' # "running"
      BY <1>1, <1>2, <2>2, <2>3 DEF Accounts, Over
  <2>5. reader'.pc = "finishing" => state' # "running"
      BY <1>1, <2>2 DEF Accounts, Over
  <2> QED BY <2>1, <2>4, <2>5 DEF Over
<1>11. h \notin subs' /\ \A o \in Handles \ {h} : o \in subs' <=> o \in subs
    BY <1>1, <1>3
<1>12. \A o \in Handles : Tabled(o)' /\ Placed(o)'
  <2>1. ASSUME NEW o \in Handles \ {h} PROVE Tabled(o)' /\ Placed(o)'
      BY <1>1, <1>2, <1>5, <1>11 DEF Accounts, Tabled, Placed
  <2>2. Tabled(h)'
      BY <1>a, <1>2, <1>5, <1>11 DEF Tabled
  <2>3. Placed(h)'
      BY <1>a, <1>1, <1>11 DEF Placed, PlacedAt
  <2> QED BY <2>1, <2>2, <2>3
<1>13. Ahead'
  <2> SUFFICES ASSUME NEW o \in subs'
               PROVE  /\ handle'[o].cursor <= cursors'[o]
                      /\ cursors'[o] = handle'[o].cursor \/ cursors'[o] <= oldest_locked(next_seq')
      BY DEF Ahead
  <2>1. o \in subs /\ o \in Handles \ {h} /\ handle'[o] = handle[o] /\ next_seq' = next_seq
      BY <1>b, <1>1, <1>5, <1>11
  <2>2. CASE sub
      BY <1>6, <2>1, <2>2, RaisedAhead DEF oldest
  <2>3. CASE ~sub
      BY <1>6, <2>1, <2>3 DEF Accounts, Ahead
  <2> QED BY <2>2, <2>3
<1>14. CASE sub
  <2>1. /\ Share' \in [Handles -> Nat]
        /\ \A x \in Handles :
              Share'[x] = Share[x] + (IF x \in subs THEN (IF cursors[x] < oldest THEN oldest - cursors[x] ELSE 0) ELSE 0)
    <3> SUFFICES ASSUME NEW x \in Handles
                 PROVE  /\ Share'[x] \in Nat
                        /\ Share'[x] = Share[x] + (IF x \in subs THEN (IF cursors[x] < oldest THEN oldest - cursors[x] ELSE 0) ELSE 0)
        BY DEF Share
    <3>1. Share'[x] = handle'[x].dropped + (IF x \in subs' THEN cursors'[x] - handle'[x].cursor ELSE 0)
        BY DEF Share
    <3>2. Share[x] = handle[x].dropped + (IF x \in subs THEN cursors[x] - handle[x].cursor ELSE 0)
          /\ handle[x].dropped \in Nat /\ handle[x].cursor \in Nat /\ cursors[x] \in Nat /\ Share[x] \in Nat
        BY ShareIs DEF Share
    <3>3. x \in subs => handle[x].cursor <= cursors[x] /\ (cursors[x] = handle[x].cursor \/ cursors[x] <= oldest)
        BY DEF Accounts, Ahead
    <3>4. CASE x = h
      <4>1. Share'[x] = handle[x].dropped + OwnGap(handle[x].cursor, oldest) /\ x \in subs
        <5>1. handle'[h].dropped = handle[h].dropped + OwnGap(own, oldest)
            BY <1>5, <1>14
        <5>2. h \in subs /\ h \notin subs'
            BY <1>3, <1>11, <1>14
        <5>3. handle'[h].dropped \in Nat
            BY <5>1, <3>2, <3>4, <1>b DEF own, OwnGap
        <5> QED BY <3>1, <3>4, <5>1, <5>2, <5>3 DEF own
      <4>2. handle[x].cursor <= cursors[x] /\ (cursors[x] = handle[x].cursor \/ cursors[x] <= oldest)
          BY <3>3, <4>1
      <4> HIDE DEF oldest
      <4>3. Share'[x] = Share[x] + (IF cursors[x] < oldest THEN oldest - cursors[x] ELSE 0)
        <5>1. Share[x] = handle[x].dropped + (cursors[x] - handle[x].cursor)
            BY <3>2, <4>1
        <5>2. handle[x].dropped + OwnGap(handle[x].cursor, oldest)
                = (handle[x].dropped + (cursors[x] - handle[x].cursor)) + (IF cursors[x] < oldest THEN oldest - cursors[x] ELSE 0)
          <6>1. handle[x].dropped \in Nat /\ handle[x].cursor \in Nat /\ cursors[x] \in Nat /\ oldest \in Nat
              BY <1>b, <3>2
          <6> QED BY <4>2, <6>1, SharesAdd
        <5> QED BY <4>1, <5>1, <5>2
      <4> QED BY <1>b, <3>2, <4>1, <4>3
    <3>5. CASE x # h /\ x \in subs
      <4>1. /\ cursors'[x] = IF cursors[x] < oldest THEN oldest ELSE cursors[x]
            /\ cursors'[x] \in Nat /\ handle[x].cursor <= cursors'[x]
          BY <1>6, <1>14, <3>5, RaisedAhead
      <4>2. Share'[x] = handle[x].dropped + (cursors'[x] - handle[x].cursor)
          BY <1>5, <1>11, <3>1, <3>5
      <4>3. handle[x].cursor <= cursors[x] /\ (cursors[x] = handle[x].cursor \/ cursors[x] <= oldest)
          BY <3>3, <3>5
      <4> HIDE DEF oldest
      <4>4. Share'[x] = Share[x] + (IF cursors[x] < oldest THEN oldest - cursors[x] ELSE 0)
          BY <1>b, <3>2, <3>5, <4>1, <4>2, <4>3, SharesAdd
      <4> QED BY <1>b, <3>2, <3>5, <4>4
    <3>6. CASE x # h /\ x \notin subs
      <4>1. handle'[x] = handle[x] /\ x \notin subs'
          BY <1>5, <1>11, <3>6
      <4> QED BY <3>1, <3>2, <3>6, <4>1
    <3> QED BY <3>4, <3>5, <3>6
  <2>2. Booked' /\ ring_gaps' \in Nat
    <3> HIDE DEF oldest
    <3> QED BY <1>b, <1>1, <1>6, <1>14, <2>1, GapsAdd
  <2> QED BY <1>7, <1>9, <1>10, <1>12, <1>13, <2>2 DEF Accounts
<1>15. CASE ~sub
  <2>1. /\ ring_gaps' = ring_gaps /\ cursors' = cursors /\ subs' = subs /\ terminal' = terminal /\ h \notin subs
      BY <1>1, <1>3, <1>6, <1>15
  <2>2. Share' = Share
    <3>1. handle[h].dropped \in Nat
        BY ShareIs
    <3>2. \A x \in Handles : /\ handle'[x].dropped = handle[x].dropped
                             /\ x \in subs => handle'[x].cursor = handle[x].cursor
        BY <1>5, <1>15, <2>1, <3>1
    <3> QED BY <2>1, <3>2 DEF Share
  <2>3. Booked' /\ ring_gaps' \in Nat
      BY <2>1, <2>2 DEF Accounts, Booked
  <2> QED BY <1>7, <1>9, <1>10, <1>12, <1>13, <2>3 DEF Accounts
<1> QED BY <1>14, <1>15

\* A receive: it registers, the wire's losses are booked, and its own, and it takes a frame.
LEMMA ScansBook == ASSUME Shape, Shape', Accounts, NEW h \in Handles, RecvScan(h) PROVE Accounts'
<1> DEFINE new      == ~handle[h].subscribed /\ state = "running"
           table    == IF new THEN subs \cup {h} ELSE subs
           own      == handle[h].cursor
           seen     == IF new THEN [cursors EXCEPT ![h] = own] ELSE cursors
           oldest   == oldest_locked(next_seq)
           readable == Readable(ring, h, OwnCursor(own, oldest), next_seq)
           at       == Advance(readable, next_seq)
           lost     == handle[h].dropped + OwnGap(own, oldest)
           listed   == h \in table
           up       == Raised(seen, table, oldest)
<1>a. /\ handle \in [Handles -> LogicalHandles] /\ handle[h] \in LogicalHandles /\ caller \in [Handles -> Calls]
      /\ caller[h] \in Calls /\ Placed(h) /\ Tabled(h) /\ subs \subseteq Handles /\ cursors \in [Handles -> Nat]
    BY DEF Shape, Accounts
<1>b. oldest \in Nat /\ own \in Nat /\ handle[h].dropped \in Nat
    BY OldestGrows, ShareIs DEF Shape
<1>1. /\ UNCHANGED <<state, terminal, refs, next_seq, reader, closer>> /\ subs' = table
      /\ caller[h].pc \in {"rhead", "register"}
      /\ caller[h].pc = "rhead" => ~handle[h].closed /\ handle[h].subscribed
    BY DEF RecvScan, life
<1>2. ring_gaps' = ring_gaps + WireGap(seen, table, oldest)
      /\ cursors' = [up EXCEPT ![h] = IF h \in table THEN at ELSE @]
    BY DEF RecvScan
<1>3. seen \in [Handles -> Nat] /\ table \subseteq Handles /\ subs \subseteq table /\ (table = subs \/ table = subs \cup {h})
    BY <1>a, <1>b
<1>4. up \in [Handles -> Nat] /\ \A o \in Handles \ {h} : up[o] = Raised(cursors, subs, oldest)[o]
    BY <1>a, <1>b, <1>3 DEF Raised
<1>5. closer[h].pc = "open" /\ ~handle[h].closed /\ (caller[h].pc = "register" => h \notin subs)
    BY <1>a, <1>1 DEF Placed, PlacedAt, Tabled, Unread
<1>6. h \in table \/ terminal
  <2>1. CASE state = "running"
    <3>1. handle[h].subscribed => h \in subs
        BY <1>a DEF Tabled
    <3> QED BY <2>1, <3>1
  <2>2. CASE state # "running"
    <3>1. h \in Holders
        BY <1>1, <1>5 DEF Holders
    <3> QED BY <2>2, <3>1 DEF Accounts, Over
  <2> QED BY <2>1, <2>2
<1>7. handle' = [handle EXCEPT ![h].subscribed = listed, ![h].cursor = at, ![h].dropped = lost]
    BY DEF RecvScan
<1>8. new => h \notin subs
    BY <1>a, <1>5 DEF Tabled
<1> HIDE DEF at, lost, listed, readable, up
<1>9. /\ \A o \in Handles \ {h} : handle'[o] = handle[o]
      /\ (handle'[h].closed <=> handle[h].closed) /\ handle'[h].subscribed = listed
      /\ handle'[h].cursor = at /\ handle'[h].dropped = lost
  <2> DEFINE l == [handle[h] EXCEPT !.subscribed = listed, !.cursor = at, !.dropped = lost]
  <2>1. handle' = [handle EXCEPT ![h] = l]
      BY <1>a, <1>7
  <2>2. (l.closed <=> handle[h].closed) /\ l.subscribed = listed /\ l.cursor = at /\ l.dropped = lost
      BY <1>a DEF LogicalHandles
  <2> HIDE DEF l
  <2> QED BY <1>a, <2>1, <2>2
<1>10. at \in Nat /\ handle'[h] \in LogicalHandles
  <2>1. handle'[h] \in LogicalHandles
      BY DEF Shape
  <2> QED BY <1>9, <2>1 DEF LogicalHandles
<1>11. /\ \A o \in Handles \ {h} : cursors'[o] = Raised(cursors, subs, oldest)[o]
       /\ h \in table => cursors'[h] = at
       /\ cursors' \in [Handles -> Nat]
  <2> HIDE DEF table
  <2>1. cursors' = [up EXCEPT ![h] = IF h \in table THEN at ELSE up[h]]
      BY <1>2
  <2> QED BY <1>4, <1>10, <2>1
<1>12. /\ \A o \in Handles \ {h} : caller'[o] = caller[o]
       /\ caller'[h].pc \in {"idle", "rwait"} /\ (caller'[h].pc = "rwait" => caller'[h].op = caller[h].op)
  <2> DEFINE w == [caller[h] EXCEPT !.pc = "rwait"]
  <2>1. CallEnds(h, "idle") \/ caller' = [caller EXCEPT ![h].pc = "rwait"]
      BY Zenon DEF RecvScan
  <2>2. CASE CallEnds(h, "idle")
    <3>1. NoCall("idle").pc = "idle"
        BY DEF NoCall
    <3>2. caller' = [caller EXCEPT ![h] = NoCall("idle")]
        BY <2>2 DEF CallEnds
    <3>3. caller'[h] = NoCall("idle") /\ \A o \in Handles \ {h} : caller'[o] = caller[o]
        BY <1>a, <3>2
    <3> QED BY <3>1, <3>3
  <2>3. CASE caller' = [caller EXCEPT ![h].pc = "rwait"]
    <3>1. w.pc = "rwait" /\ w.op = caller[h].op
        BY <1>a DEF Calls
    <3>2. caller' = [caller EXCEPT ![h] = w]
        BY <1>a, <2>3
    <3> HIDE DEF w
    <3> QED BY <1>a, <3>1, <3>2
  <2> QED BY <2>1, <2>2, <2>3
<1>13. \A o \in Handles \ {h} : o \in table <=> o \in subs
    BY <1>3
<1> HIDE DEF new, table, seen
<1>14. Holders' = Holders
    BY <1>1, <1>12 DEF Holders
<1>15. Referenced' /\ Over'
    BY <1>1, <1>12, <1>14 DEF Accounts, Referenced, Over
<1>16. \A o \in Handles : Tabled(o)'
  <2>1. ASSUME NEW o \in Handles \ {h} PROVE Tabled(o)'
      BY <1>1, <1>9, <1>13 DEF Accounts, Tabled
  <2>2. Tabled(h)'
      BY <1>a, <1>1, <1>5, <1>9 DEF Tabled, listed
  <2> QED BY <2>1, <2>2
<1>17. \A o \in Handles : Placed(o)'
  <2>1. ASSUME NEW o \in Handles \ {h} PROVE Placed(o)'
      BY <1>1, <1>12, <1>13 DEF Accounts, Placed
  <2>2. caller[h].op \in RecvOps
      BY <1>a, <1>1 DEF Placed, PlacedAt, Receiving
  <2>3. Placed(h)'
      BY <1>1, <1>12, <2>2 DEF Placed, PlacedAt, Unread, Receiving
  <2> QED BY <2>1, <2>3
<1>18. Ahead'
  <2> SUFFICES ASSUME NEW o \in subs'
               PROVE  /\ handle'[o].cursor <= cursors'[o]
                      /\ cursors'[o] = handle'[o].cursor \/ cursors'[o] <= oldest_locked(next_seq')
      BY DEF Ahead
  <2>1. CASE o = h
      BY <1>1, <1>9, <1>10, <1>11, <2>1
  <2>2. CASE o # h
    <3>1. o \in subs /\ o \in Handles \ {h} /\ handle'[o] = handle[o] /\ next_seq' = next_seq
        BY <1>1, <1>3, <1>9, <1>13, <2>2
    <3> QED BY <1>11, <3>1, RaisedAhead DEF oldest
  <2> QED BY <2>1, <2>2
<1>19. /\ Share' \in [Handles -> Nat]
       /\ \A x \in Handles : terminal \/
             Share'[x] = Share[x] + (IF x \in table THEN (IF seen[x] < oldest THEN oldest - seen[x] ELSE 0) ELSE 0)
  <2> SUFFICES ASSUME NEW x \in Handles
               PROVE  /\ Share'[x] \in Nat
                      /\ terminal \/ Share'[x] = Share[x] + (IF x \in table THEN (IF seen[x] < oldest THEN oldest - seen[x] ELSE 0) ELSE 0)
      BY DEF Share
  <2>1. Share'[x] = handle'[x].dropped + (IF x \in table THEN cursors'[x] - handle'[x].cursor ELSE 0)
      BY <1>1 DEF Share
  <2>2. Share[x] = handle[x].dropped + (IF x \in subs THEN cursors[x] - handle[x].cursor ELSE 0)
        /\ handle[x].dropped \in Nat /\ handle[x].cursor \in Nat /\ cursors[x] \in Nat /\ Share[x] \in Nat
      BY ShareIs DEF Share
  <2>3. x \in subs => handle[x].cursor <= cursors[x] /\ (cursors[x] = handle[x].cursor \/ cursors[x] <= oldest)
      BY DEF Accounts, Ahead
  <2>4. CASE x = h
    <3>1. lost \in Nat /\ handle'[x].dropped = lost /\ handle'[x].cursor = at
        BY <1>9, <1>10, <2>4 DEF LogicalHandles
    <3>2. Share'[x] = lost
        BY <1>10, <1>11, <2>1, <2>4, <3>1
    <3>3. CASE new
      <4>1. seen[x] = own /\ x \in table /\ x \notin subs
          BY <1>a, <1>8, <2>4, <3>3 DEF seen, table
      <4>2. lost = handle[x].dropped + (IF own < oldest THEN oldest - own ELSE 0)
          BY <2>4 DEF lost, OwnGap
      <4> HIDE DEF oldest, own
      <4>3. Share[x] = handle[x].dropped
          BY <2>2, <4>1
      <4> QED BY <1>b, <2>2, <3>1, <3>2, <4>1, <4>2, <4>3
    <3>4. CASE ~new /\ h \in table
      <4>1. seen[x] = cursors[x] /\ x \in table /\ x \in subs
          BY <2>4, <3>4 DEF seen, table
      <4>2. lost = handle[x].dropped + OwnGap(handle[x].cursor, oldest)
          BY <2>4 DEF lost
      <4>3. Share[x] = handle[x].dropped + (cursors[x] - handle[x].cursor)
            /\ handle[x].cursor <= cursors[x] /\ (cursors[x] = handle[x].cursor \/ cursors[x] <= oldest)
          BY <2>2, <2>3, <4>1
      <4> HIDE DEF oldest
      <4>4. lost = Share[x] + (IF cursors[x] < oldest THEN oldest - cursors[x] ELSE 0)
        <5>1. handle[x].dropped + OwnGap(handle[x].cursor, oldest)
                = (handle[x].dropped + (cursors[x] - handle[x].cursor)) + (IF cursors[x] < oldest THEN oldest - cursors[x] ELSE 0)
          <6>1. handle[x].dropped \in Nat /\ handle[x].cursor \in Nat /\ cursors[x] \in Nat /\ oldest \in Nat
              BY <1>b, <2>2
          <6> QED BY <4>3, <6>1, SharesAdd
        <5> QED BY <4>2, <4>3, <5>1
      <4> QED BY <3>1, <3>2, <4>1, <4>4
    <3>5. CASE h \notin table
        BY <1>6, <2>4, <3>1, <3>2, <3>5
    <3> QED BY <3>3, <3>4, <3>5
  <2>5. CASE x # h /\ x \in subs
    <3>1. /\ cursors'[x] = IF cursors[x] < oldest THEN oldest ELSE cursors[x]
          /\ cursors'[x] \in Nat /\ handle[x].cursor <= cursors'[x]
        BY <1>11, <2>5, RaisedAhead
    <3>2. Share'[x] = handle[x].dropped + (cursors'[x] - handle[x].cursor) /\ seen[x] = cursors[x] /\ x \in table
        BY <1>a, <1>9, <1>13, <2>1, <2>5 DEF seen
    <3>3. handle[x].cursor <= cursors[x] /\ (cursors[x] = handle[x].cursor \/ cursors[x] <= oldest)
        BY <2>3, <2>5
    <3> HIDE DEF oldest
    <3>4. Share'[x] = Share[x] + (IF cursors[x] < oldest THEN oldest - cursors[x] ELSE 0)
        BY <1>b, <2>2, <2>5, <3>1, <3>2, <3>3, SharesAdd
    <3> QED BY <1>b, <2>2, <2>5, <3>2, <3>4
  <2>6. CASE x # h /\ x \notin subs
    <3>1. handle'[x] = handle[x] /\ x \notin table
        BY <1>9, <1>13, <2>6
    <3> QED BY <2>1, <2>2, <2>6, <3>1
  <2> QED BY <2>4, <2>5, <2>6
<1>20. Booked' /\ ring_gaps' \in Nat
  <2> HIDE DEF oldest
  <2> QED BY <1>b, <1>1, <1>2, <1>3, <1>19, GapsAdd
<1> QED BY <1>11, <1>15, <1>16, <1>17, <1>18, <1>20 DEF Accounts

-------------------------------------------------------------------------------
(* What is booked, and what was lost *)

LEMMA InitBooks == ASSUME Init PROVE Accounts
<1>0. PICK first \in Handles :
        /\ state = "running" /\ refs = 1 /\ terminal = FALSE /\ next_seq = 1 /\ subs = {}
        /\ cursors = [h \in Handles |-> 0] /\ ring_gaps = 0 /\ reader = [pc |-> "check", n |-> 0]
        /\ caller = [h \in Handles |-> NoCall(IF h = first THEN "idle" ELSE "none")]
        /\ closer = [h \in Handles |-> [pc |-> "open", sub |-> FALSE]]
        /\ handle = [h \in Handles |-> SharedHandle]
    BY DEF Init
<1>1. \A h \in Handles : /\ caller[h].pc = (IF h = first THEN "idle" ELSE "none") /\ caller[h].op = "none"
                         /\ closer[h].pc = "open" /\ ~handle[h].closed /\ ~handle[h].subscribed
                         /\ handle[h].dropped = 0 /\ cursors[h] = 0
    BY <1>0 DEF NoCall, SharedHandle
<1>2. Referenced
  <2>1. Holders = {first}
      BY <1>1 DEF Holders
  <2>2. Cardinality({first}) = 1
      BY FS_Singleton
  <2> QED BY <1>0, <2>1, <2>2 DEF Referenced
<1>3. Over /\ Ahead
    BY <1>0, <1>1 DEF Over, Ahead
<1>4. \A h \in Handles : Tabled(h) /\ Placed(h)
    BY <1>0, <1>1 DEF Tabled, Placed, PlacedAt, Unread, Receiving, RecvOps
<1>5. Booked
  <2>1. \A h \in Handles : Share[h] = 0
      BY <1>0, <1>1 DEF Share
  <2>2. Total(Share, Handles) = Total(Share, {})
      BY <2>1, TotalWithin
  <2> QED BY <1>0, <2>2, TotalOfNone DEF Booked
<1> QED BY <1>0, <1>2, <1>3, <1>4, <1>5 DEF Accounts

LEMMA NextBooks == ASSUME Shape, Shape', Accounts, [Next]_vars PROVE Accounts'
<1>1. CASE ReaderStep
    BY <1>1, ReaderBooks
<1>2. ASSUME NEW h \in Handles, Locks(h) PROVE Accounts'
    BY <1>2, AwaysBook, BeginsBook DEF Locks
<1>3. ASSUME NEW h \in Handles, Runs(h) PROVE Accounts'
    BY <1>3, AwaysBook, BoundariesBook, HeadsBook, ReadsBook, FailuresBook, ScansBook, WakesBook DEF Runs
<1>4. ASSUME NEW h \in Handles, Closes(h) PROVE Accounts'
    BY <1>4, ReleasesBook, ClosedBooks DEF Closes
<1>5. ASSUME NEW h \in Handles, Chooses(h) PROVE Accounts'
    BY <1>5, JoinsBook, StartsBook, PollBooks, CloseBooks, AwaysBook, OthersBook DEF Chooses
<1>6. CASE Arrive \/ Unplug \/ Stopped \/ UNCHANGED vars
    BY <1>6, OthersBook
<1> QED BY <1>1, <1>2, <1>3, <1>4, <1>5, <1>6 DEF Next

\* In every state the hub can reach, what is booked is what is lost: with it go who holds a
\* reference, when the wire is over, and that the table has just the handles that subscribed.
THEOREM AccountsHold == Spec => []Accounts
<1>1. IInv => Shape
    BY DEF IInv
<1>2. Init => Accounts
    BY InitBooks
<1>3. IInv /\ IInv' /\ Accounts /\ [Next]_vars => Accounts'
    BY <1>1, NextBooks DEF IInv
<1> QED BY <1>2, <1>3, ParkInductive, PTL DEF Spec

\* The two sums of GapsBookedOnce.
LEMMA DroppedIs ==
    ASSUME NEW S, IsFiniteSet(S), NEW hd, \A h \in S : hd[h].dropped \in Nat
    PROVE  MapThenSumSet(LAMBDA h : hd[h].dropped, S) = Total([h \in S |-> hd[h].dropped], S)
<1> DEFINE f == [h \in S |-> hd[h].dropped]
           G(g) == g = [s \in SUBSET S |->
                           IF s = {} THEN 0 ELSE LET x == CHOOSE x \in s : TRUE IN hd[x].dropped + g[s \ {x}]]
           it == CHOOSE g : G(g)
<1>1. \A g : G(g) <=> Folded(f, S, g)
  <2>1. \A s \in SUBSET S : s # {} => hd[Pick(s)].dropped = f[Pick(s)]
      BY PickIs
  <2> QED BY <2>1, Zenon DEF Folded, Pick
<1>2. \A h \in S : f[h] \in Nat
    OBVIOUS
<1>3. \E g : G(g)
    BY <1>1, <1>2, TotalIsFold
<1>4. G(it)
    BY <1>3, Zenon
<1>5. MapThenSumSet(LAMBDA h : hd[h].dropped, S) = it[S]
    BY DEF MapThenSumSet, MapThenFoldSet
<1> HIDE DEF G, it, f
<1>6. Folded(f, S, it)
    BY <1>1, <1>4
<1> QED BY <1>2, <1>5, <1>6, FoldIsTotal DEF f

LEMMA AheadIs ==
    ASSUME NEW S, IsFiniteSet(S), NEW c, NEW hd, \A h \in S : c[h] - hd[h].cursor \in Nat
    PROVE  MapThenSumSet(LAMBDA h : c[h] - hd[h].cursor, S) = Total([h \in S |-> c[h] - hd[h].cursor], S)
<1> DEFINE f == [h \in S |-> c[h] - hd[h].cursor]
           G(g) == g = [s \in SUBSET S |->
                           IF s = {} THEN 0 ELSE LET x == CHOOSE x \in s : TRUE IN (c[x] - hd[x].cursor) + g[s \ {x}]]
           it == CHOOSE g : G(g)
<1>1. \A g : G(g) <=> Folded(f, S, g)
  <2>1. \A s \in SUBSET S : s # {} => c[Pick(s)] - hd[Pick(s)].cursor = f[Pick(s)]
      BY PickIs
  <2> QED BY <2>1, Zenon DEF Folded, Pick
<1>2. \A h \in S : f[h] \in Nat
    OBVIOUS
<1>3. \E g : G(g)
    BY <1>1, <1>2, TotalIsFold
<1>4. G(it)
    BY <1>3, Zenon
<1>5. MapThenSumSet(LAMBDA h : c[h] - hd[h].cursor, S) = it[S]
    BY DEF MapThenSumSet, MapThenFoldSet
<1> HIDE DEF G, it, f
<1>6. Folded(f, S, it)
    BY <1>1, <1>4
<1> QED BY <1>2, <1>5, <1>6, FoldIsTotal DEF f

LEMMA BooksBalance == ASSUME Shape, Accounts PROVE GapsBookedOnce
<1> DEFINE d == [h \in Handles |-> handle[h].dropped]
           a == [h \in subs |-> cursors[h] - handle[h].cursor]
           b == [h \in Handles |-> IF h \in subs THEN cursors[h] - handle[h].cursor ELSE 0]
<1>1. IsFiniteSet(Handles) /\ IsFiniteSet(subs) /\ subs \subseteq Handles
    BY HandlesFinite DEF Shape
<1>2. /\ \A h \in Handles : handle[h].dropped \in Nat
      /\ \A h \in subs : cursors[h] - handle[h].cursor \in Nat
    BY ShareIs
<1>3. MapThenSumSet(LAMBDA h : handle[h].dropped, Handles) = Total(d, Handles)
    BY <1>1, <1>2, DroppedIs
<1>4. MapThenSumSet(LAMBDA h : cursors[h] - handle[h].cursor, subs) = Total(a, subs)
    BY <1>1, <1>2, AheadIs
<1>5. /\ (\A h \in subs : b[h] = a[h]) /\ \A h \in Handles \ subs : b[h] = 0
      /\ \A h \in Handles : d[h] \in Nat /\ b[h] \in Nat /\ Share[h] \in Nat /\ Share[h] = d[h] + b[h]
    BY <1>1, <1>2, ShareIs DEF Share
<1> HIDE DEF d, a, b
<1>6. Total(b, Handles) = Total(a, subs)
    BY <1>1, <1>5, TotalWithin
<1>7. Total(Share, Handles) = Total(d, Handles) + Total(b, Handles)
    BY <1>1, <1>5, TotalAdds
<1> QED BY <1>3, <1>4, <1>6, <1>7 DEF Accounts, Booked, GapsBookedOnce

\* One loss is booked once, whoever comes first to it: as long as the wire has not failed, its
\* ring_gaps is the sum of what its subscribers, past and present, counted as their own and of
\* what was booked ahead of those that have not looked yet - for any number of handles.
THEOREM LossesBookedOnce == Spec => []GapsBookedOnce
<1>1. IInv /\ Accounts => GapsBookedOnce
    BY BooksBalance DEF IInv
<1> QED BY <1>1, ParkInductive, AccountsHold, PTL

-------------------------------------------------------------------------------
(* Types *)

\* The rest of TypeOK: what neither invariant needs.
Rest == /\ terminal \in BOOLEAN /\ raw_closed \in BOOLEAN /\ done \in BOOLEAN /\ broken \in BOOLEAN
        /\ pending_admit \subseteq Handles /\ send_mu \in Handles \cup {Nobody}

LEMMA RestStays ==
    ASSUME Rest, \/ ReaderStep \/ Arrive \/ Unplug \/ Stopped \/ UNCHANGED vars
                 \/ \E h \in Handles : Closes(h) \/ Locks(h) \/ Runs(h) \/ Chooses(h)
    PROVE  Rest'
<1>1. CASE ReaderStep
    BY <1>1 DEF Rest, ReaderStep, ReaderStops, ReaderParks, ReaderResumes, ReaderUnparks, ReaderBatch, ReaderDiscards,
       ReaderDrained, ReaderDrainFails, ReaderFails, ReaderLocks, ReaderCommits, ReaderTimesOut, ReaderReadFails,
       ReaderFinishes, ReaderExits, MarkFailed, finish_close, life, heard, driver
<1>2. CASE Arrive \/ Unplug \/ Stopped \/ UNCHANGED vars
    BY <1>2 DEF Rest, Arrive, Unplug, Stopped, vars, life, heard, driver
<1>3. ASSUME NEW h \in Handles, Closes(h) \/ Locks(h) PROVE Rest'
    BY <1>3 DEF Rest, Closes, Locks, CloseReleases, CloseFinishes, AdmitRefused, AdmitAttentive, AdmitParked, RecvLocks,
       finish_close, life, heard, driver
<1>4. ASSUME NEW h \in Handles, Chooses(h) PROVE Rest'
    BY <1>4 DEF Rest, Chooses, Join, SendStart, diagnostics, CloseBegins, BatchGivesUp, RecvTimesOut, Age, RecvStart,
       life, heard, driver
<1>5. ASSUME NEW h \in Handles, Runs(h) PROVE Rest'
  <2>1. CASE Write(h) \/ WriteReturns(h) \/ RefreshCheck(h) \/ Refresh(h) \/ RecvHead(h) \/ RecvScan(h) \/ RecvWakes(h)
      BY <2>1 DEF Rest, Write, WriteReturns, RefreshCheck, Refresh, RecvHead, RecvScan, RecvWakes, life, heard, driver
  <2>2. CASE BatchEnds(h) \/ BatchBegins(h) \/ BoundaryRead(h) \/ BoundaryEmpty(h)
      BY <2>2 DEF Rest, BatchEnds, BatchBegins, BoundaryRead, BoundaryEmpty, life, heard, driver
  <2>3. CASE BoundaryFails(h) \/ BoundaryFinishes(h) \/ AwaitDone(h) \/ Admitted(h) \/ JoinReturns(h)
      BY <2>3 DEF Rest, BoundaryFails, BoundaryFinishes, AwaitDone, Admitted, JoinReturns, MarkFailed, finish_close,
         life, heard, driver
  <2> QED BY <1>5, <2>1, <2>2, <2>3 DEF Runs
<1> QED BY <1>1, <1>2, <1>3, <1>4, <1>5

\* Every variable of one generation of the hub keeps its type, for any number of handles, ring
\* and driver queue.
THEOREM ParkTypes == Spec => []TypeOK
<1>1. Init => Rest
    BY DEF Init, Rest
<1>2. Rest /\ [Next]_vars => Rest'
    BY RestStays DEF Next
<1>3. IInv /\ Accounts /\ Rest => TypeOK
  <2> SUFFICES ASSUME Shape, Accounts, Rest PROVE TypeOK
      BY DEF IInv
  <2>1. handle \in [Handles -> [closed : BOOLEAN, subscribed : BOOLEAN, cursor : Nat, dropped : Nat, wake : BOOLEAN]]
    <3>1. LogicalHandles \subseteq [closed : BOOLEAN, subscribed : BOOLEAN, cursor : Nat, dropped : Nat, wake : BOOLEAN]
        BY DEF LogicalHandles
    <3> QED BY <3>1 DEF Shape
  <2>2. refs \in Int /\ ring_gaps \in Nat /\ cursors \in [Handles -> Nat] /\ {terminal, raw_closed, done, broken} \subseteq BOOLEAN
      BY DEF Accounts, Referenced, Rest
  <2> QED BY <2>1, <2>2 DEF TypeOK, Shape, Rest, Calls, Closers
<1> QED BY <1>1, <1>2, <1>3, ParkInductive, AccountsHold, PTL DEF Spec
================================================================================
