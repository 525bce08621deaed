------------------------------ MODULE SharedRing ------------------------------
(***************************************************************************)
(* The bounded sequence ring of one physical-open generation: one reader   *)
(* writes slots in sequence order, every handle reads them through its own *)
(* cursor (blobly/transport/shared.v).  Sequence numbers start at 1; a     *)
(* slot with seq 0 has never been written.                                 *)
(***************************************************************************)
EXTENDS Integers, FiniteSets, FiniteSetsExt

CONSTANT Capacity            \* shared_ring_capacity (4096 in the code)

ASSUME CapacityAssumption == Capacity \in Nat \ {0}

SlotOf(seq) == (seq - 1) % Capacity

\* The oldest sequence the ring still holds when `next` is to be written next.
oldest_locked(next) == IF next > Capacity THEN next - Capacity ELSE 1

\* Publishing: the slot of sequence `next` is overwritten, whoever still wanted it.
Put(ring, next, slot) == [ring EXCEPT ![SlotOf(next)] = slot]

\* book_wire_gaps_locked: what the handles of `table` have lost below `oldest` ...
WireGap(cursors, table, oldest) ==
    MapThenSumSet(LAMBDA h : IF cursors[h] < oldest THEN oldest - cursors[h] ELSE 0, table)

\* Mutant: the table is not moved up once its loss is booked.
Raised_not(cursors, table, oldest) == cursors

\* ... and the table once that loss is booked.
Raised(cursors, table, oldest) ==
    [h \in DOMAIN cursors |->
        IF h \in table /\ cursors[h] < oldest THEN oldest ELSE cursors[h]]

\* book_own_gap_locked: one handle's own loss, and its cursor afterwards.
OwnGap(cursor, oldest)    == IF cursor < oldest THEN oldest - cursor ELSE 0
OwnCursor(cursor, oldest) == IF cursor < oldest THEN oldest ELSE cursor

\* The sequences from `cursor` on whose slot is still theirs and is not `h`'s own frame.
Readable(ring, h, cursor, next) ==
    {s \in cursor .. (next - 1) : ring[SlotOf(s)].seq = s /\ ring[SlotOf(s)].origin # h}

\* Where one receive leaves the cursor: past the first readable slot, or at the tail.
Advance(readable, next) == IF readable = {} THEN next ELSE Min(readable) + 1
===============================================================================
