--------------------------- MODULE CodexReviewProofs ---------------------------
(***************************************************************************)
(* Asking for reviews under the lock, for any number of processes,         *)
(* worktrees, comments and verdicts, pushes, crashes and seconds.          *)
(*                                                                         *)
(* The argument: until a reclaimer takes a lock made after the one it      *)
(* judged, who is inside made the lock that is there, and lives, so nobody *)
(* else posts a request meanwhile.  GitHub's list is in the order          *)
(* of its times, so what settles the latest request for a head settles     *)
(* the earlier ones; the summary's marker moves on from a head only when   *)
(* there is a request for a later one, which there is none of between the  *)
(* second look at the head and the comment.                                *)
(***************************************************************************)
EXTENDS CodexReview, WellFoundedInduction, TLAPS

Kinds == {"request", "review", "clean", "failure"}
Pcs == {"idle", "locking", "owning", "judging", "unlinking", "removing", "leaving",
        "state", "remote", "baseline", "rechecking", "posting", "saving", "timing",
        "recovering", "watching", "told"} \cup Scanning
Items == [kind : Kinds, sha : Nat, at : Nat \ {0}]
Locks == [by : Procs, owned : BOOLEAN, dead : BOOLEAN]
States == [sha : Nat, review : Nat, request : Nat, at : Nat]
Scans == [sha : Nat, review : Nat, issue : Nat, request : Nat, at : Nat]
Records == [pc : Pcs, at : Places \cup {Nothing}, sha : Nat, judged : BOOLEAN, scan : Scans,
            purpose : {"none", "state", "remote", "watch"}, found : Nat \cup {Nothing}, base : Nat, request : Nat]

\* Every variable stays within its type.
Shape ==
    /\ now \in Nat \ {0} /\ head \in Nat \ {0} /\ items \in Seq(Items) /\ summary \in [sha : Nat, at : Nat]
    /\ lock \in Locks \cup {Nothing} /\ file \in [Places -> States \cup {Nothing}]
    /\ proc \in [Procs -> Records] /\ stolen \in BOOLEAN /\ crashes \in Nat

\* GitHub numbers its items in the order of their times, about heads there have been; a state file
\* names an item and, once it has a time, that item's.
Numbered ==
    /\ \A i \in DOMAIN items : items[i].at <= now /\ items[i].sha <= head
    /\ \A i, j \in DOMAIN items : i <= j => items[i].at <= items[j].at
    /\ \A d \in Places :
        file[d] # Nothing => file[d].request \in DOMAIN items /\ file[d].at \in {0, items[file[d].request].at}

\* A process is about a head there has been; one that saves knows its comment; one that scans or
\* watches knows the comment's time, and what it found is not older.
Reads(p) ==
    /\ proc[p].sha <= head
    /\ proc[p].at \in Places \/ proc[p].pc \in {"idle", "leaving"}
    /\ proc[p].pc \in {"saving", "timing"} => proc[p].request \in DOMAIN items
    /\ proc[p].pc \in Scanning \cup {"recovering", "watching", "told"} =>
        /\ proc[p].scan.request \in DOMAIN items
        /\ proc[p].pc # "recovering" => proc[p].scan.at = items[proc[p].scan.request].at
    /\ proc[p].pc \in Scanning => proc[p].purpose # "none"
    /\ proc[p].pc \in {"scan_again", "told"} => proc[p].found \in Nat /\ proc[p].found >= proc[p].scan.at

\* Until a lock is stolen: who is inside, or about to write the owner file, made the lock that is
\* there and lives; a lock judged stale is that of a dead process; a live one's has its owner file.
Holds(p) ==
    \/ stolen
    \/ /\ At(p, "owning") \/ Inside(p) => lock # Nothing /\ lock.by = p /\ ~lock.dead
       /\ Inside(p) => lock.owned
       /\ proc[p].judged => lock # Nothing /\ lock.dead
       /\ lock # Nothing /\ lock.by = p => lock.owned \/ lock.dead \/ At(p, "owning")

\* No request for the head is open: unanswered and younger than the stale bound.
Settled(sha) == \A i \in Ids("request", sha) : Answered(i) \/ now - items[i].at >= STALE

\* Until a lock is stolen: what the check of the comments has shown a process, while the head is the
\* one it asks about.
Checks(p) ==
    \/ stolen
    \/ /\ proc[p].pc \in Scanning /\ proc[p].purpose = "remote" =>
           /\ proc[p].scan.sha = proc[p].sha
           /\ \A i \in Ids("request", proc[p].sha) : items[i].at <= proc[p].scan.at
       /\ (At(p, "scan_again") /\ proc[p].purpose = "remote") \/ proc[p].pc \in {"baseline", "rechecking"} =>
           (head = proc[p].sha => Settled(proc[p].sha))
       /\ At(p, "posting") =>
           /\ Settled(proc[p].sha)
           /\ \A i \in DOMAIN items : items[i].kind = "request" => items[i].sha <= proc[p].sha

IInv == Shape /\ Numbered /\ \A p \in Procs : Reads(p) /\ Holds(p) /\ Checks(p)

-------------------------------------------------------------------------------
(* Lemmas about the operators *)

\* The largest of some numbers of a list is one of them, and no other is larger.
LEMMA LatestIsOne ==
    ASSUME NEW n \in Nat, NEW S, S \subseteq (1 .. n), S # {}
    PROVE  Latest(S) \in S /\ \A i \in S : i <= Latest(S)
<1>0. \A i \in S : i \in Int
  <2>1. \A i \in 1 .. n : i \in Int
      OBVIOUS
  <2> QED BY <2>1
<1> DEFINE T == {n - i : i \in S}
<1>1. T \subseteq Nat
  <2>1. \A i \in S : i \in 1 .. n
      OBVIOUS
  <2>2. \A i \in S : n - i \in Nat
      BY <2>1
  <2> QED BY <2>2
<1>2. T # {}
    OBVIOUS
<1>3. PICK x \in T : \A y \in T : ~(<<y, x>> \in OpToRel(<, Nat))
    BY <1>1, <1>2, NatLessThanWellFounded, WFMin
<1>4. \A y \in T : <<y, x>> \in Nat \X Nat /\ <<y, x>>[1] = y /\ <<y, x>>[2] = x
    BY <1>1
<1>5. \A y \in T : ~(y < x)
    BY <1>3, <1>4, Zenon DEF OpToRel
<1>6. PICK m \in S : x = n - m
    BY <1>3
<1>7. ASSUME NEW i \in S PROVE m >= i
  <2>1. ~(n - i < n - m)
      BY <1>5, <1>6
  <2>2. i \in 1 .. n /\ m \in 1 .. n
      BY <1>6
  <2> QED BY <2>1, <2>2
<1> QED BY <1>0, <1>7 DEF Latest, Max

\* An item is one of the list's.
LEMMA ItemTyped ==
    ASSUME Shape, NEW i \in DOMAIN items
    PROVE  items[i] \in Items /\ i \in 1 .. Len(items) /\ Len(items) \in Nat
BY DEF Shape

\* The latest of some items is one of them.
LEMMA LatestItem ==
    ASSUME Shape, NEW S, S \subseteq DOMAIN items, S # {}
    PROVE  /\ Latest(S) \in S /\ Latest(S) \in DOMAIN items
           /\ \A i \in S : i \in DOMAIN items /\ i <= Latest(S)
<1>1. DOMAIN items = 1 .. Len(items) /\ Len(items) \in Nat
    BY DEF Shape
<1> QED BY <1>1, LatestIsOne

\* A process stands elsewhere, or is done; one has made a lock.
LEMMA Stands == ASSUME NEW r \in Records, NEW pc \in Pcs PROVE [r EXCEPT !.pc = pc] \in Records
BY DEF Records

LEMMA Asks ==
    ASSUME NEW r \in Records, NEW n \in Nat
    PROVE  /\ [r EXCEPT !.pc = "saving", !.request = n] \in Records
           /\ [r EXCEPT !.pc = "saving", !.request = n].pc = "saving"
           /\ [r EXCEPT !.pc = "saving", !.request = n].at = r.at
           /\ [r EXCEPT !.pc = "saving", !.request = n].sha = r.sha
           /\ [r EXCEPT !.pc = "saving", !.request = n].judged <=> r.judged
           /\ [r EXCEPT !.pc = "saving", !.request = n].request = n
BY DEF Records, Pcs

LEMMA IdleTyped ==
    /\ Idle \in Records /\ Idle.pc = "idle" /\ ~Idle.judged /\ Idle.sha = 0
    /\ Leaving \in Records /\ Leaving.pc = "leaving" /\ ~Leaving.judged /\ Leaving.sha = 0
    /\ Leaving.purpose = "none"
BY DEF Idle, Leaving, Records, Pcs, NoScan, Scans

LEMMA LockTyped ==
    ASSUME NEW p \in Procs, NEW owned \in BOOLEAN, NEW dead \in BOOLEAN
    PROVE  /\ [by |-> p, owned |-> owned, dead |-> dead] \in Locks
           /\ [by |-> p, owned |-> owned, dead |-> dead] # Nothing
BY ReviewAssumption DEF ReviewAssumption, Locks

-------------------------------------------------------------------------------
(* A step that moves one process, and a step that does not touch what another knows *)

\* What a process knows is of itself, GitHub's lists, the lock and the files.
LEMMA OthersKeep ==
    ASSUME NEW q \in Procs, proc'[q] = proc[q], UNCHANGED <<now, head, items, summary, lock, stolen>>
    PROVE  /\ Reads(q) => Reads(q)'
           /\ Holds(q) => Holds(q)'
           /\ Checks(q) => Checks(q)'
BY DEF Reads, Holds, Checks, Inside, At, Settled, Answered, Ids, Scanning

\* A step that changes where one process stands, and nothing else of what the invariant is about.
LEMMA OneMoves ==
    ASSUME IInv, NEW p \in Procs, NEW r \in Records, proc' = [proc EXCEPT ![p] = r],
           UNCHANGED <<github, lock, file, stolen>>, crashes' \in Nat,
           Reads(p)', Holds(p)', Checks(p)'
    PROVE  IInv'
<1>1. Shape'
    BY DEF IInv, Shape, github
<1>2. Numbered'
    BY DEF IInv, Numbered, github
<1>3. ASSUME NEW q \in Procs PROVE Reads(q)' /\ Holds(q)' /\ Checks(q)'
  <2>1. q # p => proc'[q] = proc[q]
      BY DEF IInv, Shape
  <2> QED BY <2>1, OthersKeep DEF IInv, github
<1> QED BY <1>1, <1>2, <1>3 DEF IInv

-------------------------------------------------------------------------------
(* The lock *)

\* A process that is neither inside nor about to be, judged nothing and saves nothing, may stand anywhere.
LEMMA Outside ==
    ASSUME IInv, NEW p \in Procs, NEW r \in Records, proc' = [proc EXCEPT ![p] = r],
           UNCHANGED <<github, lock, file, stolen>>, crashes' \in Nat,
           r.pc \in {"idle", "locking", "judging", "removing"}, r.judged => proc[p].judged, r.sha <= head,
           At(p, "owning") => stolen,
           r.at \in Places \/ r.pc = "idle"
    PROVE  IInv'
<1>1. proc'[p] = r
    BY DEF IInv, Shape
<1>2. Reads(p)'
    BY <1>1 DEF Reads, Scanning, github
<1>3. Holds(p)'
    BY <1>1 DEF IInv, Holds, Inside, At, Scanning
<1>4. Checks(p)'
    BY <1>1 DEF Checks, At, Scanning
<1> QED BY <1>2, <1>3, <1>4, OneMoves

\* request begins, as the head is.
LEMMA RequestKeeps == ASSUME IInv, NEW p \in Procs, Request(p) PROVE IInv'
<1> DEFINE r == [Idle EXCEPT !.pc = "locking", !.at = Home[p], !.sha = head]
<1>1. r \in Records /\ r.pc = "locking" /\ ~r.judged /\ r.sha = head /\ r.at \in Places
    BY ReviewAssumption DEF ReviewAssumption, IInv, Shape, Records, Pcs, Idle, NoScan, Scans, Scanning
<1>2. crashes' \in Nat /\ head <= head
    BY DEF Request, IInv, Shape
<1> QED BY <1>1, <1>2, Outside DEF Request, At

\* Nobody holds a lock that is not there; one that is made is its maker's.
LEMMA MakeLockKeeps == ASSUME IInv, NEW p \in Procs, MakeLock(p) PROVE IInv'
<1>1. CASE lock # Nothing
  <2> DEFINE r == [proc[p] EXCEPT !.pc = "judging"]
  <2>1. r \in Records /\ r.pc = "judging" /\ r.judged = proc[p].judged /\ r.sha <= head /\ r.at \in Places
      BY DEF MakeLock, IInv, Shape, Records, Pcs, Scanning, Reads, At
  <2> QED BY <1>1, <2>1, Outside DEF MakeLock, To, IInv, Shape, At
<1>2. CASE lock = Nothing
  <2>1. /\ proc' = [proc EXCEPT ![p].pc = "owning"] /\ lock' = [by |-> p, owned |-> FALSE, dead |-> FALSE]
        /\ UNCHANGED <<github, file, stolen, crashes>> /\ proc[p].pc = "locking"
      BY <1>2 DEF MakeLock, To, At
  <2>2. lock' # Nothing /\ lock' \in Locks /\ lock'.by = p /\ ~lock'.dead
      BY <2>1, LockTyped
  <2>0. [proc[p] EXCEPT !.pc = "owning"] \in Records
      BY Stands DEF IInv, Shape, Pcs
  <2>3. Shape' /\ Numbered'
      BY <2>0, <2>1, <2>2 DEF IInv, Shape, Numbered, github
  <2>4. ASSUME NEW q \in Procs PROVE Reads(q)' /\ Holds(q)' /\ Checks(q)'
    <3>1. /\ stolen \/ (~(At(q, "owning") \/ Inside(q)) /\ ~proc[q].judged)
          /\ \/ q = p /\ proc'[q] = [proc[q] EXCEPT !.pc = "owning"]
             \/ q # p /\ proc'[q] = proc[q]
        BY <1>2, <2>1 DEF IInv, Holds, Shape
    <3>2. Reads(q)'
        BY <2>1, <3>1 DEF IInv, Shape, Records, Reads, Scanning, github
    <3>3. Holds(q)'
        BY <2>1, <2>2, <3>1 DEF Holds, Inside, At, Scanning, IInv, Shape, Records
    <3>4. Checks(q)'
        BY <2>1, <3>1 DEF IInv, Shape, Records, Checks, At, Scanning, github, Settled, Answered, Ids
    <3> QED BY <3>2, <3>3, <3>4
  <2> QED BY <2>3, <2>4 DEF IInv
<1> QED BY <1>1, <1>2

\* Where a process knows nothing of the items or the files yet, or any more.
Unknowing == {"idle", "locking", "owning", "judging", "unlinking", "removing", "state", "leaving"}

\* A step at the lock: each process stands where it stood, or where it knows nothing.
LEMMA LockMoves ==
    ASSUME IInv, UNCHANGED <<github, file>>, crashes' \in Nat, stolen' \in BOOLEAN, lock' \in Locks \cup {Nothing},
           proc' \in [Procs -> Records], stolen => stolen',
           \A q \in Procs :
                \/ /\ proc'[q].pc \in Unknowing /\ proc'[q].sha <= head
                   /\ proc'[q].at \in Places \/ proc'[q].pc \in {"idle", "leaving"}
                \/ /\ proc'[q].pc = proc[q].pc /\ proc'[q].at = proc[q].at /\ proc'[q].sha = proc[q].sha
                   /\ proc'[q].scan = proc[q].scan /\ proc'[q].purpose = proc[q].purpose
                   /\ proc'[q].found = proc[q].found /\ proc'[q].request = proc[q].request,
           stolen' \/ \A q \in Procs : Holds(q)'
    PROVE  IInv'
<1>1. Shape' /\ Numbered'
    BY DEF IInv, Shape, Numbered, github
<1>2. ASSUME NEW q \in Procs PROVE Reads(q)' /\ Checks(q)'
  <2>1. Reads(q) /\ Checks(q) /\ proc[q] \in Records /\ proc'[q] \in Records
      BY DEF IInv, Shape
  <2>2. CASE proc'[q].pc \in Unknowing /\ proc'[q].sha <= head
                /\ (proc'[q].at \in Places \/ proc'[q].pc \in {"idle", "leaving"})
      BY <2>2 DEF Unknowing, Reads, Checks, At, Scanning, github
  <2>3. CASE /\ proc'[q].pc = proc[q].pc /\ proc'[q].at = proc[q].at /\ proc'[q].sha = proc[q].sha
             /\ proc'[q].scan = proc[q].scan /\ proc'[q].purpose = proc[q].purpose
             /\ proc'[q].found = proc[q].found /\ proc'[q].request = proc[q].request
      BY <2>1, <2>3 DEF Reads, Checks, At, Scanning, github, Settled, Answered, Ids
  <2> QED BY <2>2, <2>3
<1>3. ASSUME NEW q \in Procs PROVE Holds(q)'
    BY DEF Holds
<1> QED BY <1>1, <1>2, <1>3 DEF IInv

\* The owner file goes into the lock its process made, unless that was stolen.
LEMMA OwnLockKeeps == ASSUME IInv, NEW p \in Procs, OwnLock(p) PROVE IInv'
<1>1. /\ proc[p].pc = "owning" /\ UNCHANGED <<github, file, stolen, crashes>> /\ proc[p] \in Records
      /\ proc[p].at \in Places /\ proc[p].sha <= head
    BY DEF OwnLock, At, IInv, Reads, Shape
<1>2. CASE lock = Nothing
  <2>1. stolen
      BY <1>1, <1>2 DEF IInv, Holds, At
  <2>2. proc' = [proc EXCEPT ![p] = Idle] /\ lock' = lock
      BY <1>2 DEF OwnLock
  <2>3. Idle.sha <= head /\ crashes' \in Nat
      BY <1>1, IdleTyped DEF IInv, Shape
  <2> QED BY <1>1, <2>1, <2>2, <2>3, IdleTyped, Outside
<1>3. CASE lock # Nothing
  <2>1. /\ lock' = [by |-> p, owned |-> TRUE, dead |-> FALSE] /\ proc' = [proc EXCEPT ![p].pc = "state"]
        /\ stolen \/ (lock.by = p /\ ~lock.dead)
      BY <1>1, <1>3 DEF OwnLock, To, IInv, Holds, At
  <2>2. lock' \in Locks /\ lock' # Nothing /\ lock'.by = p /\ lock'.owned /\ ~lock'.dead
      BY <2>1, LockTyped
  <2>3. [proc[p] EXCEPT !.pc = "state"] \in Records
      BY <1>1, Stands DEF Pcs
  <2>4. proc' \in [Procs -> Records] /\ stolen' \in BOOLEAN /\ crashes' \in Nat
      BY <1>1, <2>1, <2>3 DEF IInv, Shape
  <2>5. ASSUME ~stolen, NEW q \in Procs PROVE Holds(q)'
    <3>1. CASE q = p
        BY <1>1, <1>3, <2>1, <2>2, <2>5, <3>1 DEF IInv, Shape, Records, Holds, Inside, At
    <3>2. CASE q # p
      <4>1. proc'[q] = proc[q] /\ ~(At(q, "owning") \/ Inside(q)) /\ ~proc[q].judged
          BY <2>1, <2>5, <3>2 DEF IInv, Holds, Shape
      <4> QED BY <2>2, <3>2, <4>1 DEF Holds, Inside, At
    <3> QED BY <3>1, <3>2
  <2>6. ASSUME NEW q \in Procs
        PROVE  proc'[q] = proc[q] \/ (q = p /\ proc'[q].pc = "state" /\ proc'[q].sha <= head /\ proc'[q].at \in Places)
      BY <1>1, <2>1 DEF IInv, Shape, Reads, Records
  <2> QED BY <1>1, <2>2, <2>4, <2>5, <2>6, LockMoves DEF Unknowing
<1> QED BY <1>2, <1>3

\* Who waits goes on waiting, or gives up.
LEMMA WaitForLockKeeps == ASSUME IInv, NEW p \in Procs, WaitForLock(p) PROVE IInv'
<1>1. PICK r \in {Idle, [proc[p] EXCEPT !.pc = "locking"]} : proc' = [proc EXCEPT ![p] = r]
    BY DEF WaitForLock
<1>0. head \in Nat /\ proc[p] \in Records /\ proc[p].at \in Places /\ proc[p].sha <= head
    BY DEF WaitForLock, At, IInv, Shape, Reads
<1>2. /\ r \in Records /\ r.pc \in {"idle", "locking"}
      /\ r.judged => proc[p].judged
      /\ r.sha <= head
      /\ r.at \in Places \/ r.pc = "idle"
  <2>1. CASE r = Idle
      BY <1>0, <2>1, IdleTyped
  <2>2. CASE r = [proc[p] EXCEPT !.pc = "locking"]
      BY <1>0, <2>2 DEF Records, Pcs
  <2> QED BY <1>1, <2>1, <2>2
<1> QED BY <1>1, <1>2, Outside DEF WaitForLock, IInv, Shape, At

\* A lock is judged stale only when its maker is dead.
LEMMA JudgeLockKeeps == ASSUME IInv, NEW p \in Procs, JudgeLock(p) PROVE IInv'
<1> DEFINE r == [proc[p] EXCEPT !.pc = "unlinking", !.judged = TRUE]
<1>0. stolen \/ lock.dead
  <2>1. lock # Nothing /\ lock.by \in Procs /\ (lock.dead \/ (~lock.owned /\ ~At(lock.by, "owning")))
      BY DEF JudgeLock, Stale, IInv, Shape, Locks
  <2> QED BY <2>1 DEF IInv, Holds
<1>1. /\ proc[p].pc = "judging" /\ lock # Nothing /\ proc' = [proc EXCEPT ![p] = r]
      /\ UNCHANGED <<github, lock, file, stolen, crashes>> /\ proc[p] \in Records /\ proc[p].at \in Places
      /\ proc[p].sha <= head
    BY DEF JudgeLock, Stale, At, IInv, Reads, Shape
<1>2. r \in Records /\ r.pc = "unlinking" /\ r.sha = proc[p].sha /\ r.at = proc[p].at
    BY <1>1 DEF Records, Pcs
<1>3. proc'[p] = r
    BY <1>1 DEF IInv, Shape
<1>4. Reads(p)' /\ Holds(p)' /\ Checks(p)'
    BY <1>0, <1>1, <1>2, <1>3 DEF IInv, Reads, Holds, Checks, Inside, At, Scanning, github
<1> QED BY <1>1, <1>2, <1>4, OneMoves DEF IInv, Shape

\* A lock that is judged loses a dead process's owner file; otherwise the step is a theft.
LEMMA UnlinkKeeps == ASSUME IInv, NEW p \in Procs, Unlink(p) PROVE IInv'
<1>1. /\ proc[p].pc = "unlinking" /\ (stolen' <=> stolen \/ (lock # Nothing /\ lock.owned /\ ~proc[p].judged))
      /\ stolen' \in BOOLEAN /\ lock' = IF lock = Nothing THEN Nothing ELSE [lock EXCEPT !.owned = FALSE]
      /\ proc' = [proc EXCEPT ![p].pc = "removing"]
      /\ UNCHANGED <<github, file, crashes>> /\ proc[p] \in Records /\ proc[p].at \in Places
      /\ proc[p].sha <= head /\ lock \in Locks \cup {Nothing}
    BY DEF Unlink, To, At, IInv, Reads, Shape
<1>2. [proc[p] EXCEPT !.pc = "removing"] \in Records
    BY <1>1, Stands DEF Pcs
<1>3. /\ lock' \in Locks \cup {Nothing}
      /\ lock # Nothing => lock' # Nothing /\ lock'.by = lock.by /\ (lock'.dead <=> lock.dead) /\ ~lock'.owned
    <2>1. CASE lock # Nothing
      <3>1. lock' = [by |-> lock.by, owned |-> FALSE, dead |-> lock.dead] /\ lock.by \in Procs /\ lock.dead \in BOOLEAN
          BY <1>1, <2>1 DEF Locks
      <3> QED BY <3>1, LockTyped
    <2> QED BY <1>1, <2>1
<1>4. proc' \in [Procs -> Records] /\ crashes' \in Nat
    BY <1>1, <1>2 DEF IInv, Shape
<1>5. ASSUME ~stolen', NEW q \in Procs PROVE Holds(q)'
  <2>0. /\ ~stolen /\ Holds(q) /\ Holds(p) /\ (q # p => proc'[q] = proc[q])
        /\ proc'[p].pc = "removing" /\ (proc'[q].judged <=> proc[q].judged) /\ proc[p].pc = "unlinking"
      BY <1>1, <1>5 DEF IInv, Shape, Records
  <2>1. CASE lock = Nothing
      BY <1>1, <1>5, <2>0, <2>1 DEF Holds, Inside, At, Scanning
  <2>2. CASE lock # Nothing /\ ~lock.owned
    <3>1. lock' = lock
        BY <1>1, <2>2 DEF Locks
    <3> QED BY <2>0, <3>1 DEF Holds, Inside, At, Scanning
  <2>3. CASE lock # Nothing /\ lock.owned
    <3>1. lock.dead /\ ~(At(q, "owning") \/ Inside(q))
        BY <1>1, <1>5, <2>0, <2>3 DEF Holds
    <3> QED BY <1>3, <2>0, <2>3, <3>1 DEF Holds, Inside, At, Scanning
  <2> QED BY <2>1, <2>2, <2>3
<1>6. ASSUME NEW q \in Procs
      PROVE  \/ proc'[q] = proc[q]
             \/ proc'[q].pc = "removing" /\ proc'[q].sha <= head /\ proc'[q].at \in Places
    BY <1>1 DEF IInv, Shape, Records
<1> QED BY <1>1, <1>3, <1>4, <1>5, <1>6, LockMoves DEF Unknowing

\* The directory is removed; a lock that is there, without its owner file, was judged or is stolen.
LEMMA RemoveDirKeeps == ASSUME IInv, NEW p \in Procs, RemoveDir(p) PROVE IInv'
<1> DEFINE removed == lock # Nothing /\ ~lock.owned
           moved == [proc[p] EXCEPT !.pc = "locking", !.judged = FALSE]
<1>1. /\ proc[p].pc = "removing" /\ (stolen' <=> stolen \/ (removed /\ ~proc[p].judged))
      /\ stolen' \in BOOLEAN /\ lock' = IF removed THEN Nothing ELSE lock
      /\ UNCHANGED <<github, file, crashes>> /\ proc[p] \in Records /\ proc[p].at \in Places
      /\ proc[p].sha <= head /\ lock \in Locks \cup {Nothing} /\ proc \in [Procs -> Records]
    BY DEF RemoveDir, At, IInv, Reads, Shape
<1>2. /\ moved \in Records /\ moved.pc = "locking" /\ ~moved.judged /\ moved.sha = proc[p].sha
      /\ moved.at = proc[p].at
    BY <1>1 DEF Records, Pcs
<1>3. ASSUME NEW q \in Procs
      PROVE  /\ proc'[q] \in Records
             /\ q = p => proc'[q] = moved
             /\ q # p => proc'[q] = IF removed THEN [proc[q] EXCEPT !.judged = FALSE] ELSE proc[q]
    BY <1>1, <1>2 DEF RemoveDir, Gone, Records
<1>4. proc' \in [Procs -> Records] /\ crashes' \in Nat /\ lock' \in Locks \cup {Nothing}
  <2>1. crashes' \in Nat /\ lock' \in Locks \cup {Nothing}
      BY <1>1 DEF IInv, Shape
  <2>2. proc' = [q \in Procs |-> proc'[q]]
      BY <1>1 DEF RemoveDir, Gone
  <2> QED BY <1>3, <2>1, <2>2
<1>5. ASSUME ~stolen', NEW q \in Procs PROVE Holds(q)'
  <2>0. ~stolen /\ ~stolen' /\ Holds(q) /\ Holds(p)
      BY <1>1, <1>5 DEF IInv
  <2>1. CASE q = p
    <3>1. lock' # Nothing /\ lock'.by = p => lock' = lock /\ lock'.owned
        BY <1>1
    <3> QED BY <1>2, <1>3, <2>1, <3>1 DEF Holds, Inside, At, Scanning
  <2>2. CASE q # p /\ removed
    <3>1. Holds(q) /\ ~(At(q, "owning") \/ Inside(q)) /\ lock # Nothing /\ lock' = Nothing
      <4>1. proc[p].judged
          BY <1>1, <1>5, <2>2
      <4> QED BY <1>1, <2>0, <4>1, <2>2 DEF Holds
    <3>2. proc'[q].pc = proc[q].pc /\ proc'[q].purpose = proc[q].purpose /\ ~proc'[q].judged
        BY <1>1, <1>3, <2>2 DEF Records
    <3> QED BY <3>1, <3>2 DEF Holds, Inside, At
  <2>3. CASE q # p /\ ~removed
    <3>1. proc'[q] = proc[q] /\ lock' = lock
        BY <1>1, <1>3, <2>3
    <3> QED BY <2>0, <3>1 DEF Holds, Inside, At
  <2> QED BY <2>1, <2>2, <2>3
<1>6. ASSUME NEW q \in Procs
      PROVE  \/ proc'[q].pc = "locking" /\ proc'[q].sha <= head /\ proc'[q].at \in Places
             \/ proc'[q] = proc[q] \/ proc'[q] = [proc[q] EXCEPT !.judged = FALSE]
    BY <1>1, <1>2, <1>3
<1>7. ASSUME NEW q \in Procs
      PROVE  \/ proc'[q].pc = "locking" /\ proc'[q].sha <= head /\ proc'[q].at \in Places
             \/ /\ proc'[q].pc = proc[q].pc /\ proc'[q].at = proc[q].at /\ proc'[q].sha = proc[q].sha
                /\ proc'[q].scan = proc[q].scan /\ proc'[q].purpose = proc[q].purpose
                /\ proc'[q].found = proc[q].found /\ proc'[q].request = proc[q].request
    BY <1>1, <1>6 DEF Records
<1> QED BY <1>1, <1>4, <1>5, <1>7, LockMoves DEF Unknowing

\* Whoever lets the lock go made it, unless it was stolen; nobody is inside then, and nobody has
\* judged a lock.
LEMMA ReleaseLockKeeps == ASSUME IInv, NEW p \in Procs, ReleaseLock(p) PROVE IInv'
<1> DEFINE mine == lock # Nothing /\ lock.owned /\ lock.by = p
<1>1. /\ proc[p].pc = "leaving" /\ UNCHANGED <<github, file, stolen, crashes>> /\ proc \in [Procs -> Records]
      /\ lock' = IF mine THEN Nothing ELSE lock
      /\ proc' = [IF mine THEN [q \in Procs |-> [proc[q] EXCEPT !.judged = FALSE]] ELSE proc EXCEPT ![p] = Idle]
      /\ lock \in Locks \cup {Nothing} /\ head \in Nat /\ crashes \in Nat /\ stolen \in BOOLEAN
    BY DEF ReleaseLock, Gone, At, IInv, Shape
<1>2. ASSUME NEW q \in Procs
      PROVE  /\ proc'[q] \in Records
             /\ q = p => proc'[q] = Idle
             /\ q # p => proc'[q] = IF mine THEN [proc[q] EXCEPT !.judged = FALSE] ELSE proc[q]
    BY <1>1, IdleTyped DEF Records
<1>3. proc' \in [Procs -> Records] /\ crashes' \in Nat /\ stolen' \in BOOLEAN /\ lock' \in Locks \cup {Nothing}
  <2>1. proc' = [q \in Procs |-> proc'[q]]
      BY <1>1
  <2> QED BY <1>1, <1>2, <2>1
<1>4. ASSUME ~stolen, NEW q \in Procs PROVE Holds(q)'
  <2>0. mine /\ lock' = Nothing
      BY <1>1, <1>4 DEF IInv, Holds, Inside
  <2>1. CASE q = p
      BY <1>2, <2>0, <2>1, IdleTyped DEF Holds, Inside, At, Scanning
  <2>2. CASE q # p
    <3>1. ~(At(q, "owning") \/ Inside(q))
        BY <1>4, <2>0, <2>2 DEF IInv, Holds
    <3>2. proc'[q].pc = proc[q].pc /\ proc'[q].purpose = proc[q].purpose /\ ~proc'[q].judged
        BY <1>1, <1>2, <2>0, <2>2 DEF Records
    <3> QED BY <2>0, <3>1, <3>2 DEF Holds, Inside, At
  <2> QED BY <2>1, <2>2
<1>6. ASSUME NEW q \in Procs
      PROVE  \/ proc'[q].pc = "idle" /\ proc'[q].sha <= head
             \/ /\ proc'[q].pc = proc[q].pc /\ proc'[q].at = proc[q].at /\ proc'[q].sha = proc[q].sha
                /\ proc'[q].scan = proc[q].scan /\ proc'[q].purpose = proc[q].purpose
                /\ proc'[q].found = proc[q].found /\ proc'[q].request = proc[q].request
  <2>1. proc[q] \in Records
      BY <1>1
  <2> QED BY <1>1, <1>2, <2>1, IdleTyped DEF Records
<1> QED BY <1>1, <1>3, <1>4, <1>6, LockMoves DEF Unknowing

\* A process that dies leaves the lock it made, marked as a dead one's.
LEMMA CrashKeeps == ASSUME IInv, NEW p \in Procs, Crash(p) PROVE IInv'
<1>1. /\ lock' = IF lock # Nothing /\ lock.by = p /\ ~lock.dead THEN [lock EXCEPT !.dead = TRUE] ELSE lock
      /\ proc' = [proc EXCEPT ![p] = Idle] /\ UNCHANGED <<github, file, stolen>> /\ proc \in [Procs -> Records]
      /\ lock \in Locks \cup {Nothing} /\ crashes' \in Nat /\ head \in Nat /\ stolen' \in BOOLEAN
    BY DEF Crash, IInv, Shape
<1>2. /\ lock' \in Locks \cup {Nothing}
      /\ lock # Nothing => /\ lock' # Nothing /\ lock'.by = lock.by /\ (lock'.owned <=> lock.owned)
                           /\ lock.dead => lock'.dead
                           /\ lock.by # p => lock' = lock
                           /\ lock.by = p => lock'.dead
      /\ lock = Nothing => lock' = Nothing
    <2>1. CASE lock # Nothing /\ lock.by = p /\ ~lock.dead
      <3>1. lock' = [by |-> lock.by, owned |-> lock.owned, dead |-> TRUE] /\ lock.by \in Procs /\ lock.owned \in BOOLEAN
          BY <1>1, <2>1 DEF Locks
      <3> QED BY <2>1, <3>1, LockTyped
    <2>2. CASE ~(lock # Nothing /\ lock.by = p /\ ~lock.dead)
        BY <1>1, <2>2
    <2> QED BY <2>1, <2>2
<1>3. ASSUME NEW q \in Procs PROVE Holds(q)'
  <2>1. CASE q = p
      BY <1>1, <1>2, <2>1, IdleTyped DEF Holds, Inside, At, Scanning
  <2>2. CASE q # p
    <3>1. proc'[q] = proc[q] /\ Holds(q) /\ stolen' = stolen
        BY <1>1, <2>2 DEF IInv
    <3> QED BY <1>2, <2>2, <3>1 DEF Holds, Inside, At
  <2> QED BY <2>1, <2>2
<1>4. ASSUME NEW q \in Procs PROVE proc'[q] = proc[q] \/ (proc'[q].pc = "idle" /\ proc'[q].sha <= head)
    BY <1>1, IdleTyped
<1>5. proc' \in [Procs -> Records]
    BY <1>1, IdleTyped
<1> QED BY <1>1, <1>2, <1>3, <1>4, <1>5, LockMoves DEF Unknowing

-------------------------------------------------------------------------------
(* The scans *)

\* What answers a request of a head: a failure, or another verdict on that head.
Answers(k, sha) == items[k].kind = "failure" \/ (items[k].kind # "request" /\ items[k].sha = sha)

\* A step of the kind OneMoves is about, seen from what the process knows.
LEMMA Moved ==
    ASSUME IInv, NEW p \in Procs, NEW r \in Records, proc' = [proc EXCEPT ![p] = r],
           UNCHANGED <<github, lock, file, stolen, crashes>>
    PROVE  /\ proc'[p] = r /\ crashes' \in Nat
           /\ now' = now /\ head' = head /\ items' = items /\ summary' = summary
           /\ lock' = lock /\ stolen' = stolen
BY DEF IInv, Shape, github

\* A scan goes on to its next list.
LEMMA ScanGoesOn ==
    ASSUME IInv, NEW p \in Procs, proc[p].pc \in Scanning \ {"scan_again"},
           NEW pc \in Scanning \ {"scan_again"}, To(p, pc), UNCHANGED <<github, lock, file, stolen, crashes>>
    PROVE  IInv'
<1> DEFINE r == [proc[p] EXCEPT !.pc = pc]
<1>1. proc[p] \in Records /\ Reads(p) /\ Holds(p) /\ Checks(p)
    BY DEF IInv, Shape
<1>2. /\ r \in Records /\ r.pc = pc /\ r.at = proc[p].at /\ r.sha = proc[p].sha /\ r.scan = proc[p].scan
      /\ r.purpose = proc[p].purpose /\ (r.judged <=> proc[p].judged)
    BY <1>1 DEF Records, Pcs
<1>3. proc' = [proc EXCEPT ![p] = r]
    BY DEF To
<1>4. proc'[p] = r /\ crashes' \in Nat /\ now' = now /\ head' = head /\ items' = items /\ summary' = summary
    BY <1>2, <1>3, Moved
<1>5. Reads(p)' /\ Holds(p)' /\ Checks(p)'
    BY <1>1, <1>2, <1>4 DEF Reads, Holds, Checks, Inside, At, Scanning, Ids
<1> QED BY <1>2, <1>3, <1>4, <1>5, OneMoves

\* What a verdict that is not older than the scan's time says of the requests a remote scan is about.
LEMMA FoundSettles ==
    ASSUME IInv, NEW p \in Procs, proc[p].pc \in Scanning, proc[p].purpose = "remote", NEW at \in Nat,
           at >= proc[p].scan.at,
           \/ \E k \in DOMAIN items : items[k].at = at /\ Answers(k, proc[p].scan.sha)
           \/ summary.at = at /\ summary.sha = proc[p].scan.sha
    PROVE  stolen \/ Settled(proc[p].sha)
<1> SUFFICES ASSUME ~stolen PROVE Settled(proc[p].sha)
    OBVIOUS
<1>1. Checks(p) /\ Shape /\ proc[p] \in Records
    BY DEF IInv, Shape
<1>2. proc[p].scan.at \in Nat /\ proc[p].scan.sha = proc[p].sha
    BY <1>1 DEF Checks, Records, Scans
<1>3. ASSUME NEW i \in Ids("request", proc[p].sha) PROVE Answered(i)
  <2>1. i \in DOMAIN items /\ items[i].at <= at /\ items[i].at \in Nat /\ items[i].sha = proc[p].sha
      BY <1>1, <1>2, ItemTyped DEF Checks, Ids, Items
  <2> QED BY <1>2, <2>1 DEF Answered, Answers
<1> QED BY <1>3 DEF Settled

\* A scan has found a verdict, of a comment or of the summary, that is not older than its time.
LEMMA FindsKeeps ==
    ASSUME IInv, NEW p \in Procs, proc[p].pc \in Scanning, NEW at \in Nat, Finds(p, at),
           UNCHANGED <<github, lock, file, stolen, crashes>>, at >= proc[p].scan.at,
           \/ \E k \in DOMAIN items : items[k].at = at /\ Answers(k, proc[p].scan.sha)
           \/ summary.at = at /\ summary.sha = proc[p].scan.sha
    PROVE  IInv'
<1> DEFINE r == [proc[p] EXCEPT !.pc = "scan_again", !.found = at]
<1>1. proc[p] \in Records /\ Reads(p) /\ Holds(p) /\ Checks(p)
    BY DEF IInv, Shape
<1>2. /\ r \in Records /\ r.pc = "scan_again" /\ r.at = proc[p].at /\ r.sha = proc[p].sha /\ r.scan = proc[p].scan
      /\ r.purpose = proc[p].purpose /\ (r.judged <=> proc[p].judged) /\ r.found = at
    BY <1>1 DEF Records, Pcs, Scanning
<1>3. proc' = [proc EXCEPT ![p] = r]
    BY DEF Finds
<1>4. /\ proc'[p] = r /\ crashes' \in Nat /\ now' = now /\ head' = head /\ items' = items /\ summary' = summary
      /\ stolen' = stolen
    BY <1>2, <1>3, Moved
<1>5. proc[p].purpose = "remote" => stolen \/ Settled(proc[p].sha)
    BY FoundSettles
<1>6. Reads(p)' /\ Holds(p)'
    BY <1>1, <1>2, <1>4 DEF Reads, Holds, Inside, At, Scanning
<1>7. Checks(p)'
    BY <1>1, <1>2, <1>4, <1>5 DEF Checks, At, Scanning, Settled, Answered, Ids
<1> QED BY <1>2, <1>3, <1>4, <1>6, <1>7, OneMoves

\* A request younger than the scan's time is settled once that is past the stale bound.
LEMMA StaleSettles ==
    ASSUME IInv, NEW p \in Procs, proc[p].pc \in Scanning, proc[p].purpose = "remote", ~Pending(p)
    PROVE  stolen \/ Settled(proc[p].sha)
<1> SUFFICES ASSUME ~stolen PROVE Settled(proc[p].sha)
    OBVIOUS
<1>1. Checks(p) /\ Shape /\ proc[p] \in Records /\ now \in Nat /\ STALE \in Nat
    BY ReviewAssumption DEF ReviewAssumption, IInv, Shape
<1>2. proc[p].scan.at \in Nat /\ now - proc[p].scan.at >= STALE
    BY <1>1 DEF Records, Scans, Pending
<1>3. ASSUME NEW i \in Ids("request", proc[p].sha) PROVE now - items[i].at >= STALE
  <2>1. items[i].at <= proc[p].scan.at /\ items[i].at \in Nat
      BY <1>1, ItemTyped DEF Checks, Ids, Items
  <2> QED BY <1>1, <1>2, <2>1
<1> QED BY <1>3 DEF Settled

\* What becomes of a scan, of a watch's, of a request's in its state file, of one in the comments.
LEMMA OutcomeKeeps ==
    ASSUME IInv, NEW p \in Procs, proc[p].pc \in Scanning, NEW verdict \in {"pending", "stale_head", "verdict"},
           Outcome(p, verdict), UNCHANGED <<github, lock, file, stolen, crashes>>,
           verdict = "verdict" => At(p, "scan_again") /\ head = proc[p].scan.sha,
           verdict = "stale_head" => head # proc[p].scan.sha
    PROVE  IInv'
<1>1. proc[p] \in Records /\ Reads(p) /\ Holds(p) /\ Checks(p) /\ head \in Nat
    BY DEF IInv, Shape
<1>2. ASSUME NEW r \in Records, proc' = [proc EXCEPT ![p] = r],
             r.at = proc[p].at, r.sha = proc[p].sha, r.scan = proc[p].scan, r.purpose = "watch",
             r.judged <=> proc[p].judged, r.found = proc[p].found,
             r.pc = "watching" \/ (r.pc = "told" /\ At(p, "scan_again"))
      PROVE  IInv'
  <2>1. proc'[p] = r /\ crashes' \in Nat /\ now' = now /\ head' = head /\ items' = items /\ summary' = summary
      BY <1>2, Moved
  <2>2. Reads(p)' /\ Holds(p)' /\ Checks(p)'
      BY <1>1, <1>2, <2>1 DEF Reads, Holds, Checks, Inside, At, Scanning
  <2> QED BY <1>2, <2>1, <2>2, OneMoves
<1>3. ASSUME NEW r \in {Idle, Leaving}, proc' = [proc EXCEPT ![p] = r], r = Leaving => Inside(p)
      PROVE  IInv'
  <2>1. r \in Records /\ r.pc \in {"idle", "leaving"} /\ ~r.judged /\ r.sha = 0 /\ (r.pc = "leaving" => Inside(p))
      BY <1>3, IdleTyped
  <2>2. proc'[p] = r /\ crashes' \in Nat /\ now' = now /\ head' = head /\ items' = items /\ summary' = summary
      BY <1>3, <2>1, Moved
  <2>3. Reads(p)' /\ Holds(p)' /\ Checks(p)'
      BY <1>1, <2>1, <2>2 DEF Reads, Holds, Checks, Inside, At, Scanning
  <2> QED BY <1>3, <2>1, <2>2, <2>3, OneMoves
<1>4. ASSUME NEW pc \in {"remote", "baseline"}, Inside(p), pc = "baseline" /\ head = proc[p].sha => stolen \/ Settled(proc[p].sha),
             proc' = [proc EXCEPT ![p] = [proc[p] EXCEPT !.pc = pc, !.scan = NoScan, !.purpose = "none",
                                                         !.found = Nothing]]
      PROVE  IInv'
  <2> DEFINE r == [proc[p] EXCEPT !.pc = pc, !.scan = NoScan, !.purpose = "none", !.found = Nothing]
  <2>1. /\ r \in Records /\ r.pc = pc /\ r.at = proc[p].at /\ r.sha = proc[p].sha
        /\ (r.judged <=> proc[p].judged)
      BY <1>1 DEF Records, Pcs, NoScan, Scans
  <2>2. /\ proc'[p] = r /\ crashes' \in Nat /\ now' = now /\ head' = head /\ items' = items /\ summary' = summary
        /\ stolen' = stolen
      BY <1>4, <2>1, Moved
  <2>3. Reads(p)' /\ Holds(p)'
      BY <1>1, <1>4, <2>1, <2>2 DEF Reads, Holds, Inside, At, Scanning
  <2>4. Checks(p)'
      BY <1>1, <1>4, <2>1, <2>2 DEF Checks, At, Scanning, Settled, Answered, Ids
  <2> QED BY <1>4, <2>1, <2>2, <2>3, <2>4, OneMoves
<1>5. CASE proc[p].purpose = "watch"
  <2>1. proc' = [proc EXCEPT ![p] = Watched(p, verdict)]
      BY <1>5 DEF Outcome
  <2>2. CASE verdict = "pending"
    <3>1. Watched(p, verdict) = [proc[p] EXCEPT !.pc = "watching"]
        BY <2>2 DEF Watched
    <3> QED BY <1>1, <1>2, <1>5, <2>1, <3>1 DEF Records, Pcs
  <2>3. CASE verdict = "stale_head"
    <3>1. Watched(p, verdict) = Idle
        BY <2>3 DEF Watched
    <3> QED BY <1>3, <2>1, <3>1, IdleTyped
  <2>4. CASE verdict = "verdict"
    <3>1. Watched(p, verdict) = [proc[p] EXCEPT !.pc = "told"]
        BY <2>4 DEF Watched
    <3> QED BY <1>1, <1>2, <1>5, <2>1, <2>4, <3>1 DEF Records, Pcs
  <2> QED BY <2>2, <2>3, <2>4
<1>6. CASE proc[p].purpose # "watch"
  <2>1. proc' = [proc EXCEPT ![p] = Checked(p, verdict)] /\ Inside(p)
      BY <1>6 DEF Outcome, Inside
  <2>2. CASE verdict = "pending" /\ Pending(p)
      BY <1>3, <2>1, <2>2 DEF Checked
  <2>3. CASE ~(verdict = "pending" /\ Pending(p))
    <3>1. CASE proc[p].purpose = "state"
      <4>1. Checked(p, verdict) = [proc[p] EXCEPT !.pc = "remote", !.scan = NoScan, !.purpose = "none", !.found = Nothing]
          BY <2>3, <3>1 DEF Checked
      <4> QED BY <1>4, <2>1, <4>1
    <3>2. CASE proc[p].purpose # "state"
      <4>1. Checked(p, verdict) = [proc[p] EXCEPT !.pc = "baseline", !.scan = NoScan, !.purpose = "none", !.found = Nothing]
          BY <2>3, <3>2 DEF Checked
      <4>2. proc[p].purpose = "remote"
          BY <1>1, <1>6, <3>2 DEF Reads, Records
      <4>3. head = proc[p].sha => stolen \/ Settled(proc[p].sha)
        <5>1. stolen \/ proc[p].scan.sha = proc[p].sha
            BY <1>1, <4>2 DEF Checks
        <5>2. CASE verdict = "pending"
            BY <2>3, <4>2, <5>2, StaleSettles
        <5>3. CASE verdict # "pending"
            BY <1>1, <4>2, <5>1, <5>3 DEF Checks, At
        <5> QED BY <5>2, <5>3
      <4> QED BY <1>4, <2>1, <4>1, <4>3
    <3> QED BY <3>1, <3>2
  <2> QED BY <2>2, <2>3
<1> QED BY <1>5, <1>6

LEMMA ScanHeadKeeps == ASSUME IInv, NEW p \in Procs, ScanHead(p) PROVE IInv'
<1>1. proc[p].pc = "scan_head" /\ UNCHANGED <<github, lock, file, stolen, crashes>>
    BY DEF ScanHead, At
<1>2. CASE head # proc[p].scan.sha
    BY <1>1, <1>2, OutcomeKeeps DEF ScanHead, Scanning
<1>3. CASE head = proc[p].scan.sha
    BY <1>1, <1>3, ScanGoesOn DEF ScanHead, Scanning
<1> QED BY <1>2, <1>3

\* A fresh item is not older than the scan's time.
LEMMA FreshIsLate ==
    ASSUME IInv, NEW p \in Procs, NEW i \in DOMAIN items, NEW baseline, Fresh(i, baseline, proc[p].scan.at)
    PROVE  items[i].at \in Nat /\ items[i].at >= proc[p].scan.at
<1>1. items[i].at \in Nat
    BY ItemTyped DEF IInv, Items
<1>2. proc[p].scan.at \in Nat
    BY DEF IInv, Shape, Records, Scans
<1> QED BY <1>1, <1>2 DEF Fresh

\* The latest review that is fresh.
LEMMA ScanReviewsKeeps == ASSUME IInv, NEW p \in Procs, ScanReviews(p) PROVE IInv'
<1> DEFINE found == Reviews(proc[p].scan)
<1>1. proc[p].pc = "scan_reviews" /\ UNCHANGED <<github, lock, file, stolen, crashes>>
    BY DEF ScanReviews, At
<1>2. CASE found = {}
    BY <1>1, <1>2, ScanGoesOn DEF ScanReviews, Scanning
<1>3. CASE found # {}
  <2>1. found \subseteq DOMAIN items
      BY DEF Reviews, Ids
  <2>2. Latest(found) \in found /\ Latest(found) \in DOMAIN items
      BY <1>3, <2>1, LatestItem DEF IInv
  <2>3. items[Latest(found)].kind = "review" /\ Fresh(Latest(found), proc[p].scan.review, proc[p].scan.at)
      BY <2>2 DEF Reviews, Ids
  <2>4. items[Latest(found)].at \in Nat /\ items[Latest(found)].at >= proc[p].scan.at
      BY <2>2, <2>3, FreshIsLate
  <2>5. Finds(p, items[Latest(found)].at)
      BY <1>3 DEF ScanReviews
  <2>6. Answers(Latest(found), proc[p].scan.sha) /\ proc[p].pc \in Scanning
      BY <1>1, <2>2, <2>3 DEF Scanning, Answers, Reviews, Ids
  <2> QED BY <1>1, <2>2, <2>4, <2>5, <2>6, FindsKeeps
<1> QED BY <1>2, <1>3

\* What a failure says was said, by a comment or by the summary, not before the scan's time.
LEMMA FailedIsLate ==
    ASSUME IInv, NEW p \in Procs, NEW at \in FailedAt(proc[p].scan)
    PROVE  /\ at \in Nat /\ at >= proc[p].scan.at
           /\ \/ \E k \in DOMAIN items : items[k].at = at /\ Answers(k, proc[p].scan.sha)
              \/ summary.at = at /\ summary.sha = proc[p].scan.sha
<1>1. CASE \E i \in Failures(proc[p].scan) : at = items[i].at
  <2>1. PICK i \in Failures(proc[p].scan) : at = items[i].at
      BY <1>1
  <2>2. i \in DOMAIN items /\ items[i].kind = "failure" /\ Fresh(i, proc[p].scan.issue, proc[p].scan.at)
      BY DEF Failures
  <2>3. items[i].at \in Nat /\ items[i].at >= proc[p].scan.at
      BY <2>2, FreshIsLate
  <2> QED BY <2>1, <2>2, <2>3 DEF Answers
<1>2. CASE at = summary.at /\ MarkedFailed(proc[p].scan)
  <2>1. summary.at \in Nat /\ proc[p].scan.at \in Nat
      BY DEF IInv, Shape, Records, Scans
  <2> QED BY <1>2, <2>1 DEF MarkedFailed
<1> QED BY <1>1, <1>2 DEF FailedAt

\* The latest fresh comment that it is clean; without one, a failure; or nothing yet.
LEMMA ScanIssuesKeeps == ASSUME IInv, NEW p \in Procs, ScanIssues(p) PROVE IInv'
<1> DEFINE cleans == Cleans(proc[p].scan)
<1>1. proc[p].pc = "scan_issues" /\ UNCHANGED <<github, lock, file, stolen, crashes>> /\ proc[p].pc \in Scanning
    BY DEF ScanIssues, At, Scanning
<1>2. CASE Outcome(p, "pending")
    BY <1>1, <1>2, OutcomeKeeps
<1>3. CASE cleans # {} /\ Finds(p, items[Latest(cleans)].at)
  <2>1. cleans \subseteq DOMAIN items
      BY DEF Cleans, Ids
  <2>2. Latest(cleans) \in cleans /\ Latest(cleans) \in DOMAIN items
      BY <1>3, <2>1, LatestItem DEF IInv
  <2>3. items[Latest(cleans)].kind = "clean" /\ Fresh(Latest(cleans), proc[p].scan.issue, proc[p].scan.at)
      BY <2>2 DEF Cleans, Ids
  <2>4. items[Latest(cleans)].at \in Nat /\ items[Latest(cleans)].at >= proc[p].scan.at
      BY <2>2, <2>3, FreshIsLate
  <2>5. Answers(Latest(cleans), proc[p].scan.sha)
      BY <2>2, <2>3 DEF Answers, Cleans, Ids
  <2> QED BY <1>1, <1>3, <2>2, <2>4, <2>5, FindsKeeps
<1>4. CASE \E at \in FailedAt(proc[p].scan) : Finds(p, at)
  <2>1. PICK at \in FailedAt(proc[p].scan) : Finds(p, at)
      BY <1>4
  <2>2. /\ at \in Nat /\ at >= proc[p].scan.at
        /\ \/ \E k \in DOMAIN items : items[k].at = at /\ Answers(k, proc[p].scan.sha)
           \/ summary.at = at /\ summary.sha = proc[p].scan.sha
      BY FailedIsLate
  <2> QED BY <1>1, <2>1, <2>2, FindsKeeps
<1> QED BY <1>2, <1>3, <1>4 DEF ScanIssues

\* The head is read again: only what was found for the head that is there counts.
LEMMA ScanAgainKeeps == ASSUME IInv, NEW p \in Procs, ScanAgain(p) PROVE IInv'
<1>1. proc[p].pc \in Scanning /\ At(p, "scan_again") /\ UNCHANGED <<github, lock, file, stolen, crashes>>
    BY DEF ScanAgain, At, Scanning
<1> QED BY <1>1, OutcomeKeeps DEF ScanAgain

LEMMA ScanFailsKeeps == ASSUME IInv, NEW p \in Procs, ScanFails(p) PROVE IInv'
<1> DEFINE r == IF proc[p].purpose = "watch" THEN Idle ELSE Leaving
<1>1. proc' = [proc EXCEPT ![p] = r] /\ UNCHANGED <<github, lock, file, stolen, crashes>> /\ proc[p].pc \in Scanning
    BY DEF ScanFails
<1>2. /\ r \in Records /\ r.pc \in {"idle", "leaving"} /\ ~r.judged /\ r.sha = 0
      /\ r.pc = "leaving" => Inside(p)
    BY <1>1, IdleTyped DEF Inside
<1>3. proc'[p] = r /\ crashes' \in Nat /\ now' = now /\ head' = head /\ items' = items /\ summary' = summary
    BY <1>1, <1>2, Moved
<1>4. Holds(p) /\ head \in Nat
    BY DEF IInv, Shape
<1>5. Reads(p)' /\ Holds(p)' /\ Checks(p)'
    BY <1>1, <1>2, <1>3, <1>4 DEF Reads, Holds, Checks, Inside, At, Scanning
<1> QED BY <1>1, <1>2, <1>3, <1>5, OneMoves

-------------------------------------------------------------------------------
(* A request, under the lock *)

\* A step of one process that writes its state file, of an item and with that item's time or none.
LEMMA OneWrites ==
    ASSUME IInv, NEW p \in Procs, NEW r \in Records, proc' = [proc EXCEPT ![p] = r],
           UNCHANGED <<github, lock, stolen>>, crashes' \in Nat,
           NEW d \in Places, NEW s \in States, file' = [file EXCEPT ![d] = s],
           s.request \in DOMAIN items, s.at \in {0, items[s.request].at},
           Reads(p)', Holds(p)', Checks(p)'
    PROVE  IInv'
<1>1. Shape'
    BY DEF IInv, Shape, github
<1>2. Numbered'
    BY DEF IInv, Shape, Numbered, github
<1>3. ASSUME NEW q \in Procs PROVE Reads(q)' /\ Holds(q)' /\ Checks(q)'
  <2>1. q # p => proc'[q] = proc[q]
      BY DEF IInv, Shape
  <2> QED BY <2>1, OthersKeep DEF IInv, github
<1> QED BY <1>1, <1>2, <1>3 DEF IInv

\* A process inside that goes on to where it has nothing to show; it leaves in the end.
LEMMA InsideGoesOn ==
    ASSUME IInv, NEW p \in Procs, Inside(p), NEW r \in Records, proc' = [proc EXCEPT ![p] = r],
           UNCHANGED <<github, lock, file, stolen, crashes>>, r.pc \in {"remote", "baseline", "leaving"},
           r.judged => proc[p].judged, r.sha <= head, r.at \in Places \/ r.pc = "leaving",
           r.pc = "baseline" => Ids("request", r.sha) = {}
    PROVE  IInv'
<1>1. proc'[p] = r /\ crashes' \in Nat /\ now' = now /\ head' = head /\ items' = items /\ summary' = summary
    BY Moved
<1>2. Reads(p)' /\ Holds(p)'
    BY <1>1 DEF IInv, Reads, Holds, Inside, At, Scanning
<1>3. Checks(p)'
    BY <1>1 DEF Checks, At, Scanning, Settled, Ids
<1> QED BY <1>1, <1>2, <1>3, OneMoves

LEMMA LeavesKeeps ==
    ASSUME IInv, NEW p \in Procs, Inside(p), Leaves(p), UNCHANGED <<github, lock, file, stolen, crashes>>
    PROVE  IInv'
<1>1. head \in Nat
    BY DEF IInv, Shape
<1>2. proc' = [proc EXCEPT ![p] = Leaving] /\ Leaving.sha <= head
    BY <1>1, IdleTyped DEF Leaves
<1>3. Leaving \in Records /\ Leaving.pc = "leaving" /\ ~Leaving.judged
    BY IdleTyped
<1> QED BY <1>2, <1>3, InsideGoesOn

\* A state file's time, recovered if it had none, is that of the comment it names.
LEMMA TimedTyped ==
    ASSUME IInv, NEW d \in Places, file[d] # Nothing
    PROVE  /\ Timed(file[d]) \in States /\ Timed(file[d]).request \in DOMAIN items
           /\ Timed(file[d]).request = file[d].request /\ Timed(file[d]).sha = file[d].sha
           /\ Timed(file[d]).at = items[file[d].request].at
<1>1. file[d] \in States /\ file[d].request \in DOMAIN items /\ file[d].at \in {0, items[file[d].request].at}
    BY DEF IInv, Shape, Numbered
<1>2. items[file[d].request].at \in Nat
    BY <1>1, ItemTyped DEF IInv, Items
<1> QED BY <1>1, <1>2 DEF Timed, States

\* This worktree's state file is looked at, and the round it names scanned for.
LEMMA CheckStateKeeps == ASSUME IInv, NEW p \in Procs, CheckState(p) PROVE IInv'
<1> DEFINE s == file[proc[p].at]
<1>1. /\ proc[p].pc = "state" /\ UNCHANGED <<github, lock, stolen, crashes>> /\ proc[p] \in Records
      /\ Reads(p) /\ Holds(p) /\ Inside(p) /\ proc[p].at \in Places /\ proc[p].sha <= head
    BY DEF CheckState, At, IInv, Shape, Reads, Inside
<1>2. CASE s = Nothing \/ s.sha # proc[p].sha
  <2> DEFINE r == [proc[p] EXCEPT !.pc = "remote"]
  <2>1. proc' = [proc EXCEPT ![p] = r] /\ file' = file
      BY <1>2 DEF CheckState, To
  <2>2. r \in Records /\ r.pc = "remote" /\ (r.judged <=> proc[p].judged) /\ r.sha = proc[p].sha /\ r.at = proc[p].at
      BY <1>1 DEF Records, Pcs
  <2> QED BY <1>1, <2>1, <2>2, InsideGoesOn
<1>3. CASE s # Nothing /\ s.sha = proc[p].sha
  <2> DEFINE c == StateScan(Timed(s))
             r == [proc[p] EXCEPT !.pc = "scan_head", !.scan = c, !.purpose = "state", !.found = Nothing]
  <2>1. /\ Timed(s) \in States /\ Timed(s).request \in DOMAIN items /\ Timed(s).at = items[s.request].at
        /\ Timed(s).request = s.request
      BY <1>1, <1>3, TimedTyped
  <2>2. c \in Scans /\ c.request = s.request /\ c.at = items[s.request].at
      BY <2>1 DEF StateScan, Scans, States
  <2>3. proc' = [proc EXCEPT ![p] = r] /\ file' = [file EXCEPT ![proc[p].at] = Timed(s)]
      BY <1>3 DEF CheckState, Scan
  <2>4. /\ r \in Records /\ r.pc = "scan_head" /\ (r.judged <=> proc[p].judged) /\ r.sha = proc[p].sha
        /\ r.at = proc[p].at /\ r.scan = c /\ r.purpose = "state"
      BY <1>1, <2>2 DEF Records, Pcs, Scanning
  <2>5. proc'[p] = r /\ crashes' \in Nat /\ now' = now /\ head' = head /\ items' = items /\ summary' = summary
      BY <1>1, <2>3 DEF IInv, Shape, github
  <2>6. Reads(p)' /\ Holds(p)' /\ Checks(p)'
      BY <1>1, <2>1, <2>2, <2>4, <2>5 DEF Reads, Holds, Checks, Inside, At, Scanning
  <2> QED BY <1>1, <2>1, <2>3, <2>4, <2>5, <2>6, OneWrites
<1> QED BY <1>2, <1>3

\* The comments are looked at: a round of this head, whoever's, is scanned for, from its latest request.
LEMMA CheckRemoteKeeps == ASSUME IInv, NEW p \in Procs, CheckRemote(p) PROVE IInv'
<1> DEFINE asked == Ids("request", proc[p].sha)
           i == Latest(asked)
<1>1. /\ proc[p].pc = "remote" /\ UNCHANGED <<github, lock, file, stolen, crashes>> /\ proc[p] \in Records
      /\ Reads(p) /\ Holds(p) /\ Inside(p) /\ proc[p].at \in Places /\ proc[p].sha <= head
    BY DEF CheckRemote, At, IInv, Shape, Reads, Inside
<1>2. CASE asked = {}
  <2> DEFINE r == [proc[p] EXCEPT !.pc = "baseline"]
  <2>1. proc' = [proc EXCEPT ![p] = r]
      BY <1>2 DEF CheckRemote, To
  <2>2. r \in Records /\ r.pc = "baseline" /\ (r.judged <=> proc[p].judged) /\ r.sha = proc[p].sha /\ r.at = proc[p].at
      BY <1>1 DEF Records, Pcs
  <2>3. Ids("request", r.sha) = {}
      BY <1>2, <2>2
  <2> QED BY <1>1, <2>1, <2>2, <2>3, InsideGoesOn
<1>3. CASE asked # {}
  <2> DEFINE c == [sha |-> proc[p].sha, review |-> 0, issue |-> i, request |-> i, at |-> items[i].at]
             r == [proc[p] EXCEPT !.pc = "scan_head", !.scan = c, !.purpose = "remote", !.found = Nothing]
  <2>1. i \in asked /\ i \in DOMAIN items /\ \A j \in asked : j \in DOMAIN items /\ j <= i
      BY <1>3, LatestItem DEF IInv, Ids
  <2>2. items[i].at \in Nat /\ i \in Nat /\ \A j \in asked : items[j].at <= items[i].at
      BY <2>1, ItemTyped DEF IInv, Numbered, Items
  <2>3. c \in Scans /\ c.request = i /\ c.at = items[i].at /\ c.sha = proc[p].sha
      BY <1>1, <2>2 DEF Scans, Records
  <2>4. proc' = [proc EXCEPT ![p] = r]
      BY <1>3 DEF CheckRemote, Scan
  <2>5. /\ r \in Records /\ r.pc = "scan_head" /\ (r.judged <=> proc[p].judged) /\ r.sha = proc[p].sha
        /\ r.at = proc[p].at /\ r.scan = c /\ r.purpose = "remote"
      BY <1>1, <2>3 DEF Records, Pcs, Scanning
  <2>6. proc'[p] = r /\ crashes' \in Nat /\ now' = now /\ head' = head /\ items' = items /\ summary' = summary
      BY <1>1, <2>4, <2>5, Moved
  <2>7. Reads(p)' /\ Holds(p)'
      BY <1>1, <2>1, <2>3, <2>5, <2>6 DEF Reads, Holds, Inside, At, Scanning
  <2>8. Checks(p)'
      BY <1>1, <2>2, <2>3, <2>5, <2>6 DEF Checks, At, Scanning, Ids
  <2> QED BY <1>1, <2>4, <2>5, <2>6, <2>7, <2>8, OneMoves
<1> QED BY <1>2, <1>3

\* GitHub's list grows by one item, of the second that it is.
LEMMA ItemAdded ==
    ASSUME IInv, NEW it \in Items, it.at = now, it.sha <= head, items' = Append(items, it),
           UNCHANGED <<now, head, summary>>
    PROVE  /\ items' \in Seq(Items) /\ DOMAIN items \subseteq DOMAIN items'
           /\ \A i \in DOMAIN items : items'[i] = items[i]
           /\ \A i \in DOMAIN items' : i \in DOMAIN items \/ (items'[i] = it /\ i = Len(items) + 1)
           /\ Len(items) + 1 \in DOMAIN items'
           /\ \A i \in DOMAIN items : Answered(i) => Answered(i)'
           /\ file' = file => Numbered'
<1>1. items \in Seq(Items) /\ Len(items) \in Nat /\ DOMAIN items = 1 .. Len(items)
    BY DEF IInv, Shape
<1>2. /\ items' \in Seq(Items) /\ DOMAIN items' = 1 .. (Len(items) + 1)
      /\ \A i \in 1 .. Len(items) : items'[i] = items[i]
      /\ items'[Len(items) + 1] = it
    BY <1>1
<1>3. \A i \in DOMAIN items' : i \in DOMAIN items \/ (items'[i] = it /\ i = Len(items) + 1)
    BY <1>1, <1>2
<1>4. DOMAIN items \subseteq DOMAIN items' /\ Len(items) + 1 \in DOMAIN items'
    BY <1>1, <1>2
<1>5. \A i \in DOMAIN items : Answered(i) => Answered(i)'
    BY <1>1, <1>2, <1>4 DEF Answered
<1>6. ASSUME file' = file PROVE Numbered'
  <2>1. Numbered /\ now \in Nat
      BY DEF IInv, Shape
  <2>2. \A i \in DOMAIN items' : items'[i].at <= now /\ items'[i].sha <= head
      BY <1>1, <1>2, <1>3, <2>1 DEF Numbered
  <2>3. ASSUME NEW i \in DOMAIN items', NEW j \in DOMAIN items', i <= j PROVE items'[i].at <= items'[j].at
    <3>1. CASE j \in DOMAIN items
      <4>1. i \in DOMAIN items
          BY <1>1, <1>2, <2>3, <3>1
      <4> QED BY <1>1, <1>2, <2>1, <2>3, <3>1, <4>1 DEF Numbered
    <3>2. CASE items'[j] = it
        BY <2>2, <3>2
    <3> QED BY <1>3, <3>1, <3>2
  <2>4. ASSUME NEW d \in Places, file'[d] # Nothing
        PROVE  file'[d].request \in DOMAIN items' /\ file'[d].at \in {0, items'[file'[d].request].at}
      BY <1>1, <1>2, <1>4, <1>6, <2>1, <2>4 DEF Numbered
  <2> QED BY <2>2, <2>3, <2>4 DEF Numbered
<1> QED BY <1>1, <1>2, <1>3, <1>4, <1>5, <1>6

\* A process that reads on what it knew knows it still when the list has grown: by an answer, or
\* by a request while it is not inside.
LEMMA AddedKeeps ==
    ASSUME IInv, NEW it \in Items, it.at = now, it.sha <= head, items' = Append(items, it),
           UNCHANGED <<now, head, summary, lock, stolen>>, NEW q \in Procs, proc'[q] = proc[q],
           it.kind # "request" \/ stolen \/ ~Inside(q)
    PROVE  Reads(q)' /\ Holds(q)' /\ Checks(q)'
<1>1. /\ DOMAIN items \subseteq DOMAIN items'
      /\ \A i \in DOMAIN items : items'[i] = items[i]
      /\ \A i \in DOMAIN items' : i \in DOMAIN items \/ (items'[i] = it /\ i = Len(items) + 1)
      /\ \A i \in DOMAIN items : Answered(i) => Answered(i)'
    BY ItemAdded
<1>2. Reads(q) /\ Holds(q) /\ Checks(q) /\ proc[q] \in Records
    BY DEF IInv, Shape
<1>3. Reads(q)' /\ Holds(q)'
    BY <1>1, <1>2 DEF Reads, Holds, Inside, At, Scanning
<1>4. CASE ~Inside(q)
    BY <1>2, <1>3, <1>4 DEF Checks, Inside, At, Scanning
<1>5. CASE it.kind # "request"
  <2>1. ASSUME NEW i \in DOMAIN items', items'[i].kind = "request" PROVE i \in DOMAIN items /\ items'[i] = items[i]
      BY <1>1, <1>5, <2>1
  <2>2. ASSUME NEW i \in Ids("request", proc[q].sha)' PROVE i \in Ids("request", proc[q].sha) /\ items'[i] = items[i]
      BY <2>1 DEF Ids
  <2>3. Settled(proc[q].sha) => Settled(proc[q].sha)'
      BY <1>1, <2>2 DEF Settled, Ids
  <2>4. Checks(q)'
      BY <1>2, <2>1, <2>2, <2>3 DEF Checks, At
  <2> QED BY <1>3, <2>4
<1>6. CASE stolen
    BY <1>3, <1>6 DEF Checks
<1> QED BY <1>3, <1>4, <1>5, <1>6

\* The latest review so far is read; the head then once more.
LEMMA ReadBaselineKeeps == ASSUME IInv, NEW p \in Procs, ReadBaseline(p) PROVE IInv'
<1> DEFINE base == Max({i \in DOMAIN items : items[i].kind = "review"} \cup {0})
           r == [proc[p] EXCEPT !.pc = "rechecking", !.base = base]
<1>1. base \in Nat
  <2> DEFINE S == {i \in DOMAIN items : items[i].kind = "review"}
             T == {i + 1 : i \in S \cup {0}}
  <2>1. S \subseteq 1 .. Len(items) /\ Len(items) \in Nat
      BY DEF IInv, Shape
  <2>2. \A i \in S \cup {0} : i \in Nat /\ i <= Len(items)
      BY <2>1
  <2>3. T \subseteq 1 .. (Len(items) + 1) /\ T # {}
      BY <2>1, <2>2
  <2>0. Len(items) + 1 \in Nat
      BY <2>1
  <2>4. Latest(T) \in T /\ \A i \in T : i <= Latest(T)
      BY <2>0, <2>3, LatestIsOne
  <2>5. PICK m \in S \cup {0} : Latest(T) = m + 1
      BY <2>4
  <2>6. \A i \in S \cup {0} : i + 1 <= m + 1
      BY <2>4, <2>5
  <2>7. \A i \in S \cup {0} : m >= i
      BY <2>2, <2>6
  <2>8. base \in S \cup {0}
      BY <2>7 DEF Max
  <2> QED BY <2>2, <2>8
<1>2. /\ proc[p].pc = "baseline" /\ UNCHANGED <<github, lock, file, stolen, crashes>> /\ proc[p] \in Records
      /\ Reads(p) /\ Holds(p) /\ Checks(p) /\ proc' = [proc EXCEPT ![p] = r]
    BY DEF ReadBaseline, At, IInv, Shape
<1>3. r \in Records /\ r.pc = "rechecking" /\ (r.judged <=> proc[p].judged) /\ r.sha = proc[p].sha /\ r.at = proc[p].at
    BY <1>1, <1>2 DEF Records, Pcs
<1>4. proc'[p] = r /\ crashes' \in Nat /\ now' = now /\ head' = head /\ items' = items /\ summary' = summary
    BY <1>2, <1>3, Moved
<1>5. Reads(p)' /\ Holds(p)'
    BY <1>2, <1>3, <1>4 DEF Reads, Holds, Inside, At, Scanning
<1>6. Checks(p)'
    BY <1>2, <1>3, <1>4 DEF Checks, At, Scanning, Settled, Answered, Ids
<1> QED BY <1>2, <1>3, <1>4, <1>5, <1>6, OneMoves

\* With the head still the one asked about, there is no request for a later one.
LEMMA RecheckKeeps == ASSUME IInv, NEW p \in Procs, Recheck(p) PROVE IInv'
<1> DEFINE r == [proc[p] EXCEPT !.pc = "posting"]
<1>1. /\ proc[p].pc = "rechecking" /\ UNCHANGED <<github, lock, file, stolen, crashes>> /\ proc[p] \in Records
      /\ Reads(p) /\ Holds(p) /\ Checks(p) /\ Numbered /\ Inside(p)
    BY DEF Recheck, At, IInv, Shape, Inside
<1>2. CASE head # proc[p].sha
    BY <1>1, <1>2, LeavesKeeps DEF Recheck
<1>3. CASE head = proc[p].sha
  <2>1. proc' = [proc EXCEPT ![p] = r]
      BY <1>3 DEF Recheck, To
  <2>2. r \in Records /\ r.pc = "posting" /\ (r.judged <=> proc[p].judged) /\ r.sha = proc[p].sha /\ r.at = proc[p].at
      BY <1>1 DEF Records, Pcs
  <2>3. proc'[p] = r /\ crashes' \in Nat /\ now' = now /\ head' = head /\ items' = items /\ summary' = summary
        /\ stolen' = stolen
      BY <1>1, <2>1, <2>2, Moved
  <2>4. Reads(p)' /\ Holds(p)'
      BY <1>1, <2>2, <2>3 DEF Reads, Holds, Inside, At, Scanning
  <2>5. (stolen \/ Settled(proc[p].sha)) /\ \A i \in DOMAIN items : items[i].sha <= proc[p].sha
      BY <1>1, <1>3 DEF Checks, Numbered
  <2>6. Checks(p)'
      BY <2>2, <2>3, <2>5 DEF Checks, At, Scanning, Settled, Answered, Ids
  <2> QED BY <1>1, <2>1, <2>2, <2>3, <2>4, <2>6, OneMoves
<1> QED BY <1>2, <1>3

\* What the process that posts does to where it stands.
LEMMA PostMoves ==
    ASSUME IInv, NEW p \in Procs, Post(p), items' # items
    PROVE  /\ proc[p].pc = "posting" /\ Inside(p) /\ UNCHANGED <<now, head, summary, lock, file, stolen, crashes>>
           /\ items' = Append(items, [kind |-> "request", sha |-> proc[p].sha, at |-> now])
           /\ [kind |-> "request", sha |-> proc[p].sha, at |-> now] \in Items
           /\ \A q \in Procs : q # p => proc'[q] = proc[q]
           /\ proc' \in [Procs -> Records] /\ proc'[p].sha <= head /\ (proc'[p].judged => proc[p].judged)
           /\ \/ proc'[p].pc = "leaving"
              \/ proc'[p].pc = "saving" /\ proc'[p].at \in Places /\ proc'[p].request = Len(items) + 1
<1>1. /\ proc[p] \in Records /\ Reads(p) /\ proc \in [Procs -> Records] /\ head \in Nat /\ Len(items) \in Nat
      /\ now \in Nat \ {0}
    BY DEF IInv, Shape
<1>2. /\ proc[p].pc = "posting" /\ Inside(p) /\ UNCHANGED <<now, head, summary, lock, file, stolen, crashes>>
      /\ items' = Append(items, [kind |-> "request", sha |-> proc[p].sha, at |-> now])
      /\ \/ proc' = [proc EXCEPT ![p] = [proc[p] EXCEPT !.pc = "saving", !.request = Len(items) + 1]]
         \/ proc' = [proc EXCEPT ![p] = Leaving]
    BY DEF Post, At, Leaves, Inside
<1>3. [kind |-> "request", sha |-> proc[p].sha, at |-> now] \in Items
    BY <1>1 DEF Items, Kinds, Records
<1>4. CASE proc' = [proc EXCEPT ![p] = Leaving]
    BY <1>1, <1>2, <1>3, <1>4, IdleTyped
<1>5. CASE proc' = [proc EXCEPT ![p] = [proc[p] EXCEPT !.pc = "saving", !.request = Len(items) + 1]]
  <2> DEFINE r == [proc[p] EXCEPT !.pc = "saving", !.request = Len(items) + 1]
  <2>0. Len(items) + 1 \in Nat
      BY <1>1
  <2>1. /\ r \in Records /\ r.pc = "saving" /\ r.at = proc[p].at /\ r.sha = proc[p].sha
        /\ (r.judged <=> proc[p].judged) /\ r.request = Len(items) + 1
      BY <1>1, <2>0, Asks
  <2>2. proc'[p] = r /\ proc' \in [Procs -> Records] /\ \A q \in Procs : q # p => proc'[q] = proc[q]
      BY <1>1, <1>5, <2>1
  <2>3. proc[p].at \in Places /\ proc[p].sha <= head
      BY <1>1, <1>2 DEF Reads
  <2> QED BY <1>2, <1>3, <2>1, <2>2, <2>3
<1> QED BY <1>2, <1>4, <1>5

\* The request is posted, and known here or not; nobody else is inside.
LEMMA PostKeeps == ASSUME IInv, NEW p \in Procs, Post(p) PROVE IInv'
<1>1. CASE items' = items
  <2>1. /\ Inside(p) /\ UNCHANGED <<now, head, summary, lock, file, stolen, crashes>> /\ Len(items) \in Nat
        /\ Leaves(p) \/ items' = Append(items, [kind |-> "request", sha |-> proc[p].sha, at |-> now])
      BY DEF Post, Inside, At, IInv, Shape
  <2>2. ASSUME items' = Append(items, [kind |-> "request", sha |-> proc[p].sha, at |-> now]) PROVE FALSE
    <3>1. Len(items') = Len(items) + 1
        BY <2>2 DEF IInv, Shape
    <3> QED BY <1>1, <2>1, <3>1
  <2> QED BY <1>1, <2>1, <2>2, LeavesKeeps DEF github
<1>2. CASE items' # items
  <2> DEFINE it == [kind |-> "request", sha |-> proc[p].sha, at |-> now]
  <2>1. /\ proc[p].pc = "posting" /\ Inside(p) /\ UNCHANGED <<now, head, summary, lock, file, stolen, crashes>>
        /\ items' = Append(items, it) /\ it \in Items
        /\ \A q \in Procs : q # p => proc'[q] = proc[q]
        /\ proc' \in [Procs -> Records] /\ proc'[p].sha <= head /\ (proc'[p].judged => proc[p].judged)
        /\ \/ proc'[p].pc = "leaving"
           \/ proc'[p].pc = "saving" /\ proc'[p].at \in Places /\ proc'[p].request = Len(items) + 1
      BY <1>2, PostMoves
  <2>2. it.at = now /\ it.sha <= head
      BY DEF IInv, Reads
  <2>3. Numbered' /\ items' \in Seq(Items) /\ Len(items) + 1 \in DOMAIN items'
      BY <2>1, <2>2, ItemAdded
  <2>4. Shape'
      BY <2>1, <2>3 DEF IInv, Shape
  <2>5. ASSUME NEW q \in Procs, q # p PROVE Reads(q)' /\ Holds(q)' /\ Checks(q)'
    <3>1. stolen \/ ~Inside(q)
        BY <2>1, <2>5 DEF IInv, Holds
    <3> QED BY <2>1, <2>2, <2>5, <3>1, AddedKeeps
  <2>6. Reads(p)'
      BY <2>1, <2>3 DEF Reads, Scanning
  <2>7. Holds(p)' /\ Checks(p)'
      BY <2>1 DEF IInv, Holds, Checks, Inside, At, Scanning
  <2> QED BY <2>3, <2>4, <2>5, <2>6, <2>7 DEF IInv
<1> QED BY <1>1, <1>2

\* The state file names the comment, at first without its time ...
LEMMA SaveKeeps == ASSUME IInv, NEW p \in Procs, Save(p) PROVE IInv'
<1> DEFINE s == [sha |-> proc[p].sha, review |-> proc[p].base, request |-> proc[p].request, at |-> 0]
           r == [proc[p] EXCEPT !.pc = "timing"]
<1>1. /\ proc[p].pc = "saving" /\ UNCHANGED <<github, lock, stolen, crashes>> /\ proc[p] \in Records
      /\ Reads(p) /\ Holds(p) /\ proc[p].at \in Places /\ proc[p].request \in DOMAIN items
      /\ file' = [file EXCEPT ![proc[p].at] = s] /\ proc' = [proc EXCEPT ![p] = r] /\ crashes' \in Nat
    BY DEF Save, At, To, IInv, Shape, Reads
<1>2. s \in States /\ s.request = proc[p].request /\ s.at = 0
    BY <1>1 DEF States, Records
<1>3. /\ r \in Records /\ r.pc = "timing" /\ (r.judged <=> proc[p].judged) /\ r.sha = proc[p].sha /\ r.at = proc[p].at
      /\ r.request = proc[p].request
    BY <1>1 DEF Records, Pcs
<1>4. proc'[p] = r /\ head' = head /\ items' = items
    BY <1>1 DEF IInv, Shape, github
<1>5. Reads(p)' /\ Holds(p)' /\ Checks(p)'
    BY <1>1, <1>3, <1>4 DEF Reads, Holds, Checks, Inside, At, Scanning
<1> QED BY <1>1, <1>2, <1>3, <1>4, <1>5, OneWrites

\* ... then with it.
LEMMA SaveTimeKeeps == ASSUME IInv, NEW p \in Procs, SaveTime(p) PROVE IInv'
<1> DEFINE s == [sha |-> proc[p].sha, review |-> proc[p].base, request |-> proc[p].request,
                 at |-> items[proc[p].request].at]
<1>1. /\ proc[p].pc = "timing" /\ UNCHANGED <<github, lock, stolen, crashes>> /\ proc[p] \in Records
      /\ Reads(p) /\ Holds(p) /\ proc[p].at \in Places /\ proc[p].request \in DOMAIN items /\ Inside(p)
      /\ file' = [file EXCEPT ![proc[p].at] = s] \/ file' = file
      /\ Leaves(p) /\ crashes' \in Nat /\ head \in Nat
    BY DEF SaveTime, At, IInv, Shape, Reads, Inside
<1>2. CASE file' = file
    BY <1>1, <1>2, LeavesKeeps
<1>3. CASE file' = [file EXCEPT ![proc[p].at] = s]
  <2>1. items[proc[p].request].at \in Nat
      BY <1>1, ItemTyped DEF IInv, Items
  <2>2. s \in States /\ s.request = proc[p].request /\ s.at = items[s.request].at
      BY <1>1, <2>1 DEF States, Records
  <2>3. proc' = [proc EXCEPT ![p] = Leaving] /\ proc'[p] = Leaving /\ head' = head
      BY <1>1 DEF Leaves, IInv, Shape, github
  <2>4. Reads(p)' /\ Holds(p)' /\ Checks(p)'
      BY <1>1, <2>3, IdleTyped DEF Reads, Holds, Checks, Inside, At, Scanning
  <2> QED BY <1>1, <1>3, <2>2, <2>3, <2>4, IdleTyped, OneWrites
<1> QED BY <1>1, <1>2, <1>3

-------------------------------------------------------------------------------
(* A watch *)

LEMMA WatchKeeps == ASSUME IInv, NEW p \in Procs, Watch(p) PROVE IInv'
<1>1. PICK d \in Places :
        /\ file[d] # Nothing
        /\ proc' = [proc EXCEPT ![p] = [Idle EXCEPT !.at = d, !.scan = StateScan(file[d]), !.purpose = "watch",
                                                    !.pc = IF file[d].at = 0 THEN "recovering" ELSE "watching"]]
    BY DEF Watch
<1> DEFINE c == StateScan(file[d])
           r == [Idle EXCEPT !.at = d, !.scan = c, !.purpose = "watch",
                             !.pc = IF file[d].at = 0 THEN "recovering" ELSE "watching"]
<1>2. /\ file[d] \in States /\ file[d].request \in DOMAIN items /\ file[d].at \in {0, items[file[d].request].at}
      /\ Holds(p) /\ proc[p].pc = "idle" /\ UNCHANGED <<github, lock, file, stolen, crashes>> /\ head \in Nat
    BY <1>1 DEF IInv, Shape, Numbered, Watch, At
<1>3. c \in Scans /\ c.request = file[d].request /\ c.at = file[d].at
    BY <1>2 DEF StateScan, Scans, States
<1>4. /\ r \in Records /\ r.pc \in {"recovering", "watching"} /\ ~r.judged /\ r.sha = 0 /\ r.at = d /\ r.scan = c
      /\ r.pc = "watching" => c.at # 0
    BY <1>3 DEF Idle, Records, Pcs, NoScan, Scans
<1>5. proc'[p] = r /\ crashes' \in Nat /\ now' = now /\ head' = head /\ items' = items /\ summary' = summary
    BY <1>1, <1>2, <1>4, Moved
<1>6. Reads(p)' /\ Holds(p)' /\ Checks(p)'
    BY <1>2, <1>3, <1>4, <1>5 DEF Reads, Holds, Checks, Inside, At, Scanning
<1> QED BY <1>1, <1>2, <1>4, <1>5, <1>6, OneMoves

\* The time a watch recovers is the comment's, and goes into the state file with what it read there.
LEMMA RecoverKeeps == ASSUME IInv, NEW p \in Procs, Recover(p) PROVE IInv'
<1> DEFINE c == proc[p].scan
           at == items[c.request].at
           s == [sha |-> c.sha, review |-> c.review, request |-> c.request, at |-> at]
           r == [proc[p] EXCEPT !.pc = "watching", !.scan.at = at]
<1>1. /\ proc[p].pc = "recovering" /\ UNCHANGED <<github, lock, stolen, crashes>> /\ proc[p] \in Records
      /\ Reads(p) /\ Holds(p) /\ proc[p].at \in Places /\ c.request \in DOMAIN items /\ c \in Scans
      /\ crashes' \in Nat
    BY DEF Recover, At, IInv, Shape, Reads, Records
<1>4. file' = [file EXCEPT ![proc[p].at] = s] /\ proc' = [proc EXCEPT ![p] = r]
    BY DEF Recover
<1>2. at \in Nat
    BY <1>1, ItemTyped DEF IInv, Items
<1>3. s \in States /\ s.request = c.request /\ s.at = items[s.request].at
    BY <1>1, <1>2 DEF States, Scans
<1>5. /\ r \in Records /\ r.pc = "watching" /\ (r.judged <=> proc[p].judged) /\ r.sha = proc[p].sha
      /\ r.at = proc[p].at /\ r.scan.request = c.request /\ r.scan.at = at
    BY <1>1, <1>2 DEF Records, Pcs, Scans
<1>6. proc'[p] = r /\ head' = head /\ items' = items
    BY <1>1, <1>4 DEF IInv, Shape, github
<1>7. Reads(p)' /\ Holds(p)' /\ Checks(p)'
    BY <1>1, <1>5, <1>6 DEF Reads, Holds, Checks, Inside, At, Scanning
<1> QED BY <1>1, <1>3, <1>4, <1>5, <1>7, OneWrites

LEMMA WatchAgainKeeps == ASSUME IInv, NEW p \in Procs, WatchAgain(p) PROVE IInv'
<1> DEFINE r == [proc[p] EXCEPT !.pc = "scan_head", !.scan = proc[p].scan, !.purpose = "watch", !.found = Nothing]
<1>1. /\ proc[p].pc = "watching" /\ UNCHANGED <<github, lock, file, stolen, crashes>> /\ proc[p] \in Records
      /\ Reads(p) /\ Holds(p)
      /\ proc' = [proc EXCEPT ![p] = r] \/ proc' = [proc EXCEPT ![p] = Idle]
    BY DEF WatchAgain, Scan, At, IInv, Shape
<1>2. CASE proc' = [proc EXCEPT ![p] = Idle]
  <2>1. Idle.sha <= head /\ crashes' \in Nat
      BY <1>1, IdleTyped DEF IInv, Shape
  <2> QED BY <1>1, <1>2, <2>1, IdleTyped, Outside DEF At
<1>3. CASE proc' = [proc EXCEPT ![p] = r]
  <2>1. /\ r \in Records /\ r.pc = "scan_head" /\ (r.judged <=> proc[p].judged) /\ r.sha = proc[p].sha
        /\ r.at = proc[p].at /\ r.scan = proc[p].scan /\ r.purpose = "watch"
      BY <1>1 DEF Records, Pcs, Scanning
  <2>2. proc'[p] = r /\ crashes' \in Nat /\ now' = now /\ head' = head /\ items' = items /\ summary' = summary
      BY <1>1, <1>3, <2>1, Moved
  <2>3. Reads(p)' /\ Holds(p)' /\ Checks(p)'
      BY <1>1, <2>1, <2>2 DEF Reads, Holds, Checks, Inside, At, Scanning
  <2> QED BY <1>1, <1>3, <2>1, <2>2, <2>3, OneMoves
<1> QED BY <1>1, <1>2, <1>3

LEMMA ExitKeeps == ASSUME IInv, NEW p \in Procs, Exit(p) PROVE IInv'
<1>1. Idle.sha <= head /\ crashes' \in Nat
    BY IdleTyped DEF Exit, IInv, Shape
<1> QED BY <1>1, IdleTyped, Outside DEF Exit, At

-------------------------------------------------------------------------------
(* GitHub *)

\* Time goes on, a head is pushed: what was settled is.
LEMMA TickKeeps == ASSUME IInv, Tick \/ Push, UNCHANGED <<lock, file, proc, stolen, crashes>> PROVE IInv'
<1>1. /\ now \in Nat \ {0} /\ head \in Nat \ {0} /\ STALE \in Nat /\ UNCHANGED <<items, summary>>
      /\ \/ now' = now + 1 /\ head' = head
         \/ now' = now /\ head' = head + 1
    BY ReviewAssumption DEF ReviewAssumption, IInv, Shape, Tick, Push
<1>2. Shape'
    BY <1>1 DEF IInv, Shape
<1>3. \A i \in DOMAIN items : items[i].at \in Nat /\ items[i].sha \in Nat
    BY ItemTyped DEF IInv, Items
<1>4. Numbered'
    BY <1>1, <1>3 DEF IInv, Numbered
<1>5. ASSUME NEW q \in Procs PROVE Reads(q)' /\ Holds(q)' /\ Checks(q)'
  <2>1. Reads(q) /\ Holds(q) /\ Checks(q) /\ proc[q] \in Records /\ proc[q].sha \in Nat
      BY DEF IInv, Shape, Records
  <2>2. Reads(q)' /\ Holds(q)'
      BY <1>1, <2>1 DEF Reads, Holds, Inside, At
  <2>3. \A i \in DOMAIN items : (Answered(i)' <=> Answered(i)) /\ (now - items[i].at >= STALE => now' - items[i].at >= STALE)
      BY <1>1, <1>3 DEF Answered
  <2>4. Settled(proc[q].sha) => Settled(proc[q].sha)'
      BY <1>1, <2>3 DEF Settled, Ids
  <2>5. head' = proc[q].sha => head = proc[q].sha
      BY <1>1, <2>1 DEF Reads
  <2>6. Checks(q)'
      BY <1>1, <2>1, <2>4, <2>5 DEF Checks, At, Ids
  <2> QED BY <2>2, <2>6
<1> QED BY <1>2, <1>4, <1>5 DEF IInv

\* A verdict is given.
LEMMA AnswerKeeps ==
    ASSUME IInv, NEW sha \in 1 .. head, Answer(sha), UNCHANGED <<lock, file, proc, stolen, crashes>>
    PROVE  IInv'
<1>1. PICK kind \in {"review", "clean", "failure"} : items' = Append(items, [kind |-> kind, sha |-> sha, at |-> now])
    BY DEF Answer
<1> DEFINE it == [kind |-> kind, sha |-> sha, at |-> now]
<1>2. it \in Items /\ it.at = now /\ it.sha <= head /\ it.kind # "request" /\ items' = Append(items, it)
    BY <1>1 DEF IInv, Shape, Items, Kinds
<1>3. UNCHANGED <<now, head, summary>>
    BY DEF Answer
<1>4. items' \in Seq(Items) /\ Numbered'
    BY <1>2, <1>3, ItemAdded
<1>5. Shape'
    BY <1>3, <1>4 DEF IInv, Shape
<1>6. ASSUME NEW q \in Procs PROVE Reads(q)' /\ Holds(q)' /\ Checks(q)'
    BY <1>2, <1>3, AddedKeeps
<1> QED BY <1>4, <1>5, <1>6 DEF IInv

\* The summary's marker moves on to a later head: no process that is about to post asks about the
\* head it leaves, since there is a request for the later one.
LEMMA SummariseKeeps ==
    ASSUME IInv, NEW sha \in 1 .. head, Summarise(sha), UNCHANGED <<lock, file, proc, stolen, crashes>>
    PROVE  IInv'
<1>1. /\ UNCHANGED <<now, head, items>> /\ summary' = [sha |-> sha, at |-> now] /\ sha > summary.sha
      /\ summary \in [sha : Nat, at : Nat] /\ now \in Nat /\ head \in Nat
    BY DEF Summarise, IInv, Shape
<1>2. PICK k \in DOMAIN items : items[k].kind = "request" /\ items[k].sha = sha
    BY DEF Summarise, Ids
<1>3. Shape' /\ Numbered'
    BY <1>1 DEF IInv, Shape, Numbered
<1>4. ASSUME NEW q \in Procs PROVE Reads(q)' /\ Holds(q)' /\ Checks(q)'
  <2>1. Reads(q) /\ Holds(q) /\ Checks(q) /\ proc[q] \in Records /\ proc[q].sha \in Nat
      BY DEF IInv, Shape, Records
  <2>2. Reads(q)' /\ Holds(q)'
      BY <1>1, <2>1 DEF Reads, Holds, Inside, At
  <2>3. ASSUME proc[q].sha >= sha, NEW i \in Ids("request", proc[q].sha), Answered(i) PROVE Answered(i)'
    <3>1. summary.sha # items[i].sha
        BY <1>1, <2>1, <2>3 DEF Ids
    <3> QED BY <1>1, <2>3, <3>1 DEF Answered
  <2>4. proc[q].sha >= sha /\ Settled(proc[q].sha) => Settled(proc[q].sha)'
      BY <1>1, <2>3 DEF Settled, Ids
  <2>5. Checks(q)'
      BY <1>1, <1>2, <2>1, <2>4 DEF Checks, At, Ids
  <2> QED BY <2>2, <2>5
<1> QED BY <1>1, <1>3, <1>4 DEF IInv

LEMMA GitHubKeeps == ASSUME IInv, GitHub PROVE IInv'
BY TickKeeps, AnswerKeeps, SummariseKeeps DEF GitHub

-------------------------------------------------------------------------------
(* The theorems *)

LEMMA InitIInv == Init => IInv
<1> SUFFICES ASSUME Init PROVE IInv
    OBVIOUS
<1>1. Shape
  <2>1. items \in Seq(Items)
      BY DEF Init
  <2>2. proc \in [Procs -> Records] /\ file \in [Places -> States \cup {Nothing}]
      BY IdleTyped DEF Init
  <2>3. now \in Nat \ {0} /\ head \in Nat \ {0} /\ crashes \in Nat
      BY DEF Init
  <2>4. summary \in [sha : Nat, at : Nat]
      BY DEF Init
  <2>5. stolen \in BOOLEAN
      BY DEF Init
  <2> QED BY <2>1, <2>2, <2>3, <2>4, <2>5 DEF Init, Shape
<1>2. Numbered
    BY DEF Init, Numbered
<1>3. ASSUME NEW p \in Procs PROVE Reads(p) /\ Holds(p) /\ Checks(p)
    BY IdleTyped DEF Init, Reads, Holds, Checks, Inside, At, Scanning
<1> QED BY <1>1, <1>2, <1>3 DEF IInv

LEMMA NextIInv == IInv /\ [Next]_vars => IInv'
<1> SUFFICES ASSUME IInv, [Next]_vars PROVE IInv'
    OBVIOUS
<1>1. CASE UNCHANGED vars
  <2>1. Shape' /\ Numbered'
      BY <1>1 DEF vars, github, IInv, Shape, Numbered
  <2>2. ASSUME NEW q \in Procs PROVE Reads(q)' /\ Holds(q)' /\ Checks(q)'
      BY <1>1, OthersKeep DEF vars, github, IInv
  <2> QED BY <2>1, <2>2 DEF IInv
<1>2. CASE Next
  <2>2. CASE GitHub
      BY <2>2, GitHubKeeps
  <2>3. ASSUME NEW p \in Procs, Step(p) PROVE IInv'
      BY <2>3, RequestKeeps, MakeLockKeeps, OwnLockKeeps, WaitForLockKeeps, JudgeLockKeeps, UnlinkKeeps,
         RemoveDirKeeps, ReleaseLockKeeps, CrashKeeps, ScanHeadKeeps, ScanReviewsKeeps, ScanIssuesKeeps,
         ScanAgainKeeps, ScanFailsKeeps, CheckStateKeeps, CheckRemoteKeeps, ReadBaselineKeeps, RecheckKeeps,
         PostKeeps, SaveKeeps, SaveTimeKeeps, WatchKeeps, RecoverKeeps, WatchAgainKeeps, ExitKeeps DEF Step
  <2> QED BY <1>2, <2>2, <2>3 DEF Next
<1> QED BY <1>1, <1>2

\* In every state the review processes can reach the invariant holds: its types, whose the lock is,
\* what was asked for which head and how far each summary has come.
THEOREM ReviewInductive == Spec => []IInv
BY InitIInv, NextIInv, PTL DEF Spec

\* Two processes are never both inside git_common_lock, however many there are and whichever died,
\* as long as no reclaimer took away a lock made after the one it judged.
THEOREM LockAlwaysExcludes == Spec => []LockExcludes
<1>1. IInv => LockExcludes
    BY DEF IInv, Holds, LockExcludes
<1> QED BY <1>1, ReviewInductive, PTL

\* A verdict a watch returns is not older than the request its state file names.
THEOREM VerdictAlwaysIsItsRounds == Spec => []VerdictIsItsRounds
<1>1. IInv => VerdictIsItsRounds
  <2> SUFFICES ASSUME IInv, NEW p \in Procs, At(p, "told")
               PROVE  proc[p].found >= items[proc[p].scan.request].at
      BY DEF VerdictIsItsRounds
  <2> QED BY DEF IInv, Reads, At
<1> QED BY <1>1, ReviewInductive, PTL

\* No step posts a request for a head while one for it is unanswered and younger than the stale bound,
\* as long as no reclaimer has taken a lock made after the one it judged.
THEOREM EachHeadAskedOnce == Spec => AskedOnce
<1>1. ASSUME IInv, [Next]_vars PROVE stolen \/ AsksOfRight
  <2>1. CASE items' = items
      BY <2>1 DEF AsksOfRight
  <2>2. ASSUME NEW p \in Procs, Post(p), ~stolen, items' # items PROVE AsksOfRight
    <3> DEFINE it == [kind |-> "request", sha |-> proc[p].sha, at |-> now]
    <3>1. proc[p].pc = "posting" /\ items' = Append(items, it) /\ Checks(p)
        BY <1>1, <2>2, PostMoves DEF IInv
    <3>2. ASSUME NEW j \in DOMAIN items' \ DOMAIN items PROVE items'[j] = it
        BY <1>1, <3>1, <3>2 DEF IInv, Shape
    <3>3. Settled(proc[p].sha)
        BY <2>2, <3>1 DEF Checks, At
    <3> QED BY <3>1, <3>2, <3>3 DEF AsksOfRight, Settled, Ids
  <2>3. ASSUME NEW sha, Answer(sha) PROVE AsksOfRight
    <3>1. PICK kind \in {"review", "clean", "failure"} : items' = Append(items, [kind |-> kind, sha |-> sha, at |-> now])
        BY <2>3 DEF Answer
    <3>2. ASSUME NEW j \in DOMAIN items' \ DOMAIN items PROVE items'[j].kind # "request"
        BY <1>1, <3>1, <3>2 DEF IInv, Shape
    <3> QED BY <3>2 DEF AsksOfRight
  <2>4. \/ items' = items
        \/ \E sha \in 1 .. head : Answer(sha)
        \/ \E p \in Procs : Post(p)
      BY <1>1 DEF Next, Step, GitHub, Tick, Push, Summarise, vars, github, Request, MakeLock, OwnLock, WaitForLock,
         JudgeLock, Unlink, RemoveDir, ReleaseLock, Crash, ScanHead, ScanReviews, ScanIssues, ScanAgain, ScanFails,
         CheckState, CheckRemote, ReadBaseline, Recheck, Save, SaveTime, Watch, Recover, WatchAgain, Exit
  <2> QED BY <2>1, <2>2, <2>3, <2>4
<1> QED BY <1>1, ReviewInductive, PTL DEF Spec, AskedOnce
================================================================================
