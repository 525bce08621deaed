---------------------------- MODULE SharedOpenProofs ----------------------------
(***************************************************************************)
(* Theorems about the registry of shared wires, for any number of threads, *)
(* specs and generations.                                                  *)
(***************************************************************************)
EXTENDS SharedOpen, FiniteSetTheorems, TLAPS

Finishing  == {"finish", "closing_raw", "removing"}
Attempting == {"making", "reconciling"}

\* The threads whose handle a generation's refs counts.
Holds(o, g) ==
    /\ opener[o].gen = g
    /\ \/ opener[o].pc \in {"open", "admit", "await", "release"}
       \/ opener[o].pc \in Finishing /\ opener[o].after = "await"
       \/ opener[o].pc = "settle" /\ ~entry[g].failure

Holders(g) == {o \in Openers : Holds(o, g)}

\* TypeOK with refs any integer, and no reference to a generation not yet started.
Shape ==
    /\ registry \in 0 .. gens /\ gens \in 0 .. MaxGens
    /\ entry \in [Gens -> Entries(Int)] /\ reader \in [Gens -> ReaderPcs]
    /\ opener \in [Openers -> Threads]
    /\ \A o \in Openers : opener[o].gen <= gens /\ opener[o].waited <= gens

\* Where a thread stands tells the state of the generation it stands in.
Standing ==
    \A o \in Openers :
        LET p == opener[o].pc
            g == opener[o].gen
        IN  /\ p \in Attempting \cup Finishing \cup {"settle", "open", "admit", "await", "release", "await_reader"}
                    => g \in Gens
            /\ p \in Attempting => entry[g].state = "opening" /\ ~entry[g].raw_closed /\ reader[g] = "none"
            /\ p = "reconciling" => entry[g].driver = "open"
            /\ p \in Finishing => /\ opener[o].after \in {"settle", "await", "close"}
                                  /\ entry[g].state \notin {"none", "opening", "running"}
            /\ p \in Finishing /\ opener[o].after = "settle" => entry[g].failure /\ reader[g] = "none"
            /\ p = "settle" => entry[g].state \notin {"none", "opening"}
            /\ p = "release" => opener[o].after \in {"loop", "idle"}
            /\ p = "await_reader" => opener[o].after = "close" /\ entry[g].state \notin {"none", "opening", "running"}
            /\ p = "settling" => opener[o].waited \in Gens
            /\ Holds(o, g) => entry[g].state \notin {"none", "opening"} /\ entry[g].driver # "none"

\* One thread makes each generation.
Makes(o) == \/ opener[o].pc \in Attempting
            \/ opener[o].pc \in Finishing /\ opener[o].after = "settle"

OneMaker == \A o, p \in Openers : opener[o].gen = opener[p].gen /\ Makes(o) /\ Makes(p) => o = p

\* What the state of a generation says about its other fields and its reader.
Lives ==
    \A g \in Gens :
        /\ g > gens => entry[g].state = "none"
        /\ entry[g].state \in {"none", "opening"} => reader[g] = "none" /\ entry[g].refs = 0
        /\ entry[g].state \in {"opening", "running"} => registry = g
        /\ entry[g].state = "running" => entry[g].driver # "none"
        /\ entry[g].state = "closing" => entry[g].refs = 0
        /\ entry[g].failure => /\ entry[g].state \notin {"none", "opening", "running"}
                               /\ entry[g].refs = 0 /\ reader[g] = "none"
        /\ reader[g] \in {"finish", "closing_raw", "removing", "exited"} =>
                entry[g].state \notin {"none", "opening", "running"}

\* refs counts the handles that are out, exactly.
Counted == \A g \in Gens : entry[g].refs = Cardinality(Holders(g))

IInv == Shape /\ Standing /\ OneMaker /\ Lives /\ Counted

-------------------------------------------------------------------------------
(* A driver leaves the registry only once somebody has claimed to close it. *)

InUse ==
    /\ \A g \in Gens :
        /\ entry[g].driver = "open" => registry = g
        /\ entry[g].raw_closed => entry[g].driver # "open"
        /\ reader[g] = "removing" => entry[g].driver # "open"
    /\ \A o \in Openers : opener[o].pc = "removing" => entry[opener[o].gen].driver # "open"

-------------------------------------------------------------------------------
(* Counting the handles that are out *)

\* A step that changes no refs and no thread's hold keeps the count.
LEMMA SameHolders ==
    ASSUME Counted,
           \A g \in Gens : entry'[g].refs = entry[g].refs,
           \A o \in Openers, g \in Gens : Holds(o, g)' <=> Holds(o, g)
    PROVE  Counted'
<1>1. \A g \in Gens : Holders(g)' = Holders(g)
  BY DEF Holders
<1>2. QED
  BY <1>1 DEF Counted

\* A join, or the first handle: one more thread holds the generation, and refs is one more.
LEMMA OneMore ==
    ASSUME Counted, NEW o \in Openers, NEW g \in Gens, ~Holds(o, g),
           \A h \in Gens : entry'[h].refs = IF h = g THEN entry[h].refs + 1 ELSE entry[h].refs,
           \A p \in Openers, h \in Gens : Holds(p, h)' <=> (Holds(p, h) \/ (p = o /\ h = g))
    PROVE  Counted'
<1>1. \A h \in Gens : IsFiniteSet(Holders(h))
  BY FS_Subset, OpenAssumption DEF Holders
<1>2. Holders(g)' = Holders(g) \cup {o} /\ o \notin Holders(g)
  BY DEF Holders
<1>3. \A h \in Gens \ {g} : Holders(h)' = Holders(h)
  BY DEF Holders
<1>4. Cardinality(Holders(g)') = Cardinality(Holders(g)) + 1
  BY <1>1, <1>2, FS_AddElement
<1>5. QED
  BY <1>3, <1>4 DEF Counted

\* A close: one thread less, and refs is one less.
LEMMA OneLess ==
    ASSUME Counted, NEW o \in Openers, NEW g \in Gens, Holds(o, g),
           \A h \in Gens : entry'[h].refs = IF h = g THEN entry[h].refs - 1 ELSE entry[h].refs,
           \A p \in Openers, h \in Gens : Holds(p, h)' <=> (Holds(p, h) /\ ~(p = o /\ h = g))
    PROVE  Counted'
<1>1. \A h \in Gens : IsFiniteSet(Holders(h))
  BY FS_Subset, OpenAssumption DEF Holders
<1>2. Holders(g)' = Holders(g) \ {o} /\ o \in Holders(g)
  BY DEF Holders
<1>3. \A h \in Gens \ {g} : Holders(h)' = Holders(h)
  BY DEF Holders
<1>4. Cardinality(Holders(g)') = Cardinality(Holders(g)) - 1
  BY <1>1, <1>2, FS_RemoveElement
<1>5. QED
  BY <1>3, <1>4 DEF Counted

\* A held generation has a positive count; two threads that hold it make at least two.
LEMMA HeldIsCounted ==
    ASSUME Counted, NEW g \in Gens, NEW o \in Openers, Holds(o, g)
    PROVE  /\ entry[g].refs \in Nat \ {0}
           /\ \A p \in Openers : Holds(p, g) /\ entry[g].refs = 1 => p = o
<1>1. IsFiniteSet(Holders(g)) /\ o \in Holders(g)
  BY FS_Subset, OpenAssumption DEF Holders
<1>2. Cardinality(Holders(g)) \in Nat /\ Cardinality(Holders(g)) # 0
  BY <1>1, FS_CardinalityType, FS_EmptySet
<1>3. ASSUME Cardinality(Holders(g)) = 1 PROVE \A p \in Holders(g) : p = o
  BY <1>1, <1>3, FS_Singleton, SMTT(90)
<1>4. QED
  BY <1>2, <1>3 DEF Counted, Holders

-------------------------------------------------------------------------------
(* Records with a field replaced keep their type *)

\* A thread record with one of its fields replaced is a thread record.
LEMMA ThreadStays ==
    \A t \in Threads :
        /\ \A p \in Pcs : [t EXCEPT !.pc = p] \in Threads
        /\ \A w \in 0 .. MaxGens : [t EXCEPT !.waited = w] \in Threads
        /\ \A p \in Pcs, w \in 0 .. MaxGens : [t EXCEPT !.pc = p, !.waited = w] \in Threads
        /\ \A p \in Pcs, g \in 0 .. MaxGens : [t EXCEPT !.pc = p, !.gen = g] \in Threads
        /\ \A p \in Pcs : [t EXCEPT !.pc = p, !.after = "none"] \in Threads
        /\ \A p \in Pcs, g \in 0 .. MaxGens : [t EXCEPT !.pc = p, !.after = "none", !.gen = g] \in Threads
  BY ZenonT(90) DEF Threads

\* A generation record with one of its fields replaced is a generation record.
LEMMA EntryStays ==
    \A e \in Entries(Int) :
        /\ e.refs \in Int
        /\ \A n \in Int : [e EXCEPT !.refs = n] \in Entries(Int)
        /\ \A n \in Int : [e EXCEPT !.state = "running", !.refs = n] \in Entries(Int)
        /\ \A n \in Int : [e EXCEPT !.refs = n, !.state = "closing"] \in Entries(Int)
        /\ \A x \in Specs \cup {"none"} : [e EXCEPT !.state = "opening", !.spec = x] \in Entries(Int)
  BY ZenonT(90) DEF Entries

\* A generation that was never started is a generation record.
LEMMA NoEntryType == NoEntry \in Entries(Int)
  BY DEF NoEntry, Entries

\* A thread that is idle or at the top of the loop is a thread record.
LEMMA NoOpenType == \A p \in {"idle", "loop"} : NoOpen(p) \in Threads
  BY OpenAssumption DEF NoOpen, Threads, Pcs

-------------------------------------------------------------------------------
(* What each action moves, field by field: the facts its invariance proofs rest on *)

\* LearnOutcome: the waiting thread takes the refusal, or forgets what it waited for.
LEMMA LearnOutcomeMoves ==
    ASSUME IInv, NEW o \in Openers, LearnOutcome(o)
    PROVE  /\ opener[o].pc = "loop"
           /\ \A p \in Openers \ {o} : opener'[p] = opener[p]
           /\ opener'[o].pc = (IF entry[opener[o].waited].failure THEN "refused" ELSE "loop")
           /\ opener'[o].waited = (IF entry[opener[o].waited].failure THEN opener[o].waited ELSE 0)
           /\ opener'[o].gen = opener[o].gen
           /\ opener'[o].after = opener[o].after
           /\ entry' = entry
           /\ reader' = reader
           /\ registry' = registry
           /\ gens' = gens
<1>1. opener[o].pc = "loop"
  BY OpenAssumption DEF LearnOutcome, WaitedIsGone
<1>2. /\ \A p \in Openers \ {o} : opener'[p] = opener[p]
      /\ opener'[o].pc = (IF entry[opener[o].waited].failure THEN "refused" ELSE "loop")
      /\ opener'[o].waited = (IF entry[opener[o].waited].failure THEN opener[o].waited ELSE 0)
      /\ opener'[o].gen = opener[o].gen
      /\ opener'[o].after = opener[o].after
  BY OpenAssumption DEF LearnOutcome, WaitedIsGone, IInv, Shape, Threads
<1>3. entry' = entry
  BY OpenAssumption DEF LearnOutcome, WaitedIsGone
<1>4. /\ reader' = reader
      /\ registry' = registry
      /\ gens' = gens
  BY OpenAssumption DEF LearnOutcome, WaitedIsGone
<1>5. QED
  BY <1>1, <1>2, <1>3, <1>4

\* Reserve: the thread becomes the opener of a new generation, which the key names from now on.
LEMMA ReserveMoves ==
    ASSUME IInv, NEW o \in Openers, Reserve(o)
    PROVE  /\ opener[o].pc = "loop" /\ registry = 0
           /\ \A p \in Openers \ {o} : opener'[p] = opener[p]
           /\ opener'[o].pc = "making"
           /\ opener'[o].waited = opener[o].waited
           /\ opener'[o].gen = gens + 1
           /\ opener'[o].after = opener[o].after
           /\ gens + 1 \in Gens
           /\ \A h \in Gens \ {gens + 1} : entry'[h] = entry[h]
           /\ entry'[gens + 1].state = "opening"
           /\ entry'[gens + 1].refs = 0
           /\ ~entry'[gens + 1].failure
           /\ ~entry'[gens + 1].raw_closed
           /\ ~entry'[gens + 1].done
           /\ entry'[gens + 1].driver = "none"
           /\ reader' = reader
           /\ registry' = gens + 1
           /\ gens' = gens + 1
<1>1. opener[o].pc = "loop" /\ registry = 0
  BY OpenAssumption DEF Reserve, WaitedIsGone, NoEntry
<1>2. /\ \A p \in Openers \ {o} : opener'[p] = opener[p]
      /\ opener'[o].pc = "making"
      /\ opener'[o].waited = opener[o].waited
      /\ opener'[o].gen = gens + 1
      /\ opener'[o].after = opener[o].after
  BY OpenAssumption DEF Reserve, WaitedIsGone, NoEntry, IInv, Shape, Threads
<1>3. /\ gens + 1 \in Gens
      /\ \A h \in Gens \ {gens + 1} : entry'[h] = entry[h]
      /\ entry'[gens + 1].state = "opening"
      /\ entry'[gens + 1].refs = 0
      /\ ~entry'[gens + 1].failure
      /\ ~entry'[gens + 1].raw_closed
      /\ ~entry'[gens + 1].done
      /\ entry'[gens + 1].driver = "none"
  BY OpenAssumption DEF Reserve, WaitedIsGone, NoEntry, IInv, Shape, Threads, Entries, Standing, Attempting, Finishing, Gens
<1>4. /\ reader' = reader
      /\ registry' = gens + 1
      /\ gens' = gens + 1
  BY OpenAssumption DEF Reserve, WaitedIsGone, NoEntry
<1>5. QED
  BY <1>1, <1>2, <1>3, <1>4

\* Settled: the thread looks at the key again.
LEMMA SettledMoves ==
    ASSUME IInv, NEW o \in Openers, Settled(o)
    PROVE  /\ opener[o].pc = "settling"
           /\ \A p \in Openers \ {o} : opener'[p] = opener[p]
           /\ opener'[o].pc = "loop"
           /\ opener'[o].waited = opener[o].waited
           /\ opener'[o].gen = opener[o].gen
           /\ opener'[o].after = opener[o].after
           /\ entry' = entry
           /\ reader' = reader
           /\ registry' = registry
           /\ gens' = gens
<1>1. opener[o].pc = "settling"
  BY OpenAssumption DEF Settled
<1>2. /\ \A p \in Openers \ {o} : opener'[p] = opener[p]
      /\ opener'[o].pc = "loop"
      /\ opener'[o].waited = opener[o].waited
      /\ opener'[o].gen = opener[o].gen
      /\ opener'[o].after = opener[o].after
  BY OpenAssumption DEF Settled, IInv, Shape, Threads
<1>3. entry' = entry
  BY OpenAssumption DEF Settled
<1>4. /\ reader' = reader
      /\ registry' = registry
      /\ gens' = gens
  BY OpenAssumption DEF Settled
<1>5. QED
  BY <1>1, <1>2, <1>3, <1>4

\* SleepEnds: the thread looks at the key again.
LEMMA SleepEndsMoves ==
    ASSUME IInv, NEW o \in Openers, SleepEnds(o)
    PROVE  /\ opener[o].pc = "asleep"
           /\ \A p \in Openers \ {o} : opener'[p] = opener[p]
           /\ opener'[o].pc = "loop"
           /\ opener'[o].waited = opener[o].waited
           /\ opener'[o].gen = opener[o].gen
           /\ opener'[o].after = opener[o].after
           /\ entry' = entry
           /\ reader' = reader
           /\ registry' = registry
           /\ gens' = gens
<1>1. opener[o].pc = "asleep"
  BY OpenAssumption DEF SleepEnds
<1>2. /\ \A p \in Openers \ {o} : opener'[p] = opener[p]
      /\ opener'[o].pc = "loop"
      /\ opener'[o].waited = opener[o].waited
      /\ opener'[o].gen = opener[o].gen
      /\ opener'[o].after = opener[o].after
  BY OpenAssumption DEF SleepEnds, IInv, Shape, Threads
<1>3. entry' = entry
  BY OpenAssumption DEF SleepEnds
<1>4. /\ reader' = reader
      /\ registry' = registry
      /\ gens' = gens
  BY OpenAssumption DEF SleepEnds
<1>5. QED
  BY <1>1, <1>2, <1>3, <1>4

\* FoundConflict: the thread has its refusal.
LEMMA FoundConflictMoves ==
    ASSUME IInv, NEW o \in Openers, FoundConflict(o)
    PROVE  /\ opener[o].pc = "loop"
           /\ \A p \in Openers \ {o} : opener'[p] = opener[p]
           /\ opener'[o].pc = "conflict"
           /\ opener'[o].waited = opener[o].waited
           /\ opener'[o].gen = opener[o].gen
           /\ opener'[o].after = opener[o].after
           /\ entry' = entry
           /\ reader' = reader
           /\ registry' = registry
           /\ gens' = gens
<1>1. opener[o].pc = "loop"
  BY OpenAssumption DEF FoundConflict
<1>2. /\ \A p \in Openers \ {o} : opener'[p] = opener[p]
      /\ opener'[o].pc = "conflict"
      /\ opener'[o].waited = opener[o].waited
      /\ opener'[o].gen = opener[o].gen
      /\ opener'[o].after = opener[o].after
  BY OpenAssumption DEF FoundConflict, IInv, Shape, Threads
<1>3. entry' = entry
  BY OpenAssumption DEF FoundConflict
<1>4. /\ reader' = reader
      /\ registry' = registry
      /\ gens' = gens
  BY OpenAssumption DEF FoundConflict
<1>5. QED
  BY <1>1, <1>2, <1>3, <1>4

\* FoundOpening: the thread notes the generation whose opening it waits for.
LEMMA FoundOpeningMoves ==
    ASSUME IInv, NEW o \in Openers, FoundOpening(o)
    PROVE  /\ opener[o].pc = "loop" /\ registry \in Gens
           /\ \A p \in Openers \ {o} : opener'[p] = opener[p]
           /\ opener'[o].pc = "settling"
           /\ opener'[o].waited = registry
           /\ opener'[o].gen = opener[o].gen
           /\ opener'[o].after = opener[o].after
           /\ entry' = entry
           /\ reader' = reader
           /\ registry' = registry
           /\ gens' = gens
<1>1. opener[o].pc = "loop" /\ registry \in Gens
  BY OpenAssumption DEF FoundOpening, IInv, Shape, Gens
<1>2. /\ \A p \in Openers \ {o} : opener'[p] = opener[p]
      /\ opener'[o].pc = "settling"
      /\ opener'[o].waited = registry
      /\ opener'[o].gen = opener[o].gen
      /\ opener'[o].after = opener[o].after
  BY OpenAssumption DEF FoundOpening, IInv, Shape, Threads
<1>3. entry' = entry
  BY OpenAssumption DEF FoundOpening
<1>4. /\ reader' = reader
      /\ registry' = registry
      /\ gens' = gens
  BY OpenAssumption DEF FoundOpening
<1>5. QED
  BY <1>1, <1>2, <1>3, <1>4

\* FoundLeaving: the thread waits.
LEMMA FoundLeavingMoves ==
    ASSUME IInv, NEW o \in Openers, FoundLeaving(o)
    PROVE  /\ opener[o].pc = "loop"
           /\ \A p \in Openers \ {o} : opener'[p] = opener[p]
           /\ opener'[o].pc = (IF opener[o].waited # 0 THEN "unsettled" ELSE "asleep")
           /\ opener'[o].waited = opener[o].waited
           /\ opener'[o].gen = opener[o].gen
           /\ opener'[o].after = opener[o].after
           /\ entry' = entry
           /\ reader' = reader
           /\ registry' = registry
           /\ gens' = gens
<1>1. opener[o].pc = "loop"
  BY OpenAssumption DEF FoundLeaving
<1>2. /\ \A p \in Openers \ {o} : opener'[p] = opener[p]
      /\ opener'[o].pc = (IF opener[o].waited # 0 THEN "unsettled" ELSE "asleep")
      /\ opener'[o].waited = opener[o].waited
      /\ opener'[o].gen = opener[o].gen
      /\ opener'[o].after = opener[o].after
  BY OpenAssumption DEF FoundLeaving, IInv, Shape, Threads
<1>3. entry' = entry
  BY OpenAssumption DEF FoundLeaving
<1>4. /\ reader' = reader
      /\ registry' = registry
      /\ gens' = gens
  BY OpenAssumption DEF FoundLeaving
<1>5. QED
  BY <1>1, <1>2, <1>3, <1>4

\* FoundRunning: the thread joins, and the generation has one reference more.
LEMMA FoundRunningMoves ==
    ASSUME IInv, NEW o \in Openers, FoundRunning(o)
    PROVE  /\ opener[o].pc = "loop" /\ entry[registry].state = "running"
           /\ \A p \in Openers \ {o} : opener'[p] = opener[p]
           /\ opener'[o].pc = "admit"
           /\ opener'[o].waited = opener[o].waited
           /\ opener'[o].gen = registry
           /\ opener'[o].after = opener[o].after
           /\ registry \in Gens
           /\ \A h \in Gens \ {registry} : entry'[h] = entry[h]
           /\ entry'[registry].state = entry[registry].state
           /\ entry'[registry].refs = entry[registry].refs + 1
           /\ (entry'[registry].failure <=> entry[registry].failure)
           /\ (entry'[registry].raw_closed <=> entry[registry].raw_closed)
           /\ (entry'[registry].done <=> entry[registry].done)
           /\ entry'[registry].driver = entry[registry].driver
           /\ reader' = reader
           /\ registry' = registry
           /\ gens' = gens
<1>1. opener[o].pc = "loop" /\ entry[registry].state = "running"
  BY OpenAssumption DEF FoundRunning
<1>2. /\ \A p \in Openers \ {o} : opener'[p] = opener[p]
      /\ opener'[o].pc = "admit"
      /\ opener'[o].waited = opener[o].waited
      /\ opener'[o].gen = registry
      /\ opener'[o].after = opener[o].after
  BY OpenAssumption DEF FoundRunning, IInv, Shape, Threads
<1>3. /\ registry \in Gens
      /\ \A h \in Gens \ {registry} : entry'[h] = entry[h]
      /\ entry'[registry].state = entry[registry].state
      /\ entry'[registry].refs = entry[registry].refs + 1
      /\ (entry'[registry].failure <=> entry[registry].failure)
      /\ (entry'[registry].raw_closed <=> entry[registry].raw_closed)
      /\ (entry'[registry].done <=> entry[registry].done)
      /\ entry'[registry].driver = entry[registry].driver
  BY OpenAssumption DEF FoundRunning, IInv, Shape, Threads, Entries, Standing, Attempting, Finishing, Gens
<1>4. /\ reader' = reader
      /\ registry' = registry
      /\ gens' = gens
  BY OpenAssumption DEF FoundRunning
<1>5. QED
  BY <1>1, <1>2, <1>3, <1>4

\* Made: the generation has its driver.
LEMMA MadeMoves ==
    ASSUME IInv, NEW o \in Openers, Made(o)
    PROVE  /\ opener[o].pc = "making"
           /\ \A p \in Openers \ {o} : opener'[p] = opener[p]
           /\ opener'[o].pc = "reconciling"
           /\ opener'[o].waited = opener[o].waited
           /\ opener'[o].gen = opener[o].gen
           /\ opener'[o].after = opener[o].after
           /\ opener[o].gen \in Gens
           /\ \A h \in Gens \ {opener[o].gen} : entry'[h] = entry[h]
           /\ entry'[opener[o].gen].state = entry[opener[o].gen].state
           /\ entry'[opener[o].gen].refs = entry[opener[o].gen].refs
           /\ (entry'[opener[o].gen].failure <=> entry[opener[o].gen].failure)
           /\ (entry'[opener[o].gen].raw_closed <=> entry[opener[o].gen].raw_closed)
           /\ (entry'[opener[o].gen].done <=> entry[opener[o].gen].done)
           /\ entry'[opener[o].gen].driver = "open"
           /\ reader' = reader
           /\ registry' = registry
           /\ gens' = gens
<1>1. opener[o].pc = "making"
  BY OpenAssumption DEF Made
<1>2. /\ \A p \in Openers \ {o} : opener'[p] = opener[p]
      /\ opener'[o].pc = "reconciling"
      /\ opener'[o].waited = opener[o].waited
      /\ opener'[o].gen = opener[o].gen
      /\ opener'[o].after = opener[o].after
  BY OpenAssumption DEF Made, IInv, Shape, Threads
<1>3. /\ opener[o].gen \in Gens
      /\ \A h \in Gens \ {opener[o].gen} : entry'[h] = entry[h]
      /\ entry'[opener[o].gen].state = entry[opener[o].gen].state
      /\ entry'[opener[o].gen].refs = entry[opener[o].gen].refs
      /\ (entry'[opener[o].gen].failure <=> entry[opener[o].gen].failure)
      /\ (entry'[opener[o].gen].raw_closed <=> entry[opener[o].gen].raw_closed)
      /\ (entry'[opener[o].gen].done <=> entry[opener[o].gen].done)
      /\ entry'[opener[o].gen].driver = "open"
  BY OpenAssumption DEF Made, IInv, Shape, Threads, Entries, Standing, Attempting, Finishing, Gens
<1>4. /\ reader' = reader
      /\ registry' = registry
      /\ gens' = gens
  BY OpenAssumption DEF Made
<1>5. QED
  BY <1>1, <1>2, <1>3, <1>4

\* MakeFails: the generation has failed before it ran, and its opener finishes it.
LEMMA MakeFailsMoves ==
    ASSUME IInv, NEW o \in Openers, MakeFails(o)
    PROVE  /\ opener[o].pc = "making"
           /\ \A p \in Openers \ {o} : opener'[p] = opener[p]
           /\ opener'[o].pc = "finish"
           /\ opener'[o].waited = opener[o].waited
           /\ opener'[o].gen = opener[o].gen
           /\ opener'[o].after = "settle"
           /\ opener[o].gen \in Gens
           /\ \A h \in Gens \ {opener[o].gen} : entry'[h] = entry[h]
           /\ entry'[opener[o].gen].state = "failed"
           /\ entry'[opener[o].gen].refs = entry[opener[o].gen].refs
           /\ entry'[opener[o].gen].failure
           /\ (entry'[opener[o].gen].raw_closed <=> entry[opener[o].gen].raw_closed)
           /\ (entry'[opener[o].gen].done <=> entry[opener[o].gen].done)
           /\ entry'[opener[o].gen].driver = entry[opener[o].gen].driver
           /\ reader' = reader
           /\ registry' = registry
           /\ gens' = gens
<1>1. opener[o].pc = "making"
  BY OpenAssumption DEF MakeFails, FailOpen
<1>2. /\ \A p \in Openers \ {o} : opener'[p] = opener[p]
      /\ opener'[o].pc = "finish"
      /\ opener'[o].waited = opener[o].waited
      /\ opener'[o].gen = opener[o].gen
      /\ opener'[o].after = "settle"
  BY OpenAssumption DEF MakeFails, FailOpen, IInv, Shape, Threads
<1>3. /\ opener[o].gen \in Gens
      /\ \A h \in Gens \ {opener[o].gen} : entry'[h] = entry[h]
      /\ entry'[opener[o].gen].state = "failed"
      /\ entry'[opener[o].gen].refs = entry[opener[o].gen].refs
      /\ entry'[opener[o].gen].failure
      /\ (entry'[opener[o].gen].raw_closed <=> entry[opener[o].gen].raw_closed)
      /\ (entry'[opener[o].gen].done <=> entry[opener[o].gen].done)
      /\ entry'[opener[o].gen].driver = entry[opener[o].gen].driver
  BY OpenAssumption DEF MakeFails, FailOpen, IInv, Shape, Threads, Entries, Standing, Attempting, Finishing, Gens
<1>4. /\ reader' = reader
      /\ registry' = registry
      /\ gens' = gens
  BY OpenAssumption DEF MakeFails, FailOpen
<1>5. QED
  BY <1>1, <1>2, <1>3, <1>4

\* Reconciled: the generation runs with its opener's reference and a reader.
LEMMA ReconciledMoves ==
    ASSUME IInv, NEW o \in Openers, Reconciled(o)
    PROVE  /\ opener[o].pc = "reconciling"
           /\ \A p \in Openers \ {o} : opener'[p] = opener[p]
           /\ opener'[o].pc = "settle"
           /\ opener'[o].waited = opener[o].waited
           /\ opener'[o].gen = opener[o].gen
           /\ opener'[o].after = opener[o].after
           /\ opener[o].gen \in Gens
           /\ \A h \in Gens \ {opener[o].gen} : entry'[h] = entry[h]
           /\ entry'[opener[o].gen].state = "running"
           /\ entry'[opener[o].gen].refs = 1
           /\ (entry'[opener[o].gen].failure <=> entry[opener[o].gen].failure)
           /\ (entry'[opener[o].gen].raw_closed <=> entry[opener[o].gen].raw_closed)
           /\ (entry'[opener[o].gen].done <=> entry[opener[o].gen].done)
           /\ entry'[opener[o].gen].driver = entry[opener[o].gen].driver
           /\ \A h \in Gens \ {opener[o].gen} : reader'[h] = reader[h]
           /\ reader'[opener[o].gen] = "reading"
           /\ registry' = registry
           /\ gens' = gens
<1>1. opener[o].pc = "reconciling"
  BY OpenAssumption DEF Reconciled
<1>2. /\ \A p \in Openers \ {o} : opener'[p] = opener[p]
      /\ opener'[o].pc = "settle"
      /\ opener'[o].waited = opener[o].waited
      /\ opener'[o].gen = opener[o].gen
      /\ opener'[o].after = opener[o].after
  BY OpenAssumption DEF Reconciled, IInv, Shape, Threads
<1>3. /\ opener[o].gen \in Gens
      /\ \A h \in Gens \ {opener[o].gen} : entry'[h] = entry[h]
      /\ entry'[opener[o].gen].state = "running"
      /\ entry'[opener[o].gen].refs = 1
      /\ (entry'[opener[o].gen].failure <=> entry[opener[o].gen].failure)
      /\ (entry'[opener[o].gen].raw_closed <=> entry[opener[o].gen].raw_closed)
      /\ (entry'[opener[o].gen].done <=> entry[opener[o].gen].done)
      /\ entry'[opener[o].gen].driver = entry[opener[o].gen].driver
  BY OpenAssumption DEF Reconciled, IInv, Shape, Threads, Entries, Standing, Attempting, Finishing, Gens
<1>4. /\ \A h \in Gens \ {opener[o].gen} : reader'[h] = reader[h]
      /\ reader'[opener[o].gen] = "reading"
      /\ registry' = registry
      /\ gens' = gens
  BY <1>3, OpenAssumption DEF Reconciled, IInv, Shape
<1>5. QED
  BY <1>1, <1>2, <1>3, <1>4

\* Settle: the opener has its answer.
LEMMA SettleMoves ==
    ASSUME IInv, NEW o \in Openers, Settle(o)
    PROVE  /\ opener[o].pc = "settle"
           /\ \A p \in Openers \ {o} : opener'[p] = opener[p]
           /\ opener'[o].pc = (IF entry[opener[o].gen].failure THEN "refused" ELSE "open")
           /\ opener'[o].waited = opener[o].waited
           /\ opener'[o].gen = opener[o].gen
           /\ opener'[o].after = opener[o].after
           /\ opener[o].gen \in Gens
           /\ \A h \in Gens \ {opener[o].gen} : entry'[h] = entry[h]
           /\ entry'[opener[o].gen].state = entry[opener[o].gen].state
           /\ entry'[opener[o].gen].refs = entry[opener[o].gen].refs
           /\ (entry'[opener[o].gen].failure <=> entry[opener[o].gen].failure)
           /\ (entry'[opener[o].gen].raw_closed <=> entry[opener[o].gen].raw_closed)
           /\ (entry'[opener[o].gen].done <=> entry[opener[o].gen].done)
           /\ entry'[opener[o].gen].driver = entry[opener[o].gen].driver
           /\ reader' = reader
           /\ registry' = registry
           /\ gens' = gens
<1>1. opener[o].pc = "settle"
  BY OpenAssumption DEF Settle
<1>2. /\ \A p \in Openers \ {o} : opener'[p] = opener[p]
      /\ opener'[o].pc = (IF entry[opener[o].gen].failure THEN "refused" ELSE "open")
      /\ opener'[o].waited = opener[o].waited
      /\ opener'[o].gen = opener[o].gen
      /\ opener'[o].after = opener[o].after
  BY OpenAssumption DEF Settle, IInv, Shape, Threads
<1>3. /\ opener[o].gen \in Gens
      /\ \A h \in Gens \ {opener[o].gen} : entry'[h] = entry[h]
      /\ entry'[opener[o].gen].state = entry[opener[o].gen].state
      /\ entry'[opener[o].gen].refs = entry[opener[o].gen].refs
      /\ (entry'[opener[o].gen].failure <=> entry[opener[o].gen].failure)
      /\ (entry'[opener[o].gen].raw_closed <=> entry[opener[o].gen].raw_closed)
      /\ (entry'[opener[o].gen].done <=> entry[opener[o].gen].done)
      /\ entry'[opener[o].gen].driver = entry[opener[o].gen].driver
  BY OpenAssumption DEF Settle, IInv, Shape, Threads, Entries, Standing, Attempting, Finishing, Gens
<1>4. /\ reader' = reader
      /\ registry' = registry
      /\ gens' = gens
  BY OpenAssumption DEF Settle
<1>5. QED
  BY <1>1, <1>2, <1>3, <1>4

\* Admitted: the joiner has its handle.
LEMMA AdmittedMoves ==
    ASSUME IInv, NEW o \in Openers, Admitted(o)
    PROVE  /\ opener[o].pc = "admit"
           /\ \A p \in Openers \ {o} : opener'[p] = opener[p]
           /\ opener'[o].pc = "open"
           /\ opener'[o].waited = opener[o].waited
           /\ opener'[o].gen = opener[o].gen
           /\ opener'[o].after = opener[o].after
           /\ entry' = entry
           /\ reader' = reader
           /\ registry' = registry
           /\ gens' = gens
<1>1. opener[o].pc = "admit"
  BY OpenAssumption DEF Admitted
<1>2. /\ \A p \in Openers \ {o} : opener'[p] = opener[p]
      /\ opener'[o].pc = "open"
      /\ opener'[o].waited = opener[o].waited
      /\ opener'[o].gen = opener[o].gen
      /\ opener'[o].after = opener[o].after
  BY OpenAssumption DEF Admitted, IInv, Shape, Threads
<1>3. entry' = entry
  BY OpenAssumption DEF Admitted
<1>4. /\ reader' = reader
      /\ registry' = registry
      /\ gens' = gens
  BY OpenAssumption DEF Admitted
<1>5. QED
  BY <1>1, <1>2, <1>3, <1>4

\* AdmitRefused: the joiner gives its handle back.
LEMMA AdmitRefusedMoves ==
    ASSUME IInv, NEW o \in Openers, AdmitRefused(o)
    PROVE  /\ opener[o].pc = "admit"
           /\ \A p \in Openers \ {o} : opener'[p] = opener[p]
           /\ opener'[o].pc = "release"
           /\ opener'[o].waited = opener[o].waited
           /\ opener'[o].gen = opener[o].gen
           /\ opener'[o].after = (IF entry[opener[o].gen].state = "running" THEN "idle" ELSE "loop")
           /\ entry' = entry
           /\ reader' = reader
           /\ registry' = registry
           /\ gens' = gens
<1>1. opener[o].pc = "admit"
  BY OpenAssumption DEF AdmitRefused
<1>2. /\ \A p \in Openers \ {o} : opener'[p] = opener[p]
      /\ opener'[o].pc = "release"
      /\ opener'[o].waited = opener[o].waited
      /\ opener'[o].gen = opener[o].gen
      /\ opener'[o].after = (IF entry[opener[o].gen].state = "running" THEN "idle" ELSE "loop")
  BY OpenAssumption DEF AdmitRefused, IInv, Shape, Threads
<1>3. entry' = entry
  BY OpenAssumption DEF AdmitRefused
<1>4. /\ reader' = reader
      /\ registry' = registry
      /\ gens' = gens
  BY OpenAssumption DEF AdmitRefused
<1>5. QED
  BY <1>1, <1>2, <1>3, <1>4

\* AdmitFatal: the joiner fails the generation and finishes it.
LEMMA AdmitFatalMoves ==
    ASSUME IInv, NEW o \in Openers, AdmitFatal(o)
    PROVE  /\ "joiner" \in Faults /\ opener[o].pc = "admit" /\ entry[opener[o].gen].state = "running"
           /\ \A p \in Openers \ {o} : opener'[p] = opener[p]
           /\ opener'[o].pc = "finish"
           /\ opener'[o].waited = opener[o].waited
           /\ opener'[o].gen = opener[o].gen
           /\ opener'[o].after = "await"
           /\ opener[o].gen \in Gens
           /\ \A h \in Gens \ {opener[o].gen} : entry'[h] = entry[h]
           /\ entry'[opener[o].gen].state = "failed"
           /\ entry'[opener[o].gen].refs = entry[opener[o].gen].refs
           /\ (entry'[opener[o].gen].failure <=> entry[opener[o].gen].failure)
           /\ (entry'[opener[o].gen].raw_closed <=> entry[opener[o].gen].raw_closed)
           /\ (entry'[opener[o].gen].done <=> entry[opener[o].gen].done)
           /\ entry'[opener[o].gen].driver = entry[opener[o].gen].driver
           /\ reader' = reader
           /\ registry' = registry
           /\ gens' = gens
<1>1. "joiner" \in Faults /\ opener[o].pc = "admit" /\ entry[opener[o].gen].state = "running"
  BY OpenAssumption DEF AdmitFatal
<1>2. /\ \A p \in Openers \ {o} : opener'[p] = opener[p]
      /\ opener'[o].pc = "finish"
      /\ opener'[o].waited = opener[o].waited
      /\ opener'[o].gen = opener[o].gen
      /\ opener'[o].after = "await"
  BY OpenAssumption DEF AdmitFatal, IInv, Shape, Threads
<1>3. /\ opener[o].gen \in Gens
      /\ \A h \in Gens \ {opener[o].gen} : entry'[h] = entry[h]
      /\ entry'[opener[o].gen].state = "failed"
      /\ entry'[opener[o].gen].refs = entry[opener[o].gen].refs
      /\ (entry'[opener[o].gen].failure <=> entry[opener[o].gen].failure)
      /\ (entry'[opener[o].gen].raw_closed <=> entry[opener[o].gen].raw_closed)
      /\ (entry'[opener[o].gen].done <=> entry[opener[o].gen].done)
      /\ entry'[opener[o].gen].driver = entry[opener[o].gen].driver
  BY OpenAssumption DEF AdmitFatal, IInv, Shape, Threads, Entries, Standing, Attempting, Finishing, Gens
<1>4. /\ reader' = reader
      /\ registry' = registry
      /\ gens' = gens
  BY OpenAssumption DEF AdmitFatal
<1>5. QED
  BY <1>1, <1>2, <1>3, <1>4

\* FinishClaims: the first finisher of an open driver closes it.
LEMMA FinishClaimsMoves ==
    ASSUME IInv, NEW o \in Openers, FinishClaims(o)
    PROVE  /\ opener[o].pc = "finish"
           /\ \A p \in Openers \ {o} : opener'[p] = opener[p]
           /\ opener'[o].pc = (IF ~entry[opener[o].gen].raw_closed /\ entry[opener[o].gen].driver = "open" THEN "closing_raw" ELSE "removing")
           /\ opener'[o].waited = opener[o].waited
           /\ opener'[o].gen = opener[o].gen
           /\ opener'[o].after = opener[o].after
           /\ opener[o].gen \in Gens
           /\ \A h \in Gens \ {opener[o].gen} : entry'[h] = entry[h]
           /\ entry'[opener[o].gen].state = entry[opener[o].gen].state
           /\ entry'[opener[o].gen].refs = entry[opener[o].gen].refs
           /\ (entry'[opener[o].gen].failure <=> entry[opener[o].gen].failure)
           /\ entry'[opener[o].gen].raw_closed
           /\ (entry'[opener[o].gen].done <=> entry[opener[o].gen].done)
           /\ entry'[opener[o].gen].driver = (IF ~entry[opener[o].gen].raw_closed /\ entry[opener[o].gen].driver = "open" THEN "closing" ELSE entry[opener[o].gen].driver)
           /\ reader' = reader
           /\ registry' = registry
           /\ gens' = gens
<1>1. opener[o].pc = "finish"
  BY OpenAssumption DEF FinishClaims, ClaimRaw, Claimant
<1>2. /\ \A p \in Openers \ {o} : opener'[p] = opener[p]
      /\ opener'[o].pc = (IF ~entry[opener[o].gen].raw_closed /\ entry[opener[o].gen].driver = "open" THEN "closing_raw" ELSE "removing")
      /\ opener'[o].waited = opener[o].waited
      /\ opener'[o].gen = opener[o].gen
      /\ opener'[o].after = opener[o].after
  BY OpenAssumption DEF FinishClaims, ClaimRaw, Claimant, IInv, Shape, Threads
<1>3. /\ opener[o].gen \in Gens
      /\ \A h \in Gens \ {opener[o].gen} : entry'[h] = entry[h]
      /\ entry'[opener[o].gen].state = entry[opener[o].gen].state
      /\ entry'[opener[o].gen].refs = entry[opener[o].gen].refs
      /\ (entry'[opener[o].gen].failure <=> entry[opener[o].gen].failure)
      /\ entry'[opener[o].gen].raw_closed
      /\ (entry'[opener[o].gen].done <=> entry[opener[o].gen].done)
      /\ entry'[opener[o].gen].driver = (IF ~entry[opener[o].gen].raw_closed /\ entry[opener[o].gen].driver = "open" THEN "closing" ELSE entry[opener[o].gen].driver)
  BY OpenAssumption DEF FinishClaims, ClaimRaw, Claimant, IInv, Shape, Threads, Entries, Standing, Attempting, Finishing, Gens
<1>4. /\ reader' = reader
      /\ registry' = registry
      /\ gens' = gens
  BY OpenAssumption DEF FinishClaims, ClaimRaw, Claimant
<1>5. QED
  BY <1>1, <1>2, <1>3, <1>4

\* FinishCloses: the driver is closed.
LEMMA FinishClosesMoves ==
    ASSUME IInv, NEW o \in Openers, FinishCloses(o)
    PROVE  /\ opener[o].pc = "closing_raw"
           /\ \A p \in Openers \ {o} : opener'[p] = opener[p]
           /\ opener'[o].pc = "removing"
           /\ opener'[o].waited = opener[o].waited
           /\ opener'[o].gen = opener[o].gen
           /\ opener'[o].after = opener[o].after
           /\ opener[o].gen \in Gens
           /\ \A h \in Gens \ {opener[o].gen} : entry'[h] = entry[h]
           /\ entry'[opener[o].gen].state = entry[opener[o].gen].state
           /\ entry'[opener[o].gen].refs = entry[opener[o].gen].refs
           /\ (entry'[opener[o].gen].failure <=> entry[opener[o].gen].failure)
           /\ (entry'[opener[o].gen].raw_closed <=> entry[opener[o].gen].raw_closed)
           /\ (entry'[opener[o].gen].done <=> entry[opener[o].gen].done)
           /\ entry'[opener[o].gen].driver = "closed"
           /\ reader' = reader
           /\ registry' = registry
           /\ gens' = gens
<1>1. opener[o].pc = "closing_raw"
  BY OpenAssumption DEF FinishCloses
<1>2. /\ \A p \in Openers \ {o} : opener'[p] = opener[p]
      /\ opener'[o].pc = "removing"
      /\ opener'[o].waited = opener[o].waited
      /\ opener'[o].gen = opener[o].gen
      /\ opener'[o].after = opener[o].after
  BY OpenAssumption DEF FinishCloses, IInv, Shape, Threads
<1>3. /\ opener[o].gen \in Gens
      /\ \A h \in Gens \ {opener[o].gen} : entry'[h] = entry[h]
      /\ entry'[opener[o].gen].state = entry[opener[o].gen].state
      /\ entry'[opener[o].gen].refs = entry[opener[o].gen].refs
      /\ (entry'[opener[o].gen].failure <=> entry[opener[o].gen].failure)
      /\ (entry'[opener[o].gen].raw_closed <=> entry[opener[o].gen].raw_closed)
      /\ (entry'[opener[o].gen].done <=> entry[opener[o].gen].done)
      /\ entry'[opener[o].gen].driver = "closed"
  BY OpenAssumption DEF FinishCloses, IInv, Shape, Threads, Entries, Standing, Attempting, Finishing, Gens
<1>4. /\ reader' = reader
      /\ registry' = registry
      /\ gens' = gens
  BY OpenAssumption DEF FinishCloses
<1>5. QED
  BY <1>1, <1>2, <1>3, <1>4

\* FinishRemoves: the generation is closed and its key free, if it still names it.
LEMMA FinishRemovesMoves ==
    ASSUME IInv, NEW o \in Openers, FinishRemoves(o)
    PROVE  /\ opener[o].pc = "removing"
           /\ \A p \in Openers \ {o} : opener'[p] = opener[p]
           /\ opener'[o].pc = (IF opener[o].after = "close" THEN "idle" ELSE opener[o].after)
           /\ opener'[o].waited = (IF opener[o].after = "close" THEN 0 ELSE opener[o].waited)
           /\ opener'[o].gen = (IF opener[o].after = "close" THEN 0 ELSE opener[o].gen)
           /\ opener'[o].after = "none"
           /\ opener[o].gen \in Gens
           /\ \A h \in Gens \ {opener[o].gen} : entry'[h] = entry[h]
           /\ entry'[opener[o].gen].state = "closed"
           /\ entry'[opener[o].gen].refs = entry[opener[o].gen].refs
           /\ (entry'[opener[o].gen].failure <=> entry[opener[o].gen].failure)
           /\ (entry'[opener[o].gen].raw_closed <=> entry[opener[o].gen].raw_closed)
           /\ (entry'[opener[o].gen].done <=> entry[opener[o].gen].done)
           /\ entry'[opener[o].gen].driver = entry[opener[o].gen].driver
           /\ reader' = reader
           /\ registry' = (IF registry = opener[o].gen THEN 0 ELSE registry)
           /\ gens' = gens
<1>1. opener[o].pc = "removing"
  BY OpenAssumption DEF FinishRemoves, shared_remove_entry, NoOpen
<1>2. /\ \A p \in Openers \ {o} : opener'[p] = opener[p]
      /\ opener'[o].pc = (IF opener[o].after = "close" THEN "idle" ELSE opener[o].after)
      /\ opener'[o].waited = (IF opener[o].after = "close" THEN 0 ELSE opener[o].waited)
      /\ opener'[o].gen = (IF opener[o].after = "close" THEN 0 ELSE opener[o].gen)
      /\ opener'[o].after = "none"
  BY OpenAssumption DEF FinishRemoves, shared_remove_entry, NoOpen, IInv, Shape, Threads
<1>3. /\ opener[o].gen \in Gens
      /\ \A h \in Gens \ {opener[o].gen} : entry'[h] = entry[h]
      /\ entry'[opener[o].gen].state = "closed"
      /\ entry'[opener[o].gen].refs = entry[opener[o].gen].refs
      /\ (entry'[opener[o].gen].failure <=> entry[opener[o].gen].failure)
      /\ (entry'[opener[o].gen].raw_closed <=> entry[opener[o].gen].raw_closed)
      /\ (entry'[opener[o].gen].done <=> entry[opener[o].gen].done)
      /\ entry'[opener[o].gen].driver = entry[opener[o].gen].driver
  BY OpenAssumption DEF FinishRemoves, shared_remove_entry, NoOpen, IInv, Shape, Threads, Entries, Standing, Attempting, Finishing, Gens
<1>4. /\ reader' = reader
      /\ registry' = (IF registry = opener[o].gen THEN 0 ELSE registry)
      /\ gens' = gens
  BY OpenAssumption DEF FinishRemoves, shared_remove_entry, NoOpen
<1>5. QED
  BY <1>1, <1>2, <1>3, <1>4

\* Await: the joiner takes the reader's word.
LEMMA AwaitMoves ==
    ASSUME IInv, NEW o \in Openers, Await(o)
    PROVE  /\ opener[o].pc = "await"
           /\ \A p \in Openers \ {o} : opener'[p] = opener[p]
           /\ opener'[o].pc = "release"
           /\ opener'[o].waited = opener[o].waited
           /\ opener'[o].gen = opener[o].gen
           /\ opener'[o].after = "loop"
           /\ opener[o].gen \in Gens
           /\ \A h \in Gens \ {opener[o].gen} : entry'[h] = entry[h]
           /\ entry'[opener[o].gen].state = entry[opener[o].gen].state
           /\ entry'[opener[o].gen].refs = entry[opener[o].gen].refs
           /\ (entry'[opener[o].gen].failure <=> entry[opener[o].gen].failure)
           /\ (entry'[opener[o].gen].raw_closed <=> entry[opener[o].gen].raw_closed)
           /\ ~entry'[opener[o].gen].done
           /\ entry'[opener[o].gen].driver = entry[opener[o].gen].driver
           /\ reader' = reader
           /\ registry' = registry
           /\ gens' = gens
<1>1. opener[o].pc = "await"
  BY OpenAssumption DEF Await
<1>2. /\ \A p \in Openers \ {o} : opener'[p] = opener[p]
      /\ opener'[o].pc = "release"
      /\ opener'[o].waited = opener[o].waited
      /\ opener'[o].gen = opener[o].gen
      /\ opener'[o].after = "loop"
  BY OpenAssumption DEF Await, IInv, Shape, Threads
<1>3. /\ opener[o].gen \in Gens
      /\ \A h \in Gens \ {opener[o].gen} : entry'[h] = entry[h]
      /\ entry'[opener[o].gen].state = entry[opener[o].gen].state
      /\ entry'[opener[o].gen].refs = entry[opener[o].gen].refs
      /\ (entry'[opener[o].gen].failure <=> entry[opener[o].gen].failure)
      /\ (entry'[opener[o].gen].raw_closed <=> entry[opener[o].gen].raw_closed)
      /\ ~entry'[opener[o].gen].done
      /\ entry'[opener[o].gen].driver = entry[opener[o].gen].driver
  BY OpenAssumption DEF Await, IInv, Shape, Threads, Entries, Standing, Attempting, Finishing, Gens
<1>4. /\ reader' = reader
      /\ registry' = registry
      /\ gens' = gens
  BY OpenAssumption DEF Await
<1>5. QED
  BY <1>1, <1>2, <1>3, <1>4

\* ReleaseLast: the last reference of a running generation ends it.
LEMMA ReleaseLastMoves ==
    ASSUME IInv, NEW o \in Openers, ReleaseLast(o)
    PROVE  /\ opener[o].pc = "release" /\ entry[opener[o].gen].state = "running" /\ entry[opener[o].gen].refs = 1
           /\ \A p \in Openers \ {o} : opener'[p] = opener[p]
           /\ opener'[o].pc = "await_reader"
           /\ opener'[o].waited = opener[o].waited
           /\ opener'[o].gen = opener[o].gen
           /\ opener'[o].after = "close"
           /\ opener[o].gen \in Gens
           /\ \A h \in Gens \ {opener[o].gen} : entry'[h] = entry[h]
           /\ entry'[opener[o].gen].state = "closing"
           /\ entry'[opener[o].gen].refs = entry[opener[o].gen].refs - 1
           /\ (entry'[opener[o].gen].failure <=> entry[opener[o].gen].failure)
           /\ (entry'[opener[o].gen].raw_closed <=> entry[opener[o].gen].raw_closed)
           /\ (entry'[opener[o].gen].done <=> entry[opener[o].gen].done)
           /\ entry'[opener[o].gen].driver = entry[opener[o].gen].driver
           /\ reader' = reader
           /\ registry' = registry
           /\ gens' = gens
<1>1. opener[o].pc = "release" /\ entry[opener[o].gen].state = "running" /\ entry[opener[o].gen].refs = 1
  BY OpenAssumption DEF ReleaseLast
<1>2. /\ \A p \in Openers \ {o} : opener'[p] = opener[p]
      /\ opener'[o].pc = "await_reader"
      /\ opener'[o].waited = opener[o].waited
      /\ opener'[o].gen = opener[o].gen
      /\ opener'[o].after = "close"
  BY OpenAssumption DEF ReleaseLast, IInv, Shape, Threads
<1>3. /\ opener[o].gen \in Gens
      /\ \A h \in Gens \ {opener[o].gen} : entry'[h] = entry[h]
      /\ entry'[opener[o].gen].state = "closing"
      /\ entry'[opener[o].gen].refs = entry[opener[o].gen].refs - 1
      /\ (entry'[opener[o].gen].failure <=> entry[opener[o].gen].failure)
      /\ (entry'[opener[o].gen].raw_closed <=> entry[opener[o].gen].raw_closed)
      /\ (entry'[opener[o].gen].done <=> entry[opener[o].gen].done)
      /\ entry'[opener[o].gen].driver = entry[opener[o].gen].driver
  BY OpenAssumption DEF ReleaseLast, IInv, Shape, Threads, Entries, Standing, Attempting, Finishing, Gens
<1>4. /\ reader' = reader
      /\ registry' = registry
      /\ gens' = gens
  BY OpenAssumption DEF ReleaseLast
<1>5. QED
  BY <1>1, <1>2, <1>3, <1>4

\* ReleaseOther: one reference less, and the thread has left.
LEMMA ReleaseOtherMoves ==
    ASSUME IInv, NEW o \in Openers, ReleaseOther(o)
    PROVE  /\ opener[o].pc = "release" /\ ~(entry[opener[o].gen].refs = 1 /\ entry[opener[o].gen].state = "running")
           /\ \A p \in Openers \ {o} : opener'[p] = opener[p]
           /\ opener'[o].pc = (IF opener[o].after = "loop" THEN "loop" ELSE "idle")
           /\ opener'[o].waited = (IF opener[o].after = "loop" THEN opener[o].waited ELSE 0)
           /\ opener'[o].gen = 0
           /\ opener'[o].after = "none"
           /\ opener[o].gen \in Gens
           /\ \A h \in Gens \ {opener[o].gen} : entry'[h] = entry[h]
           /\ entry'[opener[o].gen].state = entry[opener[o].gen].state
           /\ entry'[opener[o].gen].refs = entry[opener[o].gen].refs - 1
           /\ (entry'[opener[o].gen].failure <=> entry[opener[o].gen].failure)
           /\ (entry'[opener[o].gen].raw_closed <=> entry[opener[o].gen].raw_closed)
           /\ (entry'[opener[o].gen].done <=> entry[opener[o].gen].done)
           /\ entry'[opener[o].gen].driver = entry[opener[o].gen].driver
           /\ reader' = reader
           /\ registry' = registry
           /\ gens' = gens
<1>1. opener[o].pc = "release" /\ ~(entry[opener[o].gen].refs = 1 /\ entry[opener[o].gen].state = "running")
  BY OpenAssumption DEF ReleaseOther, NoOpen
<1>2. /\ \A p \in Openers \ {o} : opener'[p] = opener[p]
      /\ opener'[o].pc = (IF opener[o].after = "loop" THEN "loop" ELSE "idle")
      /\ opener'[o].waited = (IF opener[o].after = "loop" THEN opener[o].waited ELSE 0)
      /\ opener'[o].gen = 0
      /\ opener'[o].after = "none"
  BY OpenAssumption DEF ReleaseOther, NoOpen, IInv, Shape, Threads
<1>3. /\ opener[o].gen \in Gens
      /\ \A h \in Gens \ {opener[o].gen} : entry'[h] = entry[h]
      /\ entry'[opener[o].gen].state = entry[opener[o].gen].state
      /\ entry'[opener[o].gen].refs = entry[opener[o].gen].refs - 1
      /\ (entry'[opener[o].gen].failure <=> entry[opener[o].gen].failure)
      /\ (entry'[opener[o].gen].raw_closed <=> entry[opener[o].gen].raw_closed)
      /\ (entry'[opener[o].gen].done <=> entry[opener[o].gen].done)
      /\ entry'[opener[o].gen].driver = entry[opener[o].gen].driver
  BY OpenAssumption DEF ReleaseOther, NoOpen, IInv, Shape, Threads, Entries, Standing, Attempting, Finishing, Gens
<1>4. /\ reader' = reader
      /\ registry' = registry
      /\ gens' = gens
  BY OpenAssumption DEF ReleaseOther, NoOpen
<1>5. QED
  BY <1>1, <1>2, <1>3, <1>4

\* AwaitReader: the closer takes the reader's word and finishes.
LEMMA AwaitReaderMoves ==
    ASSUME IInv, NEW o \in Openers, AwaitReader(o)
    PROVE  /\ opener[o].pc = "await_reader" /\ entry[opener[o].gen].done
           /\ \A p \in Openers \ {o} : opener'[p] = opener[p]
           /\ opener'[o].pc = "finish"
           /\ opener'[o].waited = opener[o].waited
           /\ opener'[o].gen = opener[o].gen
           /\ opener'[o].after = opener[o].after
           /\ opener[o].gen \in Gens
           /\ \A h \in Gens \ {opener[o].gen} : entry'[h] = entry[h]
           /\ entry'[opener[o].gen].state = entry[opener[o].gen].state
           /\ entry'[opener[o].gen].refs = entry[opener[o].gen].refs
           /\ (entry'[opener[o].gen].failure <=> entry[opener[o].gen].failure)
           /\ (entry'[opener[o].gen].raw_closed <=> entry[opener[o].gen].raw_closed)
           /\ ~entry'[opener[o].gen].done
           /\ entry'[opener[o].gen].driver = entry[opener[o].gen].driver
           /\ reader' = reader
           /\ registry' = registry
           /\ gens' = gens
<1>1. opener[o].pc = "await_reader" /\ entry[opener[o].gen].done
  BY OpenAssumption DEF AwaitReader
<1>2. /\ \A p \in Openers \ {o} : opener'[p] = opener[p]
      /\ opener'[o].pc = "finish"
      /\ opener'[o].waited = opener[o].waited
      /\ opener'[o].gen = opener[o].gen
      /\ opener'[o].after = opener[o].after
  BY OpenAssumption DEF AwaitReader, IInv, Shape, Threads
<1>3. /\ opener[o].gen \in Gens
      /\ \A h \in Gens \ {opener[o].gen} : entry'[h] = entry[h]
      /\ entry'[opener[o].gen].state = entry[opener[o].gen].state
      /\ entry'[opener[o].gen].refs = entry[opener[o].gen].refs
      /\ (entry'[opener[o].gen].failure <=> entry[opener[o].gen].failure)
      /\ (entry'[opener[o].gen].raw_closed <=> entry[opener[o].gen].raw_closed)
      /\ ~entry'[opener[o].gen].done
      /\ entry'[opener[o].gen].driver = entry[opener[o].gen].driver
  BY OpenAssumption DEF AwaitReader, IInv, Shape, Threads, Entries, Standing, Attempting, Finishing, Gens
<1>4. /\ reader' = reader
      /\ registry' = registry
      /\ gens' = gens
  BY OpenAssumption DEF AwaitReader
<1>5. QED
  BY <1>1, <1>2, <1>3, <1>4

\* Answered: the thread is idle again.
LEMMA AnsweredMoves ==
    ASSUME IInv, NEW o \in Openers, Answered(o)
    PROVE  /\ opener[o].pc \in {"refused", "conflict"}
           /\ \A p \in Openers \ {o} : opener'[p] = opener[p]
           /\ opener'[o].pc = "idle"
           /\ opener'[o].waited = 0
           /\ opener'[o].gen = 0
           /\ opener'[o].after = "none"
           /\ entry' = entry
           /\ reader' = reader
           /\ registry' = registry
           /\ gens' = gens
<1>1. opener[o].pc \in {"refused", "conflict"}
  BY OpenAssumption DEF Answered, NoOpen
<1>2. /\ \A p \in Openers \ {o} : opener'[p] = opener[p]
      /\ opener'[o].pc = "idle"
      /\ opener'[o].waited = 0
      /\ opener'[o].gen = 0
      /\ opener'[o].after = "none"
  BY OpenAssumption DEF Answered, NoOpen, IInv, Shape, Threads
<1>3. entry' = entry
  BY OpenAssumption DEF Answered, NoOpen
<1>4. /\ reader' = reader
      /\ registry' = registry
      /\ gens' = gens
  BY OpenAssumption DEF Answered, NoOpen
<1>5. QED
  BY <1>1, <1>2, <1>3, <1>4

\* Close: the thread gives its handle back.
LEMMA CloseMoves ==
    ASSUME IInv, NEW o \in Openers, Close(o)
    PROVE  /\ opener[o].pc = "open"
           /\ \A p \in Openers \ {o} : opener'[p] = opener[p]
           /\ opener'[o].pc = "release"
           /\ opener'[o].waited = opener[o].waited
           /\ opener'[o].gen = opener[o].gen
           /\ opener'[o].after = "idle"
           /\ entry' = entry
           /\ reader' = reader
           /\ registry' = registry
           /\ gens' = gens
<1>1. opener[o].pc = "open"
  BY OpenAssumption DEF Close
<1>2. /\ \A p \in Openers \ {o} : opener'[p] = opener[p]
      /\ opener'[o].pc = "release"
      /\ opener'[o].waited = opener[o].waited
      /\ opener'[o].gen = opener[o].gen
      /\ opener'[o].after = "idle"
  BY OpenAssumption DEF Close, IInv, Shape, Threads
<1>3. entry' = entry
  BY OpenAssumption DEF Close
<1>4. /\ reader' = reader
      /\ registry' = registry
      /\ gens' = gens
  BY OpenAssumption DEF Close
<1>5. QED
  BY <1>1, <1>2, <1>3, <1>4

\* Open: the thread starts at the key.
LEMMA OpenMoves ==
    ASSUME IInv, NEW o \in Openers, NEW s \in Specs, Open(o, s)
    PROVE  /\ opener[o].pc = "idle"
           /\ \A p \in Openers \ {o} : opener'[p] = opener[p]
           /\ opener'[o].pc = "loop"
           /\ opener'[o].waited = 0
           /\ opener'[o].gen = 0
           /\ opener'[o].after = "none"
           /\ entry' = entry
           /\ reader' = reader
           /\ registry' = registry
           /\ gens' = gens
<1>1. opener[o].pc = "idle"
  BY OpenAssumption DEF Open, NoOpen
<1>2. /\ \A p \in Openers \ {o} : opener'[p] = opener[p]
      /\ opener'[o].pc = "loop"
      /\ opener'[o].waited = 0
      /\ opener'[o].gen = 0
      /\ opener'[o].after = "none"
  BY OpenAssumption DEF Open, NoOpen, IInv, Shape, Threads
<1>3. entry' = entry
  BY OpenAssumption DEF Open, NoOpen
<1>4. /\ reader' = reader
      /\ registry' = registry
      /\ gens' = gens
  BY OpenAssumption DEF Open, NoOpen
<1>5. QED
  BY <1>1, <1>2, <1>3, <1>4

\* ReconcileFails: the generation has failed before it ran, and its opener finishes it.
LEMMA ReconcileFailsMoves ==
    ASSUME IInv, NEW o \in Openers, opener[o].pc = "reconciling", FailOpen(o)
    PROVE  /\ opener[o].pc = "reconciling"
           /\ \A p \in Openers \ {o} : opener'[p] = opener[p]
           /\ opener'[o].pc = "finish"
           /\ opener'[o].waited = opener[o].waited
           /\ opener'[o].gen = opener[o].gen
           /\ opener'[o].after = "settle"
           /\ opener[o].gen \in Gens
           /\ \A h \in Gens \ {opener[o].gen} : entry'[h] = entry[h]
           /\ entry'[opener[o].gen].state = "failed"
           /\ entry'[opener[o].gen].refs = entry[opener[o].gen].refs
           /\ entry'[opener[o].gen].failure
           /\ (entry'[opener[o].gen].raw_closed <=> entry[opener[o].gen].raw_closed)
           /\ (entry'[opener[o].gen].done <=> entry[opener[o].gen].done)
           /\ entry'[opener[o].gen].driver = entry[opener[o].gen].driver
           /\ reader' = reader
           /\ registry' = registry
           /\ gens' = gens
<1>1. opener[o].pc = "reconciling"
  OBVIOUS
<1>2. /\ \A p \in Openers \ {o} : opener'[p] = opener[p]
      /\ opener'[o].pc = "finish"
      /\ opener'[o].waited = opener[o].waited
      /\ opener'[o].gen = opener[o].gen
      /\ opener'[o].after = "settle"
  BY OpenAssumption DEF FailOpen, IInv, Shape, Threads
<1>3. /\ opener[o].gen \in Gens
      /\ \A h \in Gens \ {opener[o].gen} : entry'[h] = entry[h]
      /\ entry'[opener[o].gen].state = "failed"
      /\ entry'[opener[o].gen].refs = entry[opener[o].gen].refs
      /\ entry'[opener[o].gen].failure
      /\ (entry'[opener[o].gen].raw_closed <=> entry[opener[o].gen].raw_closed)
      /\ (entry'[opener[o].gen].done <=> entry[opener[o].gen].done)
      /\ entry'[opener[o].gen].driver = entry[opener[o].gen].driver
  BY OpenAssumption DEF FailOpen, IInv, Shape, Threads, Entries, Standing, Attempting, Finishing, Gens
<1>4. /\ reader' = reader
      /\ registry' = registry
      /\ gens' = gens
  BY OpenAssumption DEF FailOpen
<1>5. QED
  BY <1>1, <1>2, <1>3, <1>4

\* ReaderTakesFailure: a running generation fails, and the reader finishes it.
LEMMA ReaderTakesFailureMoves ==
    ASSUME IInv, NEW g \in Gens, ReaderTakesFailure(g)
    PROVE  /\ reader[g] = "failing"
           /\ opener' = opener
           /\ \A h \in Gens \ {g} : entry'[h] = entry[h]
           /\ entry'[g].state = (IF entry[g].state = "running" THEN "failed" ELSE entry[g].state)
           /\ entry'[g].refs = entry[g].refs
           /\ (entry'[g].failure <=> entry[g].failure)
           /\ (entry'[g].raw_closed <=> entry[g].raw_closed)
           /\ (entry'[g].done <=> entry[g].done)
           /\ entry'[g].driver = entry[g].driver
           /\ \A h \in Gens \ {g} : reader'[h] = reader[h]
           /\ reader'[g] = "finish"
           /\ registry' = registry
           /\ gens' = gens
<1>1. reader[g] = "failing"
  BY OpenAssumption DEF ReaderTakesFailure
<1>2. opener' = opener
  BY OpenAssumption DEF ReaderTakesFailure
<1>3. /\ \A h \in Gens \ {g} : entry'[h] = entry[h]
      /\ entry'[g].state = (IF entry[g].state = "running" THEN "failed" ELSE entry[g].state)
      /\ entry'[g].refs = entry[g].refs
      /\ (entry'[g].failure <=> entry[g].failure)
      /\ (entry'[g].raw_closed <=> entry[g].raw_closed)
      /\ (entry'[g].done <=> entry[g].done)
      /\ entry'[g].driver = entry[g].driver
  BY OpenAssumption DEF ReaderTakesFailure, IInv, Shape, Entries
<1>4. /\ \A h \in Gens \ {g} : reader'[h] = reader[h]
      /\ reader'[g] = "finish"
      /\ registry' = registry
      /\ gens' = gens
  BY OpenAssumption DEF ReaderTakesFailure, IInv, Shape
<1>5. QED
  BY <1>1, <1>2, <1>3, <1>4

\* ReaderClaims: the first finisher of an open driver closes it.
LEMMA ReaderClaimsMoves ==
    ASSUME IInv, NEW g \in Gens, ReaderClaims(g)
    PROVE  /\ reader[g] = "finish"
           /\ opener' = opener
           /\ \A h \in Gens \ {g} : entry'[h] = entry[h]
           /\ entry'[g].state = entry[g].state
           /\ entry'[g].refs = entry[g].refs
           /\ (entry'[g].failure <=> entry[g].failure)
           /\ entry'[g].raw_closed
           /\ (entry'[g].done <=> entry[g].done)
           /\ entry'[g].driver = (IF ~entry[g].raw_closed /\ entry[g].driver = "open" THEN "closing" ELSE entry[g].driver)
           /\ \A h \in Gens \ {g} : reader'[h] = reader[h]
           /\ reader'[g] = (IF ~entry[g].raw_closed /\ entry[g].driver = "open" THEN "closing_raw" ELSE "removing")
           /\ registry' = registry
           /\ gens' = gens
<1>1. reader[g] = "finish"
  BY OpenAssumption DEF ReaderClaims, ClaimRaw, Claimant
<1>2. opener' = opener
  BY OpenAssumption DEF ReaderClaims, ClaimRaw, Claimant
<1>3. /\ \A h \in Gens \ {g} : entry'[h] = entry[h]
      /\ entry'[g].state = entry[g].state
      /\ entry'[g].refs = entry[g].refs
      /\ (entry'[g].failure <=> entry[g].failure)
      /\ entry'[g].raw_closed
      /\ (entry'[g].done <=> entry[g].done)
      /\ entry'[g].driver = (IF ~entry[g].raw_closed /\ entry[g].driver = "open" THEN "closing" ELSE entry[g].driver)
  BY OpenAssumption DEF ReaderClaims, ClaimRaw, Claimant, IInv, Shape, Entries
<1>4. /\ \A h \in Gens \ {g} : reader'[h] = reader[h]
      /\ reader'[g] = (IF ~entry[g].raw_closed /\ entry[g].driver = "open" THEN "closing_raw" ELSE "removing")
      /\ registry' = registry
      /\ gens' = gens
  BY OpenAssumption DEF ReaderClaims, ClaimRaw, Claimant, IInv, Shape
<1>5. QED
  BY <1>1, <1>2, <1>3, <1>4

\* ReaderCloses: the driver is closed.
LEMMA ReaderClosesMoves ==
    ASSUME IInv, NEW g \in Gens, ReaderCloses(g)
    PROVE  /\ reader[g] = "closing_raw"
           /\ opener' = opener
           /\ \A h \in Gens \ {g} : entry'[h] = entry[h]
           /\ entry'[g].state = entry[g].state
           /\ entry'[g].refs = entry[g].refs
           /\ (entry'[g].failure <=> entry[g].failure)
           /\ (entry'[g].raw_closed <=> entry[g].raw_closed)
           /\ (entry'[g].done <=> entry[g].done)
           /\ entry'[g].driver = "closed"
           /\ \A h \in Gens \ {g} : reader'[h] = reader[h]
           /\ reader'[g] = "removing"
           /\ registry' = registry
           /\ gens' = gens
<1>1. reader[g] = "closing_raw"
  BY OpenAssumption DEF ReaderCloses
<1>2. opener' = opener
  BY OpenAssumption DEF ReaderCloses
<1>3. /\ \A h \in Gens \ {g} : entry'[h] = entry[h]
      /\ entry'[g].state = entry[g].state
      /\ entry'[g].refs = entry[g].refs
      /\ (entry'[g].failure <=> entry[g].failure)
      /\ (entry'[g].raw_closed <=> entry[g].raw_closed)
      /\ (entry'[g].done <=> entry[g].done)
      /\ entry'[g].driver = "closed"
  BY OpenAssumption DEF ReaderCloses, IInv, Shape, Entries
<1>4. /\ \A h \in Gens \ {g} : reader'[h] = reader[h]
      /\ reader'[g] = "removing"
      /\ registry' = registry
      /\ gens' = gens
  BY OpenAssumption DEF ReaderCloses, IInv, Shape
<1>5. QED
  BY <1>1, <1>2, <1>3, <1>4

\* ReaderRemoves: the generation is closed and its key free, if it still names it; the reader says so.
LEMMA ReaderRemovesMoves ==
    ASSUME IInv, NEW g \in Gens, ReaderRemoves(g)
    PROVE  /\ reader[g] = "removing"
           /\ opener' = opener
           /\ \A h \in Gens \ {g} : entry'[h] = entry[h]
           /\ entry'[g].state = "closed"
           /\ entry'[g].refs = entry[g].refs
           /\ (entry'[g].failure <=> entry[g].failure)
           /\ (entry'[g].raw_closed <=> entry[g].raw_closed)
           /\ entry'[g].done
           /\ entry'[g].driver = entry[g].driver
           /\ \A h \in Gens \ {g} : reader'[h] = reader[h]
           /\ reader'[g] = "exited"
           /\ registry' = (IF registry = g THEN 0 ELSE registry)
           /\ gens' = gens
<1>1. reader[g] = "removing"
  BY OpenAssumption DEF ReaderRemoves, shared_remove_entry
<1>2. opener' = opener
  BY OpenAssumption DEF ReaderRemoves, shared_remove_entry
<1>3. /\ \A h \in Gens \ {g} : entry'[h] = entry[h]
      /\ entry'[g].state = "closed"
      /\ entry'[g].refs = entry[g].refs
      /\ (entry'[g].failure <=> entry[g].failure)
      /\ (entry'[g].raw_closed <=> entry[g].raw_closed)
      /\ entry'[g].done
      /\ entry'[g].driver = entry[g].driver
  BY OpenAssumption DEF ReaderRemoves, shared_remove_entry, IInv, Shape, Entries
<1>4. /\ \A h \in Gens \ {g} : reader'[h] = reader[h]
      /\ reader'[g] = "exited"
      /\ registry' = (IF registry = g THEN 0 ELSE registry)
      /\ gens' = gens
  BY OpenAssumption DEF ReaderRemoves, shared_remove_entry, IInv, Shape
<1>5. QED
  BY <1>1, <1>2, <1>3, <1>4

\* ReaderExits: the reader says that it has left.
LEMMA ReaderExitsMoves ==
    ASSUME IInv, NEW g \in Gens, ReaderExits(g)
    PROVE  /\ reader[g] = "reading" /\ entry[g].state # "running"
           /\ opener' = opener
           /\ \A h \in Gens \ {g} : entry'[h] = entry[h]
           /\ entry'[g].state = entry[g].state
           /\ entry'[g].refs = entry[g].refs
           /\ (entry'[g].failure <=> entry[g].failure)
           /\ (entry'[g].raw_closed <=> entry[g].raw_closed)
           /\ entry'[g].done
           /\ entry'[g].driver = entry[g].driver
           /\ \A h \in Gens \ {g} : reader'[h] = reader[h]
           /\ reader'[g] = "exited"
           /\ registry' = registry
           /\ gens' = gens
<1>1. reader[g] = "reading" /\ entry[g].state # "running"
  BY OpenAssumption DEF ReaderExits
<1>2. opener' = opener
  BY OpenAssumption DEF ReaderExits
<1>3. /\ \A h \in Gens \ {g} : entry'[h] = entry[h]
      /\ entry'[g].state = entry[g].state
      /\ entry'[g].refs = entry[g].refs
      /\ (entry'[g].failure <=> entry[g].failure)
      /\ (entry'[g].raw_closed <=> entry[g].raw_closed)
      /\ entry'[g].done
      /\ entry'[g].driver = entry[g].driver
  BY OpenAssumption DEF ReaderExits, IInv, Shape, Entries
<1>4. /\ \A h \in Gens \ {g} : reader'[h] = reader[h]
      /\ reader'[g] = "exited"
      /\ registry' = registry
      /\ gens' = gens
  BY OpenAssumption DEF ReaderExits, IInv, Shape
<1>5. QED
  BY <1>1, <1>2, <1>3, <1>4

\* ReaderFails: the generation fails, and the reader finishes it.
LEMMA ReaderFailsMoves ==
    ASSUME IInv, NEW g \in Gens, ReaderFails(g)
    PROVE  /\ reader[g] = "reading" /\ entry[g].state = "running"
           /\ opener' = opener
           /\ \A h \in Gens \ {g} : entry'[h] = entry[h]
           /\ entry'[g].state = "failed"
           /\ entry'[g].refs = entry[g].refs
           /\ (entry'[g].failure <=> entry[g].failure)
           /\ (entry'[g].raw_closed <=> entry[g].raw_closed)
           /\ (entry'[g].done <=> entry[g].done)
           /\ entry'[g].driver = entry[g].driver
           /\ \A h \in Gens \ {g} : reader'[h] = reader[h]
           /\ reader'[g] = "finish"
           /\ registry' = registry
           /\ gens' = gens
<1>1. reader[g] = "reading" /\ entry[g].state = "running"
  BY OpenAssumption DEF ReaderFails
<1>2. opener' = opener
  BY OpenAssumption DEF ReaderFails
<1>3. /\ \A h \in Gens \ {g} : entry'[h] = entry[h]
      /\ entry'[g].state = "failed"
      /\ entry'[g].refs = entry[g].refs
      /\ (entry'[g].failure <=> entry[g].failure)
      /\ (entry'[g].raw_closed <=> entry[g].raw_closed)
      /\ (entry'[g].done <=> entry[g].done)
      /\ entry'[g].driver = entry[g].driver
  BY OpenAssumption DEF ReaderFails, IInv, Shape, Entries
<1>4. /\ \A h \in Gens \ {g} : reader'[h] = reader[h]
      /\ reader'[g] = "finish"
      /\ registry' = registry
      /\ gens' = gens
  BY OpenAssumption DEF ReaderFails, IInv, Shape
<1>5. QED
  BY <1>1, <1>2, <1>3, <1>4

\* ReaderDrainFails: only the reader moves.
LEMMA ReaderDrainFailsMoves ==
    ASSUME IInv, NEW g \in Gens, ReaderDrainFails(g)
    PROVE  /\ reader[g] = "reading" /\ entry[g].state = "running"
           /\ opener' = opener
           /\ entry' = entry
           /\ \A h \in Gens \ {g} : reader'[h] = reader[h]
           /\ reader'[g] = "failing"
           /\ registry' = registry
           /\ gens' = gens
<1>1. reader[g] = "reading" /\ entry[g].state = "running"
  BY OpenAssumption DEF ReaderDrainFails
<1>2. opener' = opener
  BY OpenAssumption DEF ReaderDrainFails
<1>3. entry' = entry
  BY OpenAssumption DEF ReaderDrainFails
<1>4. /\ \A h \in Gens \ {g} : reader'[h] = reader[h]
      /\ reader'[g] = "failing"
      /\ registry' = registry
      /\ gens' = gens
  BY OpenAssumption DEF ReaderDrainFails, IInv, Shape
<1>5. QED
  BY <1>1, <1>2, <1>3, <1>4

-------------------------------------------------------------------------------
(* The inductive invariant *)

\* The invariant survives a waiter asking what became of its attempt: only its own record moves.
LEMMA LearnOutcomeKeeps == ASSUME IInv, NEW o \in Openers, LearnOutcome(o) PROVE IInv'
<1> USE OpenAssumption DEF IInv
<1>1. Shape'
  <2>1. opener' = [opener EXCEPT ![o] = IF entry[opener[o].waited].failure THEN [opener[o] EXCEPT !.pc = "refused"] ELSE [opener[o] EXCEPT !.waited = 0]]
    BY DEF LearnOutcome, Shape
  <2>2. opener[o] \in Threads /\ opener'[o] \in Threads
    <3>1. opener[o] \in Threads
      BY DEF Shape
    <3>2. opener'[o] = IF entry[opener[o].waited].failure THEN [opener[o] EXCEPT !.pc = "refused"] ELSE [opener[o] EXCEPT !.waited = 0]
      BY <2>1 DEF Shape
    <3>3. "refused" \in Pcs /\ 0 \in 0 .. MaxGens
      BY DEF Pcs
    <3>4. (IF entry[opener[o].waited].failure THEN [opener[o] EXCEPT !.pc = "refused"] ELSE [opener[o] EXCEPT !.waited = 0]) \in Threads
      BY <3>1, <3>3, ThreadStays
    <3>5. QED
      BY <3>1, <3>2, <3>4
  <2>3. opener' \in [Openers -> Threads]
    BY <2>1, <2>2 DEF Shape
  <2>6. entry' \in [Gens -> Entries(Int)]
    BY DEF LearnOutcome, Shape
  <2>7. /\ registry' \in 0 .. gens' /\ gens' \in 0 .. MaxGens /\ reader' \in [Gens -> ReaderPcs]
        /\ \A p \in Openers : opener'[p].gen <= gens' /\ opener'[p].waited <= gens'
    BY SMTT(90) DEF LearnOutcome, Shape, Threads, Entries, Gens, Pcs, ReaderPcs
  <2>8. QED
    BY <2>3, <2>6, <2>7 DEF Shape
<1>2. Standing'
  BY LearnOutcomeMoves DEF Standing, OneMaker, Lives, Makes, Holds, Attempting, Finishing
<1>3. OneMaker'
  BY LearnOutcomeMoves DEF Standing, OneMaker, Lives, Makes, Attempting, Finishing
<1>4. Lives'
  BY LearnOutcomeMoves DEF Shape, Gens, Standing, OneMaker, Lives, Makes, Attempting, Finishing
<1>5. Counted'
  <2>1. \A h \in Gens : entry'[h].refs = entry[h].refs
    BY LearnOutcomeMoves DEF Shape, Gens, Lives
  <2>2. \A p \in Openers, h \in Gens : Holds(p, h)' <=> Holds(p, h)
    BY LearnOutcomeMoves DEF Shape, Gens, Standing, OneMaker, Lives, Makes, Holds, Attempting, Finishing
  <2>3. QED
    BY <2>1, <2>2, SameHolders
<1>6. QED
  BY <1>1, <1>2, <1>3, <1>4, <1>5

\* ... a reservation: the new generation is the registered one, and its opener its only owner.
LEMMA ReserveKeeps == ASSUME IInv, NEW o \in Openers, Reserve(o) PROVE IInv'
<1> USE OpenAssumption DEF IInv
<1>1. Shape'
  <2>1. opener' = [opener EXCEPT ![o] = [opener[o] EXCEPT !.pc = "making", !.gen = gens + 1]]
    BY DEF Reserve, WaitedIsGone, Shape
  <2>2. opener[o] \in Threads /\ opener'[o] \in Threads
    <3>1. opener[o] \in Threads
      BY DEF Shape
    <3>2. opener'[o] = [opener[o] EXCEPT !.pc = "making", !.gen = gens + 1]
      BY <2>1 DEF Shape
    <3>3. "making" \in Pcs /\ gens + 1 \in 0 .. MaxGens
      BY DEF Pcs, Reserve, Shape
    <3>4. ([opener[o] EXCEPT !.pc = "making", !.gen = gens + 1]) \in Threads
      BY <3>1, <3>3, ThreadStays
    <3>5. QED
      BY <3>1, <3>2, <3>4
  <2>3. opener' \in [Openers -> Threads]
    BY <2>1, <2>2 DEF Shape
  <2>4. gens + 1 \in Gens /\ entry' = [entry EXCEPT ![gens + 1] = [NoEntry EXCEPT !.state = "opening", !.spec = opener[o].spec]]
    BY DEF Reserve, WaitedIsGone, Shape, Gens, Standing, Attempting, Finishing, Threads
  <2>5. entry'[gens + 1] \in Entries(Int)
    <3>1. entry[gens + 1] \in Entries(Int)
      BY <2>4 DEF Shape
    <3>2. entry'[gens + 1] = [NoEntry EXCEPT !.state = "opening", !.spec = opener[o].spec]
      BY <2>4 DEF Shape
    <3>3. opener[o].spec \in Specs \cup {"none"}
      BY <2>2, SMTT(90) DEF Threads
    <3>4. [NoEntry EXCEPT !.state = "opening", !.spec = opener[o].spec] \in Entries(Int)
      BY <3>3, EntryStays, NoEntryType
    <3>5. QED
      BY <3>2, <3>4
  <2>6. entry' \in [Gens -> Entries(Int)]
    BY <2>4, <2>5 DEF Shape
  <2>7. /\ registry' \in 0 .. gens' /\ gens' \in 0 .. MaxGens /\ reader' \in [Gens -> ReaderPcs]
        /\ \A p \in Openers : opener'[p].gen <= gens' /\ opener'[p].waited <= gens'
    BY SMTT(90) DEF Reserve, WaitedIsGone, NoEntry, Shape, Threads, Entries, Gens, Pcs, ReaderPcs
  <2>8. QED
    BY <2>3, <2>6, <2>7 DEF Shape
<1>2. /\ \A p \in Openers : opener[p].gen # gens + 1
      /\ entry[gens + 1].state = "none" /\ reader[gens + 1] = "none"
  <2>1. gens \in Int /\ \A p \in Openers : opener[p].gen \in Int /\ opener[p].gen <= gens
    BY DEF Shape, Threads
  <2>2. gens + 1 \in Gens
    BY ReserveMoves
  <2>3. entry[gens + 1].state = "none" /\ reader[gens + 1] = "none"
    BY <2>1, <2>2 DEF Lives
  <2>4. QED
    BY <2>1, <2>3
<1>3. Standing'
  BY <1>2, ReserveMoves DEF Standing, OneMaker, Lives, Makes, Holds, Attempting, Finishing
<1>4. OneMaker'
  BY <1>2, ReserveMoves DEF Standing, OneMaker, Lives, Makes, Attempting, Finishing
<1>5. Lives'
  BY ReserveMoves DEF Shape, Gens, Standing, OneMaker, Lives, Makes, Attempting, Finishing
<1>6. Counted'
  <2>1. \A h \in Gens : entry'[h].refs = entry[h].refs
    BY ReserveMoves DEF Shape, Gens, Lives
  <2>2. \A p \in Openers, h \in Gens : Holds(p, h)' <=> Holds(p, h)
    BY ReserveMoves DEF Shape, Gens, Standing, OneMaker, Lives, Makes, Holds, Attempting, Finishing
  <2>3. QED
    BY <2>1, <2>2, SameHolders
<1>7. QED
  BY <1>1, <1>3, <1>4, <1>5, <1>6

\* ... the end of a wait for an opening.
LEMMA SettledKeeps == ASSUME IInv, NEW o \in Openers, Settled(o) PROVE IInv'
<1> USE OpenAssumption DEF IInv
<1>1. Shape'
  <2>1. opener' = [opener EXCEPT ![o] = [opener[o] EXCEPT !.pc = "loop"]]
    BY DEF Settled, Shape
  <2>2. opener[o] \in Threads /\ opener'[o] \in Threads
    <3>1. opener[o] \in Threads
      BY DEF Shape
    <3>2. opener'[o] = [opener[o] EXCEPT !.pc = "loop"]
      BY <2>1 DEF Shape
    <3>3. QED
      BY <3>1, <3>2, ZenonT(90) DEF Settled, Threads, Pcs, Shape, Standing, Finishing, Attempting, Gens
  <2>3. opener' \in [Openers -> Threads]
    BY <2>1, <2>2 DEF Shape
  <2>6. entry' \in [Gens -> Entries(Int)]
    BY DEF Settled, Shape
  <2>7. /\ registry' \in 0 .. gens' /\ gens' \in 0 .. MaxGens /\ reader' \in [Gens -> ReaderPcs]
        /\ \A p \in Openers : opener'[p].gen <= gens' /\ opener'[p].waited <= gens'
    BY DEF Settled, Shape, Threads, Entries, Gens, Pcs, ReaderPcs
  <2>8. QED
    BY <2>3, <2>6, <2>7 DEF Shape
<1>2. Standing'
  BY SettledMoves DEF Standing, OneMaker, Lives, Makes, Holds, Attempting, Finishing
<1>3. OneMaker'
  BY SettledMoves DEF Standing, OneMaker, Lives, Makes, Attempting, Finishing
<1>4. Lives'
  BY SettledMoves DEF Shape, Gens, Standing, OneMaker, Lives, Makes, Attempting, Finishing
<1>5. Counted'
  <2>1. \A h \in Gens : entry'[h].refs = entry[h].refs
    BY SettledMoves DEF Shape, Gens, Lives
  <2>2. \A p \in Openers, h \in Gens : Holds(p, h)' <=> Holds(p, h)
    BY SettledMoves DEF Shape, Gens, Standing, OneMaker, Lives, Makes, Holds, Attempting, Finishing
  <2>3. QED
    BY <2>1, <2>2, SameHolders
<1>6. QED
  BY <1>1, <1>2, <1>3, <1>4, <1>5

\* ... the end of a wait for a generation on its way out.
LEMMA SleepEndsKeeps == ASSUME IInv, NEW o \in Openers, SleepEnds(o) PROVE IInv'
<1> USE OpenAssumption DEF IInv
<1>1. Shape'
  <2>1. opener' = [opener EXCEPT ![o] = [opener[o] EXCEPT !.pc = "loop"]]
    BY DEF SleepEnds, Shape
  <2>2. opener[o] \in Threads /\ opener'[o] \in Threads
    <3>1. opener[o] \in Threads
      BY DEF Shape
    <3>2. opener'[o] = [opener[o] EXCEPT !.pc = "loop"]
      BY <2>1 DEF Shape
    <3>3. QED
      BY <3>1, <3>2, ZenonT(90) DEF SleepEnds, Threads, Pcs, Shape, Standing, Finishing, Attempting, Gens
  <2>3. opener' \in [Openers -> Threads]
    BY <2>1, <2>2 DEF Shape
  <2>6. entry' \in [Gens -> Entries(Int)]
    BY DEF SleepEnds, Shape
  <2>7. /\ registry' \in 0 .. gens' /\ gens' \in 0 .. MaxGens /\ reader' \in [Gens -> ReaderPcs]
        /\ \A p \in Openers : opener'[p].gen <= gens' /\ opener'[p].waited <= gens'
    BY DEF SleepEnds, Shape, Threads, Entries, Gens, Pcs, ReaderPcs
  <2>8. QED
    BY <2>3, <2>6, <2>7 DEF Shape
<1>2. Standing'
  BY SleepEndsMoves DEF Standing, OneMaker, Lives, Makes, Holds, Attempting, Finishing
<1>3. OneMaker'
  BY SleepEndsMoves DEF Standing, OneMaker, Lives, Makes, Attempting, Finishing
<1>4. Lives'
  BY SleepEndsMoves DEF Shape, Gens, Standing, OneMaker, Lives, Makes, Attempting, Finishing
<1>5. Counted'
  <2>1. \A h \in Gens : entry'[h].refs = entry[h].refs
    BY SleepEndsMoves DEF Shape, Gens, Lives
  <2>2. \A p \in Openers, h \in Gens : Holds(p, h)' <=> Holds(p, h)
    BY SleepEndsMoves DEF Shape, Gens, Standing, OneMaker, Lives, Makes, Holds, Attempting, Finishing
  <2>3. QED
    BY <2>1, <2>2, SameHolders
<1>6. QED
  BY <1>1, <1>2, <1>3, <1>4, <1>5

\* ... a refused contradiction, which touches no generation.
LEMMA FoundConflictKeeps == ASSUME IInv, NEW o \in Openers, FoundConflict(o) PROVE IInv'
<1> USE OpenAssumption DEF IInv
<1>1. Shape'
  <2>1. opener' = [opener EXCEPT ![o] = [opener[o] EXCEPT !.pc = "conflict"]]
    BY DEF FoundConflict, Shape
  <2>2. opener[o] \in Threads /\ opener'[o] \in Threads
    <3>1. opener[o] \in Threads
      BY DEF Shape
    <3>2. opener'[o] = [opener[o] EXCEPT !.pc = "conflict"]
      BY <2>1 DEF Shape
    <3>3. QED
      BY <3>1, <3>2, ZenonT(90) DEF FoundConflict, Threads, Pcs, Shape, Standing, Finishing, Attempting, Gens
  <2>3. opener' \in [Openers -> Threads]
    BY <2>1, <2>2 DEF Shape
  <2>6. entry' \in [Gens -> Entries(Int)]
    BY DEF FoundConflict, Shape
  <2>7. /\ registry' \in 0 .. gens' /\ gens' \in 0 .. MaxGens /\ reader' \in [Gens -> ReaderPcs]
        /\ \A p \in Openers : opener'[p].gen <= gens' /\ opener'[p].waited <= gens'
    BY DEF FoundConflict, Shape, Threads, Entries, Gens, Pcs, ReaderPcs
  <2>8. QED
    BY <2>3, <2>6, <2>7 DEF Shape
<1>2. Standing'
  BY FoundConflictMoves DEF Standing, OneMaker, Lives, Makes, Holds, Attempting, Finishing
<1>3. OneMaker'
  BY FoundConflictMoves DEF Standing, OneMaker, Lives, Makes, Attempting, Finishing
<1>4. Lives'
  BY FoundConflictMoves DEF Shape, Gens, Standing, OneMaker, Lives, Makes, Attempting, Finishing
<1>5. Counted'
  <2>1. \A h \in Gens : entry'[h].refs = entry[h].refs
    BY FoundConflictMoves DEF Shape, Gens, Lives
  <2>2. \A p \in Openers, h \in Gens : Holds(p, h)' <=> Holds(p, h)
    BY FoundConflictMoves DEF Shape, Gens, Standing, OneMaker, Lives, Makes, Holds, Attempting, Finishing
  <2>3. QED
    BY <2>1, <2>2, SameHolders
<1>6. QED
  BY <1>1, <1>2, <1>3, <1>4, <1>5

\* ... a caller that starts to wait for an opening that is registered.
LEMMA FoundOpeningKeeps == ASSUME IInv, NEW o \in Openers, FoundOpening(o) PROVE IInv'
<1> USE OpenAssumption DEF IInv
<1>1. Shape'
  <2>1. opener' = [opener EXCEPT ![o] = [opener[o] EXCEPT !.pc = "settling", !.waited = registry]]
    BY DEF FoundOpening, Shape
  <2>2. opener[o] \in Threads /\ opener'[o] \in Threads
    <3>1. opener[o] \in Threads
      BY DEF Shape
    <3>2. opener'[o] = [opener[o] EXCEPT !.pc = "settling", !.waited = registry]
      BY <2>1 DEF Shape
    <3>3. "settling" \in Pcs /\ registry \in 0 .. MaxGens
      BY DEF Pcs, Shape
    <3>4. ([opener[o] EXCEPT !.pc = "settling", !.waited = registry]) \in Threads
      BY <3>1, <3>3, ThreadStays
    <3>5. QED
      BY <3>1, <3>2, <3>4
  <2>3. opener' \in [Openers -> Threads]
    BY <2>1, <2>2 DEF Shape
  <2>6. entry' \in [Gens -> Entries(Int)]
    BY DEF FoundOpening, Shape
  <2>7. /\ registry' \in 0 .. gens' /\ gens' \in 0 .. MaxGens /\ reader' \in [Gens -> ReaderPcs]
        /\ \A p \in Openers : opener'[p].gen <= gens' /\ opener'[p].waited <= gens'
    BY SMTT(90) DEF FoundOpening, Shape, Threads, Entries, Gens, Pcs, ReaderPcs
  <2>8. QED
    BY <2>3, <2>6, <2>7 DEF Shape
<1>2. Standing'
  BY FoundOpeningMoves DEF Standing, OneMaker, Lives, Makes, Holds, Attempting, Finishing
<1>3. OneMaker'
  BY FoundOpeningMoves DEF Standing, OneMaker, Lives, Makes, Attempting, Finishing
<1>4. Lives'
  BY FoundOpeningMoves DEF Shape, Gens, Standing, OneMaker, Lives, Makes, Attempting, Finishing
<1>5. Counted'
  <2>1. \A h \in Gens : entry'[h].refs = entry[h].refs
    BY FoundOpeningMoves DEF Shape, Gens, Lives
  <2>2. \A p \in Openers, h \in Gens : Holds(p, h)' <=> Holds(p, h)
    BY FoundOpeningMoves DEF Shape, Gens, Standing, OneMaker, Lives, Makes, Holds, Attempting, Finishing
  <2>3. QED
    BY <2>1, <2>2, SameHolders
<1>6. QED
  BY <1>1, <1>2, <1>3, <1>4, <1>5

\* ... a caller that waits for a generation to leave.
LEMMA FoundLeavingKeeps == ASSUME IInv, NEW o \in Openers, FoundLeaving(o) PROVE IInv'
<1> USE OpenAssumption DEF IInv
<1>1. Shape'
  <2>1. opener' = [opener EXCEPT ![o] = [opener[o] EXCEPT !.pc = IF opener[o].waited # 0 THEN "unsettled" ELSE "asleep"]]
    BY DEF FoundLeaving, Shape
  <2>2. opener[o] \in Threads /\ opener'[o] \in Threads
    <3>1. opener[o] \in Threads
      BY DEF Shape
    <3>2. opener'[o] = [opener[o] EXCEPT !.pc = IF opener[o].waited # 0 THEN "unsettled" ELSE "asleep"]
      BY <2>1 DEF Shape
    <3>3. QED
      BY <3>1, <3>2, ZenonT(90) DEF FoundLeaving, Threads, Pcs, Shape, Standing, Finishing, Attempting, Gens
  <2>3. opener' \in [Openers -> Threads]
    BY <2>1, <2>2 DEF Shape
  <2>6. entry' \in [Gens -> Entries(Int)]
    BY DEF FoundLeaving, Shape
  <2>7. /\ registry' \in 0 .. gens' /\ gens' \in 0 .. MaxGens /\ reader' \in [Gens -> ReaderPcs]
        /\ \A p \in Openers : opener'[p].gen <= gens' /\ opener'[p].waited <= gens'
    BY DEF FoundLeaving, Shape, Threads, Entries, Gens, Pcs, ReaderPcs
  <2>8. QED
    BY <2>3, <2>6, <2>7 DEF Shape
<1>2. Standing'
  BY FoundLeavingMoves DEF Standing, OneMaker, Lives, Makes, Holds, Attempting, Finishing
<1>3. OneMaker'
  BY FoundLeavingMoves DEF Standing, OneMaker, Lives, Makes, Attempting, Finishing
<1>4. Lives'
  BY FoundLeavingMoves DEF Shape, Gens, Standing, OneMaker, Lives, Makes, Attempting, Finishing
<1>5. Counted'
  <2>1. \A h \in Gens : entry'[h].refs = entry[h].refs
    BY FoundLeavingMoves DEF Shape, Gens, Lives
  <2>2. \A p \in Openers, h \in Gens : Holds(p, h)' <=> Holds(p, h)
    BY FoundLeavingMoves DEF Shape, Gens, Standing, OneMaker, Lives, Makes, Holds, Attempting, Finishing
  <2>3. QED
    BY <2>1, <2>2, SameHolders
<1>6. QED
  BY <1>1, <1>2, <1>3, <1>4, <1>5

\* ... a join: one reference and one handle more on the same generation.
LEMMA FoundRunningKeeps == ASSUME IInv, NEW o \in Openers, FoundRunning(o) PROVE IInv'
<1> USE OpenAssumption DEF IInv
<1>1. Shape'
  <2>1. opener' = [opener EXCEPT ![o] = [opener[o] EXCEPT !.pc = "admit", !.gen = registry]]
    BY DEF FoundRunning, Shape
  <2>2. opener[o] \in Threads /\ opener'[o] \in Threads
    <3>1. opener[o] \in Threads
      BY DEF Shape
    <3>2. opener'[o] = [opener[o] EXCEPT !.pc = "admit", !.gen = registry]
      BY <2>1 DEF Shape
    <3>3. "admit" \in Pcs /\ registry \in 0 .. MaxGens
      BY SMTT(90) DEF Pcs, Shape
    <3>4. ([opener[o] EXCEPT !.pc = "admit", !.gen = registry]) \in Threads
      BY <3>1, <3>3, ThreadStays
    <3>5. QED
      BY <3>1, <3>2, <3>4
  <2>3. opener' \in [Openers -> Threads]
    BY <2>1, <2>2 DEF Shape
  <2>4. registry \in Gens /\ entry' = [entry EXCEPT ![registry] = [entry[registry] EXCEPT !.refs = entry[registry].refs + 1]]
    BY DEF FoundRunning, Shape, Gens, Standing, Attempting, Finishing, Threads
  <2>5. entry'[registry] \in Entries(Int)
    <3>1. entry[registry] \in Entries(Int)
      BY <2>4 DEF Shape
    <3>2. entry'[registry] = [entry[registry] EXCEPT !.refs = entry[registry].refs + 1]
      BY <2>4, SMTT(90) DEF Shape
    <3>3. entry[registry].refs \in Int
      BY <3>1, EntryStays
    <3>4. entry[registry].refs + 1 \in Int
      BY <3>3, SMTT(90)
    <3>5. [entry[registry] EXCEPT !.refs = entry[registry].refs + 1] \in Entries(Int)
      BY <3>1, <3>4, EntryStays
    <3>6. QED
      BY <3>2, <3>5
  <2>6. entry' \in [Gens -> Entries(Int)]
    BY <2>4, <2>5 DEF Shape
  <2>7. /\ registry' \in 0 .. gens' /\ gens' \in 0 .. MaxGens /\ reader' \in [Gens -> ReaderPcs]
        /\ \A p \in Openers : opener'[p].gen <= gens' /\ opener'[p].waited <= gens'
    BY SMTT(90) DEF FoundRunning, Shape, Threads, Entries, Gens, Pcs, ReaderPcs
  <2>8. QED
    BY <2>3, <2>6, <2>7 DEF Shape
<1>2. Standing'
  BY FoundRunningMoves DEF Standing, OneMaker, Lives, Makes, Holds, Attempting, Finishing
<1>3. OneMaker'
  BY FoundRunningMoves DEF Standing, OneMaker, Lives, Makes, Attempting, Finishing
<1>4. Lives'
  BY FoundRunningMoves DEF Shape, Gens, Standing, OneMaker, Lives, Makes, Attempting, Finishing
<1>5. Counted'
  <2>1. ~Holds(o, registry) /\ registry \in Gens
    BY FoundRunningMoves DEF Standing, Lives, Holds, Attempting, Finishing
  <2>2. \A h \in Gens : entry'[h].refs = IF h = registry THEN entry[h].refs + 1 ELSE entry[h].refs
    BY FoundRunningMoves
  <2>3. \A p \in Openers, h \in Gens : Holds(p, h)' <=> (Holds(p, h) \/ (p = o /\ h = registry))
    BY FoundRunningMoves DEF Standing, Lives, Holds, Attempting, Finishing
  <2>4. QED
    BY <2>1, <2>2, <2>3, OneMore
<1>6. QED
  BY <1>1, <1>2, <1>3, <1>4, <1>5

\* ... a factory that returns: the driver is its opener's.
LEMMA MadeKeeps == ASSUME IInv, NEW o \in Openers, Made(o) PROVE IInv'
<1> USE OpenAssumption DEF IInv
<1>1. Shape'
  <2>1. opener' = [opener EXCEPT ![o] = [opener[o] EXCEPT !.pc = "reconciling"]]
    BY DEF Made, Shape
  <2>2. opener[o] \in Threads /\ opener'[o] \in Threads
    <3>1. opener[o] \in Threads
      BY DEF Shape
    <3>2. opener'[o] = [opener[o] EXCEPT !.pc = "reconciling"]
      BY <2>1 DEF Shape
    <3>3. QED
      BY <3>1, <3>2, ZenonT(90) DEF Made, Threads, Pcs, Shape, Standing, Finishing, Attempting, Gens
  <2>3. opener' \in [Openers -> Threads]
    BY <2>1, <2>2 DEF Shape
  <2>4. opener[o].gen \in Gens /\ entry' = [entry EXCEPT ![opener[o].gen] = [entry[opener[o].gen] EXCEPT !.driver = "open"]]
    BY DEF Made, Shape, Gens, Standing, Attempting, Finishing, Threads
  <2>5. entry'[opener[o].gen] \in Entries(Int)
    <3>1. entry[opener[o].gen] \in Entries(Int)
      BY <2>4 DEF Shape
    <3>2. entry'[opener[o].gen] = [entry[opener[o].gen] EXCEPT !.driver = "open"]
      BY <2>4 DEF Shape
    <3>3. [entry[opener[o].gen] EXCEPT !.driver = "open"] \in Entries(Int)
      BY <3>1 DEF Entries
    <3>4. QED
      BY <3>2, <3>3
  <2>6. entry' \in [Gens -> Entries(Int)]
    BY <2>4, <2>5 DEF Shape
  <2>7. /\ registry' \in 0 .. gens' /\ gens' \in 0 .. MaxGens /\ reader' \in [Gens -> ReaderPcs]
        /\ \A p \in Openers : opener'[p].gen <= gens' /\ opener'[p].waited <= gens'
    BY SMTT(90) DEF Made, Shape, Threads, Entries, Gens, Pcs, ReaderPcs
  <2>8. QED
    BY <2>3, <2>6, <2>7 DEF Shape
<1>2. Standing'
  BY MadeMoves DEF Standing, OneMaker, Lives, Makes, Holds, Attempting, Finishing
<1>3. OneMaker'
  BY MadeMoves DEF Standing, OneMaker, Lives, Makes, Attempting, Finishing
<1>4. Lives'
  BY MadeMoves DEF Shape, Gens, Standing, OneMaker, Lives, Makes, Attempting, Finishing
<1>5. Counted'
  <2>1. \A h \in Gens : entry'[h].refs = entry[h].refs
    BY MadeMoves DEF Shape, Gens, Lives
  <2>2. \A p \in Openers, h \in Gens : Holds(p, h)' <=> Holds(p, h)
    BY MadeMoves DEF Shape, Gens, Standing, OneMaker, Lives, Makes, Holds, Attempting, Finishing
  <2>3. QED
    BY <2>1, <2>2, SameHolders
<1>6. QED
  BY <1>1, <1>2, <1>3, <1>4, <1>5

\* ... a factory that fails: no driver and no handle.
LEMMA MakeFailsKeeps == ASSUME IInv, NEW o \in Openers, MakeFails(o) PROVE IInv'
<1> USE OpenAssumption DEF IInv
<1>1. Shape'
  <2>1. opener' = [opener EXCEPT ![o] = [opener[o] EXCEPT !.pc = "finish", !.after = "settle"]]
    BY DEF MakeFails, FailOpen, Shape
  <2>2. opener[o] \in Threads /\ opener'[o] \in Threads
    <3>1. opener[o] \in Threads
      BY DEF Shape
    <3>2. opener'[o] = [opener[o] EXCEPT !.pc = "finish", !.after = "settle"]
      BY <2>1 DEF Shape
    <3>3. QED
      BY <3>1, <3>2, ZenonT(90) DEF MakeFails, FailOpen, Threads, Pcs, Shape, Standing, Finishing, Attempting, Gens
  <2>3. opener' \in [Openers -> Threads]
    BY <2>1, <2>2 DEF Shape
  <2>4. opener[o].gen \in Gens /\ entry' = [entry EXCEPT ![opener[o].gen] = [entry[opener[o].gen] EXCEPT !.state = "failed", !.failure = TRUE]]
    BY DEF MakeFails, FailOpen, Shape, Gens, Standing, Attempting, Finishing, Threads
  <2>5. entry'[opener[o].gen] \in Entries(Int)
    <3>1. entry[opener[o].gen] \in Entries(Int)
      BY <2>4 DEF Shape
    <3>2. entry'[opener[o].gen] = [entry[opener[o].gen] EXCEPT !.state = "failed", !.failure = TRUE]
      BY <2>4 DEF Shape
    <3>3. [entry[opener[o].gen] EXCEPT !.state = "failed", !.failure = TRUE] \in Entries(Int)
      BY <3>1 DEF Entries
    <3>4. QED
      BY <3>2, <3>3
  <2>6. entry' \in [Gens -> Entries(Int)]
    BY <2>4, <2>5 DEF Shape
  <2>7. /\ registry' \in 0 .. gens' /\ gens' \in 0 .. MaxGens /\ reader' \in [Gens -> ReaderPcs]
        /\ \A p \in Openers : opener'[p].gen <= gens' /\ opener'[p].waited <= gens'
    BY DEF MakeFails, FailOpen, Shape, Threads, Entries, Gens, Pcs, ReaderPcs
  <2>8. QED
    BY <2>3, <2>6, <2>7 DEF Shape
<1>2. Standing'
  BY MakeFailsMoves DEF Standing, OneMaker, Lives, Makes, Holds, Attempting, Finishing
<1>3. OneMaker'
  BY MakeFailsMoves DEF Standing, OneMaker, Lives, Makes, Attempting, Finishing
<1>4. Lives'
  BY MakeFailsMoves DEF Shape, Gens, Standing, OneMaker, Lives, Makes, Attempting, Finishing
<1>5. Counted'
  <2>1. \A h \in Gens : entry'[h].refs = entry[h].refs
    BY MakeFailsMoves DEF Shape, Gens, Lives
  <2>2. \A p \in Openers, h \in Gens : Holds(p, h)' <=> Holds(p, h)
    BY MakeFailsMoves DEF Shape, Gens, Standing, OneMaker, Lives, Makes, Holds, Attempting, Finishing
  <2>3. QED
    BY <2>1, <2>2, SameHolders
<1>6. QED
  BY <1>1, <1>2, <1>3, <1>4, <1>5

\* ... the policy step: the generation runs, with its opener's handle as its one reference.
LEMMA ReconciledKeeps == ASSUME IInv, NEW o \in Openers, Reconciled(o) PROVE IInv'
<1> USE OpenAssumption DEF IInv
<1>1. Shape'
  <2>1. opener' = [opener EXCEPT ![o] = [opener[o] EXCEPT !.pc = "settle"]]
    BY DEF Reconciled, Shape
  <2>2. opener[o] \in Threads /\ opener'[o] \in Threads
    <3>1. opener[o] \in Threads
      BY DEF Shape
    <3>2. opener'[o] = [opener[o] EXCEPT !.pc = "settle"]
      BY <2>1 DEF Shape
    <3>3. QED
      BY <3>1, <3>2, ZenonT(90) DEF Reconciled, Threads, Pcs, Shape, Standing, Finishing, Attempting, Gens
  <2>3. opener' \in [Openers -> Threads]
    BY <2>1, <2>2 DEF Shape
  <2>4. opener[o].gen \in Gens /\ entry' = [entry EXCEPT ![opener[o].gen] = [entry[opener[o].gen] EXCEPT !.state = "running", !.refs = 1]]
    BY DEF Reconciled, Shape, Gens, Standing, Attempting, Finishing, Threads
  <2>5. entry'[opener[o].gen] \in Entries(Int)
    <3>1. entry[opener[o].gen] \in Entries(Int)
      BY <2>4 DEF Shape
    <3>2. entry'[opener[o].gen] = [entry[opener[o].gen] EXCEPT !.state = "running", !.refs = 1]
      BY <2>4 DEF Shape
    <3>3. entry[opener[o].gen].refs \in Int
      BY <3>1, EntryStays
    <3>4. 1 \in Int
      BY <3>3
    <3>5. [entry[opener[o].gen] EXCEPT !.state = "running", !.refs = 1] \in Entries(Int)
      BY <3>1, <3>4, EntryStays
    <3>6. QED
      BY <3>2, <3>5
  <2>6. entry' \in [Gens -> Entries(Int)]
    BY <2>4, <2>5 DEF Shape
  <2>7. /\ registry' \in 0 .. gens' /\ gens' \in 0 .. MaxGens /\ reader' \in [Gens -> ReaderPcs]
        /\ \A p \in Openers : opener'[p].gen <= gens' /\ opener'[p].waited <= gens'
    BY ZenonT(90) DEF Reconciled, Shape, Threads, Entries, Gens, Pcs, ReaderPcs
  <2>8. QED
    BY <2>3, <2>6, <2>7 DEF Shape
<1>2. Standing'
  BY ReconciledMoves DEF Standing, OneMaker, Lives, Makes, Holds, Attempting, Finishing
<1>3. OneMaker'
  BY ReconciledMoves DEF Standing, OneMaker, Lives, Makes, Attempting, Finishing
<1>4. Lives'
  BY ReconciledMoves DEF Shape, Gens, Standing, OneMaker, Lives, Makes, Attempting, Finishing
<1>5. Counted'
  <2>1. ~Holds(o, opener[o].gen) /\ opener[o].gen \in Gens
    BY ReconciledMoves DEF Standing, Lives, Holds, Attempting, Finishing
  <2>2. \A h \in Gens : entry'[h].refs = IF h = opener[o].gen THEN entry[h].refs + 1 ELSE entry[h].refs
    BY ReconciledMoves DEF Standing, Lives, Attempting
  <2>3. \A p \in Openers, h \in Gens : Holds(p, h)' <=> (Holds(p, h) \/ (p = o /\ h = opener[o].gen))
    BY ReconciledMoves DEF Standing, Lives, Holds, Attempting, Finishing
  <2>4. QED
    BY <2>1, <2>2, <2>3, OneMore
<1>6. QED
  BY <1>1, <1>2, <1>3, <1>4, <1>5

\* ... the settling of an opening's waiters.
LEMMA SettleKeeps == ASSUME IInv, NEW o \in Openers, Settle(o) PROVE IInv'
<1> USE OpenAssumption DEF IInv
<1>1. Shape'
  <2>1. opener' = [opener EXCEPT ![o] = [opener[o] EXCEPT !.pc = IF entry[opener[o].gen].failure THEN "refused" ELSE "open"]]
    BY DEF Settle, Shape
  <2>2. opener[o] \in Threads /\ opener'[o] \in Threads
    <3>1. opener[o] \in Threads
      BY DEF Shape
    <3>2. opener'[o] = [opener[o] EXCEPT !.pc = IF entry[opener[o].gen].failure THEN "refused" ELSE "open"]
      BY <2>1 DEF Shape
    <3>3. QED
      BY <3>1, <3>2, ZenonT(90) DEF Settle, Threads, Pcs, Shape, Standing, Finishing, Attempting, Gens
  <2>3. opener' \in [Openers -> Threads]
    BY <2>1, <2>2 DEF Shape
  <2>4. opener[o].gen \in Gens /\ entry' = [entry EXCEPT ![opener[o].gen] = [entry[opener[o].gen] EXCEPT !.settled = TRUE]]
    BY DEF Settle, Shape, Gens, Standing, Attempting, Finishing, Threads
  <2>5. entry'[opener[o].gen] \in Entries(Int)
    <3>1. entry[opener[o].gen] \in Entries(Int)
      BY <2>4 DEF Shape
    <3>2. entry'[opener[o].gen] = [entry[opener[o].gen] EXCEPT !.settled = TRUE]
      BY <2>4 DEF Shape
    <3>3. [entry[opener[o].gen] EXCEPT !.settled = TRUE] \in Entries(Int)
      BY <3>1 DEF Entries
    <3>4. QED
      BY <3>2, <3>3
  <2>6. entry' \in [Gens -> Entries(Int)]
    BY <2>4, <2>5 DEF Shape
  <2>7. /\ registry' \in 0 .. gens' /\ gens' \in 0 .. MaxGens /\ reader' \in [Gens -> ReaderPcs]
        /\ \A p \in Openers : opener'[p].gen <= gens' /\ opener'[p].waited <= gens'
    BY DEF Settle, Shape, Threads, Entries, Gens, Pcs, ReaderPcs
  <2>8. QED
    BY <2>3, <2>6, <2>7 DEF Shape
<1>2. Standing'
  BY SettleMoves DEF Standing, OneMaker, Lives, Makes, Holds, Attempting, Finishing
<1>3. OneMaker'
  BY SettleMoves DEF Standing, OneMaker, Lives, Makes, Attempting, Finishing
<1>4. Lives'
  BY SettleMoves DEF Shape, Gens, Standing, OneMaker, Lives, Makes, Attempting, Finishing
<1>5. Counted'
  <2>1. \A h \in Gens : entry'[h].refs = entry[h].refs
    BY SettleMoves DEF Shape, Gens, Lives
  <2>2. \A p \in Openers, h \in Gens : Holds(p, h)' <=> Holds(p, h)
    <3>1. \A h \in Gens : entry'[h].failure <=> entry[h].failure
      BY SettleMoves
    <3>2. \A h \in Gens : Holds(o, h)' <=> Holds(o, h)
      BY SettleMoves, <3>1 DEF Holds, Finishing
    <3>3. \A p \in Openers \ {o}, h \in Gens : Holds(p, h)' <=> Holds(p, h)
      BY SettleMoves, <3>1 DEF Holds
    <3>4. QED
      BY <3>2, <3>3
  <2>3. QED
    BY <2>1, <2>2, SameHolders
<1>6. QED
  BY <1>1, <1>2, <1>3, <1>4, <1>5

\* ... an admission that succeeds.
LEMMA AdmittedKeeps == ASSUME IInv, NEW o \in Openers, Admitted(o) PROVE IInv'
<1> USE OpenAssumption DEF IInv
<1>1. Shape'
  <2>1. opener' = [opener EXCEPT ![o] = [opener[o] EXCEPT !.pc = "open"]]
    BY DEF Admitted, Shape
  <2>2. opener[o] \in Threads /\ opener'[o] \in Threads
    <3>1. opener[o] \in Threads
      BY DEF Shape
    <3>2. opener'[o] = [opener[o] EXCEPT !.pc = "open"]
      BY <2>1 DEF Shape
    <3>3. QED
      BY <3>1, <3>2, ZenonT(90) DEF Admitted, Threads, Pcs, Shape, Standing, Finishing, Attempting, Gens
  <2>3. opener' \in [Openers -> Threads]
    BY <2>1, <2>2 DEF Shape
  <2>6. entry' \in [Gens -> Entries(Int)]
    BY DEF Admitted, Shape
  <2>7. /\ registry' \in 0 .. gens' /\ gens' \in 0 .. MaxGens /\ reader' \in [Gens -> ReaderPcs]
        /\ \A p \in Openers : opener'[p].gen <= gens' /\ opener'[p].waited <= gens'
    BY DEF Admitted, Shape, Threads, Entries, Gens, Pcs, ReaderPcs
  <2>8. QED
    BY <2>3, <2>6, <2>7 DEF Shape
<1>2. Standing'
  BY AdmittedMoves DEF Standing, OneMaker, Lives, Makes, Holds, Attempting, Finishing
<1>3. OneMaker'
  BY AdmittedMoves DEF Standing, OneMaker, Lives, Makes, Attempting, Finishing
<1>4. Lives'
  BY AdmittedMoves DEF Shape, Gens, Standing, OneMaker, Lives, Makes, Attempting, Finishing
<1>5. Counted'
  <2>1. \A h \in Gens : entry'[h].refs = entry[h].refs
    BY AdmittedMoves DEF Shape, Gens, Lives
  <2>2. \A p \in Openers, h \in Gens : Holds(p, h)' <=> Holds(p, h)
    BY AdmittedMoves DEF Shape, Gens, Standing, OneMaker, Lives, Makes, Holds, Attempting, Finishing
  <2>3. QED
    BY <2>1, <2>2, SameHolders
<1>6. QED
  BY <1>1, <1>2, <1>3, <1>4, <1>5

\* ... an admission refused because the generation left meanwhile.
LEMMA AdmitRefusedKeeps == ASSUME IInv, NEW o \in Openers, AdmitRefused(o) PROVE IInv'
<1> USE OpenAssumption DEF IInv
<1>1. Shape'
  <2>1. opener' = [opener EXCEPT ![o] = [opener[o] EXCEPT !.pc = "release", !.after = IF entry[opener[o].gen].state = "running" THEN "idle" ELSE "loop"]]
    BY DEF AdmitRefused, Shape
  <2>2. opener[o] \in Threads /\ opener'[o] \in Threads
    <3>1. opener[o] \in Threads
      BY DEF Shape
    <3>2. opener'[o] = [opener[o] EXCEPT !.pc = "release", !.after = IF entry[opener[o].gen].state = "running" THEN "idle" ELSE "loop"]
      BY <2>1 DEF Shape
    <3>3. QED
      BY <3>1, <3>2, ZenonT(90) DEF AdmitRefused, Threads, Pcs, Shape, Standing, Finishing, Attempting, Gens
  <2>3. opener' \in [Openers -> Threads]
    BY <2>1, <2>2 DEF Shape
  <2>6. entry' \in [Gens -> Entries(Int)]
    BY DEF AdmitRefused, Shape
  <2>7. /\ registry' \in 0 .. gens' /\ gens' \in 0 .. MaxGens /\ reader' \in [Gens -> ReaderPcs]
        /\ \A p \in Openers : opener'[p].gen <= gens' /\ opener'[p].waited <= gens'
    BY DEF AdmitRefused, Shape, Threads, Entries, Gens, Pcs, ReaderPcs
  <2>8. QED
    BY <2>3, <2>6, <2>7 DEF Shape
<1>2. Standing'
  BY AdmitRefusedMoves DEF Standing, OneMaker, Lives, Makes, Holds, Attempting, Finishing
<1>3. OneMaker'
  BY AdmitRefusedMoves DEF Standing, OneMaker, Lives, Makes, Attempting, Finishing
<1>4. Lives'
  BY AdmitRefusedMoves DEF Shape, Gens, Standing, OneMaker, Lives, Makes, Attempting, Finishing
<1>5. Counted'
  <2>1. \A h \in Gens : entry'[h].refs = entry[h].refs
    BY AdmitRefusedMoves DEF Shape, Gens, Lives
  <2>2. \A p \in Openers, h \in Gens : Holds(p, h)' <=> Holds(p, h)
    BY AdmitRefusedMoves DEF Shape, Gens, Standing, OneMaker, Lives, Makes, Holds, Attempting, Finishing
  <2>3. QED
    BY <2>1, <2>2, SameHolders
<1>6. QED
  BY <1>1, <1>2, <1>3, <1>4, <1>5

\* ... an admission whose own drain met the dead adapter.
LEMMA AdmitFatalKeeps == ASSUME IInv, NEW o \in Openers, AdmitFatal(o) PROVE IInv'
<1> USE OpenAssumption DEF IInv
<1>1. Shape'
  <2>1. opener' = [opener EXCEPT ![o] = [opener[o] EXCEPT !.pc = "finish", !.after = "await"]]
    BY DEF AdmitFatal, Shape
  <2>2. opener[o] \in Threads /\ opener'[o] \in Threads
    <3>1. opener[o] \in Threads
      BY DEF Shape
    <3>2. opener'[o] = [opener[o] EXCEPT !.pc = "finish", !.after = "await"]
      BY <2>1 DEF Shape
    <3>3. QED
      BY <3>1, <3>2, ZenonT(90) DEF AdmitFatal, Threads, Pcs, Shape, Standing, Finishing, Attempting, Gens
  <2>3. opener' \in [Openers -> Threads]
    BY <2>1, <2>2 DEF Shape
  <2>4. opener[o].gen \in Gens /\ entry' = [entry EXCEPT ![opener[o].gen] = [entry[opener[o].gen] EXCEPT !.state = "failed"]]
    BY DEF AdmitFatal, Shape, Gens, Standing, Attempting, Finishing, Threads
  <2>5. entry'[opener[o].gen] \in Entries(Int)
    <3>1. entry[opener[o].gen] \in Entries(Int)
      BY <2>4 DEF Shape
    <3>2. entry'[opener[o].gen] = [entry[opener[o].gen] EXCEPT !.state = "failed"]
      BY <2>4 DEF Shape
    <3>3. [entry[opener[o].gen] EXCEPT !.state = "failed"] \in Entries(Int)
      BY <3>1 DEF Entries
    <3>4. QED
      BY <3>2, <3>3
  <2>6. entry' \in [Gens -> Entries(Int)]
    BY <2>4, <2>5 DEF Shape
  <2>7. /\ registry' \in 0 .. gens' /\ gens' \in 0 .. MaxGens /\ reader' \in [Gens -> ReaderPcs]
        /\ \A p \in Openers : opener'[p].gen <= gens' /\ opener'[p].waited <= gens'
    BY DEF AdmitFatal, Shape, Threads, Entries, Gens, Pcs, ReaderPcs
  <2>8. QED
    BY <2>3, <2>6, <2>7 DEF Shape
<1>2. Standing'
  BY AdmitFatalMoves DEF Standing, OneMaker, Lives, Makes, Holds, Attempting, Finishing
<1>3. OneMaker'
  BY AdmitFatalMoves DEF Standing, OneMaker, Lives, Makes, Attempting, Finishing
<1>4. Lives'
  BY AdmitFatalMoves DEF Shape, Gens, Standing, OneMaker, Lives, Makes, Attempting, Finishing
<1>5. Counted'
  <2>1. \A h \in Gens : entry'[h].refs = entry[h].refs
    BY AdmitFatalMoves DEF Shape, Gens, Lives
  <2>2. \A p \in Openers, h \in Gens : Holds(p, h)' <=> Holds(p, h)
    BY AdmitFatalMoves DEF Shape, Gens, Standing, OneMaker, Lives, Makes, Holds, Attempting, Finishing
  <2>3. QED
    BY <2>1, <2>2, SameHolders
<1>6. QED
  BY <1>1, <1>2, <1>3, <1>4, <1>5

\* ... a thread's claim of the driver in finish_close.
LEMMA FinishClaimsKeeps == ASSUME IInv, NEW o \in Openers, FinishClaims(o) PROVE IInv'
<1> USE OpenAssumption DEF IInv
<1>1. Shape'
  <2>1. opener' = [opener EXCEPT ![o] = [opener[o] EXCEPT !.pc = IF Claimant(opener[o].gen) THEN "closing_raw" ELSE "removing"]]
    BY DEF FinishClaims, ClaimRaw, Shape
  <2>2. opener[o] \in Threads /\ opener'[o] \in Threads
    <3>1. opener[o] \in Threads
      BY DEF Shape
    <3>2. opener'[o] = [opener[o] EXCEPT !.pc = IF Claimant(opener[o].gen) THEN "closing_raw" ELSE "removing"]
      BY <2>1 DEF Shape
    <3>3. QED
      BY <3>1, <3>2, ZenonT(90) DEF FinishClaims, ClaimRaw, Claimant, Threads, Pcs, Shape, Standing, Finishing, Attempting, Gens
  <2>3. opener' \in [Openers -> Threads]
    BY <2>1, <2>2 DEF Shape
  <2>4. opener[o].gen \in Gens /\ entry' = [entry EXCEPT ![opener[o].gen] = [entry[opener[o].gen] EXCEPT !.raw_closed = TRUE, !.driver = IF Claimant(opener[o].gen) THEN "closing" ELSE entry[opener[o].gen].driver]]
    BY DEF FinishClaims, ClaimRaw, Shape, Gens, Standing, Attempting, Finishing, Threads
  <2>5. entry'[opener[o].gen] \in Entries(Int)
    <3>1. entry[opener[o].gen] \in Entries(Int)
      BY <2>4 DEF Shape
    <3>2. entry'[opener[o].gen] = [entry[opener[o].gen] EXCEPT !.raw_closed = TRUE, !.driver = IF Claimant(opener[o].gen) THEN "closing" ELSE entry[opener[o].gen].driver]
      BY <2>4 DEF Shape
    <3>3. [entry[opener[o].gen] EXCEPT !.raw_closed = TRUE, !.driver = IF Claimant(opener[o].gen) THEN "closing" ELSE entry[opener[o].gen].driver] \in Entries(Int)
      BY <3>1 DEF Entries, Claimant
    <3>4. QED
      BY <3>2, <3>3
  <2>6. entry' \in [Gens -> Entries(Int)]
    BY <2>4, <2>5 DEF Shape
  <2>7. /\ registry' \in 0 .. gens' /\ gens' \in 0 .. MaxGens /\ reader' \in [Gens -> ReaderPcs]
        /\ \A p \in Openers : opener'[p].gen <= gens' /\ opener'[p].waited <= gens'
    BY SMTT(90) DEF FinishClaims, ClaimRaw, Claimant, Shape, Threads, Entries, Gens, Pcs, ReaderPcs
  <2>8. QED
    BY <2>3, <2>6, <2>7 DEF Shape
<1>2. Standing'
  BY FinishClaimsMoves DEF Standing, OneMaker, Lives, Makes, Holds, Attempting, Finishing
<1>3. OneMaker'
  BY FinishClaimsMoves DEF Standing, OneMaker, Lives, Makes, Attempting, Finishing
<1>4. Lives'
  BY FinishClaimsMoves DEF Shape, Gens, Standing, OneMaker, Lives, Makes, Attempting, Finishing
<1>5. Counted'
  <2>1. \A h \in Gens : entry'[h].refs = entry[h].refs
    BY FinishClaimsMoves DEF Shape, Gens, Lives
  <2>2. \A p \in Openers, h \in Gens : Holds(p, h)' <=> Holds(p, h)
    BY FinishClaimsMoves DEF Shape, Gens, Standing, OneMaker, Lives, Makes, Holds, Attempting, Finishing
  <2>3. QED
    BY <2>1, <2>2, SameHolders
<1>6. QED
  BY <1>1, <1>2, <1>3, <1>4, <1>5

\* ... the physical close a thread claimed.
LEMMA FinishClosesKeeps == ASSUME IInv, NEW o \in Openers, FinishCloses(o) PROVE IInv'
<1> USE OpenAssumption DEF IInv
<1>1. Shape'
  <2>1. opener' = [opener EXCEPT ![o] = [opener[o] EXCEPT !.pc = "removing"]]
    BY DEF FinishCloses, Shape
  <2>2. opener[o] \in Threads /\ opener'[o] \in Threads
    <3>1. opener[o] \in Threads
      BY DEF Shape
    <3>2. opener'[o] = [opener[o] EXCEPT !.pc = "removing"]
      BY <2>1 DEF Shape
    <3>3. QED
      BY <3>1, <3>2, ZenonT(90) DEF FinishCloses, Threads, Pcs, Shape, Standing, Finishing, Attempting, Gens
  <2>3. opener' \in [Openers -> Threads]
    BY <2>1, <2>2 DEF Shape
  <2>4. opener[o].gen \in Gens /\ entry' = [entry EXCEPT ![opener[o].gen] = [entry[opener[o].gen] EXCEPT !.driver = "closed"]]
    BY DEF FinishCloses, Shape, Gens, Standing, Attempting, Finishing, Threads
  <2>5. entry'[opener[o].gen] \in Entries(Int)
    <3>1. entry[opener[o].gen] \in Entries(Int)
      BY <2>4 DEF Shape
    <3>2. entry'[opener[o].gen] = [entry[opener[o].gen] EXCEPT !.driver = "closed"]
      BY <2>4 DEF Shape
    <3>3. [entry[opener[o].gen] EXCEPT !.driver = "closed"] \in Entries(Int)
      BY <3>1 DEF Entries
    <3>4. QED
      BY <3>2, <3>3
  <2>6. entry' \in [Gens -> Entries(Int)]
    BY <2>4, <2>5 DEF Shape
  <2>7. /\ registry' \in 0 .. gens' /\ gens' \in 0 .. MaxGens /\ reader' \in [Gens -> ReaderPcs]
        /\ \A p \in Openers : opener'[p].gen <= gens' /\ opener'[p].waited <= gens'
    BY DEF FinishCloses, Shape, Threads, Entries, Gens, Pcs, ReaderPcs
  <2>8. QED
    BY <2>3, <2>6, <2>7 DEF Shape
<1>2. Standing'
  BY FinishClosesMoves DEF Standing, OneMaker, Lives, Makes, Holds, Attempting, Finishing
<1>3. OneMaker'
  BY FinishClosesMoves DEF Standing, OneMaker, Lives, Makes, Attempting, Finishing
<1>4. Lives'
  BY FinishClosesMoves DEF Shape, Gens, Standing, OneMaker, Lives, Makes, Attempting, Finishing
<1>5. Counted'
  <2>1. \A h \in Gens : entry'[h].refs = entry[h].refs
    BY FinishClosesMoves DEF Shape, Gens, Lives
  <2>2. \A p \in Openers, h \in Gens : Holds(p, h)' <=> Holds(p, h)
    BY FinishClosesMoves DEF Shape, Gens, Standing, OneMaker, Lives, Makes, Holds, Attempting, Finishing
  <2>3. QED
    BY <2>1, <2>2, SameHolders
<1>6. QED
  BY <1>1, <1>2, <1>3, <1>4, <1>5

\* ... the removal of the registration, its own generation's only.
LEMMA FinishRemovesKeeps == ASSUME IInv, NEW o \in Openers, FinishRemoves(o) PROVE IInv'
<1> USE OpenAssumption DEF IInv
<1>1. Shape'
  <2>1. opener' = [opener EXCEPT ![o] = IF opener[o].after = "close" THEN NoOpen("idle") ELSE [opener[o] EXCEPT !.pc = opener[o].after, !.after = "none"]]
    BY DEF FinishRemoves, shared_remove_entry, Shape
  <2>2. opener[o] \in Threads /\ opener'[o] \in Threads
    <3>1. opener[o] \in Threads
      BY DEF Shape
    <3>2. opener'[o] = IF opener[o].after = "close" THEN NoOpen("idle") ELSE [opener[o] EXCEPT !.pc = opener[o].after, !.after = "none"]
      BY <2>1 DEF Shape
    <3>3. opener[o].after # "close" => opener[o].after \in Pcs
      BY DEF FinishRemoves, Standing, Finishing, Pcs
    <3>4. (IF opener[o].after = "close" THEN NoOpen("idle") ELSE [opener[o] EXCEPT !.pc = opener[o].after, !.after = "none"]) \in Threads
      BY <3>1, <3>3, ThreadStays, NoOpenType
    <3>5. QED
      BY <3>1, <3>2, <3>4
  <2>3. opener' \in [Openers -> Threads]
    BY <2>1, <2>2 DEF Shape
  <2>4. opener[o].gen \in Gens /\ entry' = [entry EXCEPT ![opener[o].gen] = [entry[opener[o].gen] EXCEPT !.state = "closed"]]
    BY DEF FinishRemoves, shared_remove_entry, Shape, Gens, Standing, Attempting, Finishing, Threads
  <2>5. entry'[opener[o].gen] \in Entries(Int)
    <3>1. entry[opener[o].gen] \in Entries(Int)
      BY <2>4 DEF Shape
    <3>2. entry'[opener[o].gen] = [entry[opener[o].gen] EXCEPT !.state = "closed"]
      BY <2>4 DEF Shape
    <3>3. [entry[opener[o].gen] EXCEPT !.state = "closed"] \in Entries(Int)
      BY <3>1 DEF Entries
    <3>4. QED
      BY <3>2, <3>3
  <2>6. entry' \in [Gens -> Entries(Int)]
    BY <2>4, <2>5 DEF Shape
  <2>7. /\ registry' \in 0 .. gens' /\ gens' \in 0 .. MaxGens /\ reader' \in [Gens -> ReaderPcs]
        /\ \A p \in Openers : opener'[p].gen <= gens' /\ opener'[p].waited <= gens'
    BY SMTT(90) DEF FinishRemoves, shared_remove_entry, NoOpen, Shape, Threads, Entries, Gens, Pcs, ReaderPcs
  <2>8. QED
    BY <2>3, <2>6, <2>7 DEF Shape
<1>2. Standing'
  BY FinishRemovesMoves DEF Standing, OneMaker, Lives, Makes, Holds, Attempting, Finishing
<1>3. OneMaker'
  BY FinishRemovesMoves DEF Standing, OneMaker, Lives, Makes, Attempting, Finishing
<1>4. Lives'
  BY FinishRemovesMoves DEF Shape, Gens, Standing, OneMaker, Lives, Makes, Attempting, Finishing
<1>5. Counted'
  <2>1. \A h \in Gens : entry'[h].refs = entry[h].refs
    BY FinishRemovesMoves DEF Shape, Gens, Lives
  <2>2. \A p \in Openers, h \in Gens : Holds(p, h)' <=> Holds(p, h)
    BY FinishRemovesMoves DEF Shape, Gens, Standing, OneMaker, Lives, Makes, Holds, Attempting, Finishing
  <2>3. QED
    BY <2>1, <2>2, SameHolders
<1>6. QED
  BY <1>1, <1>2, <1>3, <1>4, <1>5

\* ... a failed admission's wait for the reader.
LEMMA AwaitKeeps == ASSUME IInv, NEW o \in Openers, Await(o) PROVE IInv'
<1> USE OpenAssumption DEF IInv
<1>1. Shape'
  <2>1. opener' = [opener EXCEPT ![o] = [opener[o] EXCEPT !.pc = "release", !.after = "loop"]]
    BY DEF Await, Shape
  <2>2. opener[o] \in Threads /\ opener'[o] \in Threads
    <3>1. opener[o] \in Threads
      BY DEF Shape
    <3>2. opener'[o] = [opener[o] EXCEPT !.pc = "release", !.after = "loop"]
      BY <2>1 DEF Shape
    <3>3. QED
      BY <3>1, <3>2, ZenonT(90) DEF Await, Threads, Pcs, Shape, Standing, Finishing, Attempting, Gens
  <2>3. opener' \in [Openers -> Threads]
    BY <2>1, <2>2 DEF Shape
  <2>4. opener[o].gen \in Gens /\ entry' = [entry EXCEPT ![opener[o].gen] = [entry[opener[o].gen] EXCEPT !.done = FALSE]]
    BY DEF Await, Shape, Gens, Standing, Attempting, Finishing, Threads
  <2>5. entry'[opener[o].gen] \in Entries(Int)
    <3>1. entry[opener[o].gen] \in Entries(Int)
      BY <2>4 DEF Shape
    <3>2. entry'[opener[o].gen] = [entry[opener[o].gen] EXCEPT !.done = FALSE]
      BY <2>4 DEF Shape
    <3>3. [entry[opener[o].gen] EXCEPT !.done = FALSE] \in Entries(Int)
      BY <3>1 DEF Entries
    <3>4. QED
      BY <3>2, <3>3
  <2>6. entry' \in [Gens -> Entries(Int)]
    BY <2>4, <2>5 DEF Shape
  <2>7. /\ registry' \in 0 .. gens' /\ gens' \in 0 .. MaxGens /\ reader' \in [Gens -> ReaderPcs]
        /\ \A p \in Openers : opener'[p].gen <= gens' /\ opener'[p].waited <= gens'
    BY DEF Await, Shape, Threads, Entries, Gens, Pcs, ReaderPcs
  <2>8. QED
    BY <2>3, <2>6, <2>7 DEF Shape
<1>2. Standing'
  BY AwaitMoves DEF Standing, OneMaker, Lives, Makes, Holds, Attempting, Finishing
<1>3. OneMaker'
  BY AwaitMoves DEF Standing, OneMaker, Lives, Makes, Attempting, Finishing
<1>4. Lives'
  BY AwaitMoves DEF Shape, Gens, Standing, OneMaker, Lives, Makes, Attempting, Finishing
<1>5. Counted'
  <2>1. \A h \in Gens : entry'[h].refs = entry[h].refs
    BY AwaitMoves DEF Shape, Gens, Lives
  <2>2. \A p \in Openers, h \in Gens : Holds(p, h)' <=> Holds(p, h)
    <3>1. \A h \in Gens : entry'[h].failure <=> entry[h].failure
      BY AwaitMoves
    <3>2. \A h \in Gens : Holds(o, h)' <=> Holds(o, h)
      BY AwaitMoves, <3>1 DEF Holds, Finishing
    <3>3. \A p \in Openers \ {o}, h \in Gens : Holds(p, h)' <=> Holds(p, h)
      BY AwaitMoves, <3>1 DEF Holds
    <3>4. QED
      BY <3>2, <3>3
  <2>3. QED
    BY <2>1, <2>2, SameHolders
<1>6. QED
  BY <1>1, <1>2, <1>3, <1>4, <1>5

\* ... the release of the last handle, which takes the generation to closing.
LEMMA ReleaseLastKeeps == ASSUME IInv, NEW o \in Openers, ReleaseLast(o) PROVE IInv'
<1> USE OpenAssumption DEF IInv
<1>1. Shape'
  <2>1. opener' = [opener EXCEPT ![o] = [opener[o] EXCEPT !.pc = "await_reader", !.after = "close"]]
    BY DEF ReleaseLast, Shape
  <2>2. opener[o] \in Threads /\ opener'[o] \in Threads
    <3>1. opener[o] \in Threads
      BY DEF Shape
    <3>2. opener'[o] = [opener[o] EXCEPT !.pc = "await_reader", !.after = "close"]
      BY <2>1 DEF Shape
    <3>3. QED
      BY <3>1, <3>2, ZenonT(90) DEF ReleaseLast, Threads, Pcs, Shape, Standing, Finishing, Attempting, Gens
  <2>3. opener' \in [Openers -> Threads]
    BY <2>1, <2>2 DEF Shape
  <2>4. opener[o].gen \in Gens /\ entry' = [entry EXCEPT ![opener[o].gen] = [entry[opener[o].gen] EXCEPT !.refs = entry[opener[o].gen].refs - 1, !.state = "closing"]]
    BY DEF ReleaseLast, Shape, Gens, Standing, Attempting, Finishing, Threads
  <2>5. entry'[opener[o].gen] \in Entries(Int)
    <3>1. entry[opener[o].gen] \in Entries(Int)
      BY <2>4 DEF Shape
    <3>2. entry'[opener[o].gen] = [entry[opener[o].gen] EXCEPT !.refs = entry[opener[o].gen].refs - 1, !.state = "closing"]
      BY <2>4 DEF Shape
    <3>3. entry[opener[o].gen].refs \in Int
      BY <3>1, EntryStays
    <3>4. entry[opener[o].gen].refs - 1 \in Int
      BY <3>3
    <3>5. [entry[opener[o].gen] EXCEPT !.refs = entry[opener[o].gen].refs - 1, !.state = "closing"] \in Entries(Int)
      BY <3>1, <3>4, EntryStays
    <3>6. QED
      BY <3>2, <3>5
  <2>6. entry' \in [Gens -> Entries(Int)]
    BY <2>4, <2>5 DEF Shape
  <2>7. /\ registry' \in 0 .. gens' /\ gens' \in 0 .. MaxGens /\ reader' \in [Gens -> ReaderPcs]
        /\ \A p \in Openers : opener'[p].gen <= gens' /\ opener'[p].waited <= gens'
    BY DEF ReleaseLast, Shape, Threads, Entries, Gens, Pcs, ReaderPcs
  <2>8. QED
    BY <2>3, <2>6, <2>7 DEF Shape
<1>2. Standing'
  BY ReleaseLastMoves DEF Standing, OneMaker, Lives, Makes, Holds, Attempting, Finishing
<1>3. OneMaker'
  BY ReleaseLastMoves DEF Standing, OneMaker, Lives, Makes, Attempting, Finishing
<1>4. Lives'
  BY ReleaseLastMoves DEF Shape, Gens, Standing, OneMaker, Lives, Makes, Attempting, Finishing
<1>5. Counted'
  <2>1. Holds(o, opener[o].gen) /\ opener[o].gen \in Gens
    BY ReleaseLastMoves DEF Standing, Lives, Holds, Attempting, Finishing
  <2>2. \A h \in Gens : entry'[h].refs = IF h = opener[o].gen THEN entry[h].refs - 1 ELSE entry[h].refs
    BY ReleaseLastMoves
  <2>3. \A p \in Openers, h \in Gens : Holds(p, h)' <=> (Holds(p, h) /\ ~(p = o /\ h = opener[o].gen))
    BY ReleaseLastMoves DEF Standing, Lives, Holds, Attempting, Finishing
  <2>4. QED
    BY <2>1, <2>2, <2>3, OneLess
<1>6. QED
  BY <1>1, <1>2, <1>3, <1>4, <1>5

\* ... the release of a handle that is not the last.
LEMMA ReleaseOtherKeeps == ASSUME IInv, NEW o \in Openers, ReleaseOther(o) PROVE IInv'
<1> USE OpenAssumption DEF IInv
<1>1. Shape'
  <2>1. opener' = [opener EXCEPT ![o] = IF opener[o].after = "loop" THEN [opener[o] EXCEPT !.pc = "loop", !.after = "none", !.gen = 0] ELSE NoOpen("idle")]
    BY DEF ReleaseOther, Shape
  <2>2. opener[o] \in Threads /\ opener'[o] \in Threads
    <3>1. opener[o] \in Threads
      BY DEF Shape
    <3>2. opener'[o] = IF opener[o].after = "loop" THEN [opener[o] EXCEPT !.pc = "loop", !.after = "none", !.gen = 0] ELSE NoOpen("idle")
      BY <2>1 DEF Shape
    <3>3. "loop" \in Pcs /\ 0 \in 0 .. MaxGens
      BY DEF Pcs
    <3>4. (IF opener[o].after = "loop" THEN [opener[o] EXCEPT !.pc = "loop", !.after = "none", !.gen = 0] ELSE NoOpen("idle")) \in Threads
      BY <3>1, <3>3, ThreadStays, NoOpenType
    <3>5. QED
      BY <3>1, <3>2, <3>4
  <2>3. opener' \in [Openers -> Threads]
    BY <2>1, <2>2 DEF Shape
  <2>4. opener[o].gen \in Gens /\ entry' = [entry EXCEPT ![opener[o].gen] = [entry[opener[o].gen] EXCEPT !.refs = entry[opener[o].gen].refs - 1]]
    BY DEF ReleaseOther, Shape, Gens, Standing, Attempting, Finishing, Threads
  <2>5. entry'[opener[o].gen] \in Entries(Int)
    <3>1. entry[opener[o].gen] \in Entries(Int)
      BY <2>4 DEF Shape
    <3>2. entry'[opener[o].gen] = [entry[opener[o].gen] EXCEPT !.refs = entry[opener[o].gen].refs - 1]
      BY <2>4 DEF Shape
    <3>3. entry[opener[o].gen].refs \in Int
      BY <3>1, EntryStays
    <3>4. entry[opener[o].gen].refs - 1 \in Int
      BY <3>3
    <3>5. [entry[opener[o].gen] EXCEPT !.refs = entry[opener[o].gen].refs - 1] \in Entries(Int)
      BY <3>1, <3>4, EntryStays
    <3>6. QED
      BY <3>2, <3>5
  <2>6. entry' \in [Gens -> Entries(Int)]
    BY <2>4, <2>5 DEF Shape
  <2>7. /\ registry' \in 0 .. gens' /\ gens' \in 0 .. MaxGens /\ reader' \in [Gens -> ReaderPcs]
        /\ \A p \in Openers : opener'[p].gen <= gens' /\ opener'[p].waited <= gens'
    BY DEF ReleaseOther, NoOpen, Shape, Threads, Entries, Gens, Pcs, ReaderPcs
  <2>8. QED
    BY <2>3, <2>6, <2>7 DEF Shape
<1>2. Standing'
  BY ReleaseOtherMoves DEF Standing, OneMaker, Lives, Makes, Holds, Attempting, Finishing
<1>3. OneMaker'
  BY ReleaseOtherMoves DEF Standing, OneMaker, Lives, Makes, Attempting, Finishing
<1>4. Lives'
  <2>1. Holds(o, opener[o].gen) /\ opener[o].gen \in Gens
    BY ReleaseOtherMoves DEF Standing, Holds, Attempting, Finishing
  <2>2. /\ entry[opener[o].gen].refs # 0
        /\ entry[opener[o].gen].state \notin {"none", "opening", "closing"}
        /\ ~entry[opener[o].gen].failure
    BY <2>1, HeldIsCounted DEF Standing, Lives
  <2>3. QED
    BY <2>1, <2>2, ReleaseOtherMoves DEF Lives
<1>5. Counted'
  <2>1. Holds(o, opener[o].gen) /\ opener[o].gen \in Gens
    BY ReleaseOtherMoves DEF Standing, Lives, Holds, Attempting, Finishing
  <2>2. \A h \in Gens : entry'[h].refs = IF h = opener[o].gen THEN entry[h].refs - 1 ELSE entry[h].refs
    BY ReleaseOtherMoves
  <2>3. \A p \in Openers, h \in Gens : Holds(p, h)' <=> (Holds(p, h) /\ ~(p = o /\ h = opener[o].gen))
    BY ReleaseOtherMoves DEF Standing, Lives, Holds, Attempting, Finishing
  <2>4. QED
    BY <2>1, <2>2, <2>3, OneLess
<1>6. QED
  BY <1>1, <1>2, <1>3, <1>4, <1>5

\* ... the last close's wait for the reader.
LEMMA AwaitReaderKeeps == ASSUME IInv, NEW o \in Openers, AwaitReader(o) PROVE IInv'
<1> USE OpenAssumption DEF IInv
<1>1. Shape'
  <2>1. opener' = [opener EXCEPT ![o] = [opener[o] EXCEPT !.pc = "finish"]]
    BY SMTT(90) DEF AwaitReader, Shape
  <2>2. opener[o] \in Threads /\ opener'[o] \in Threads
    <3>1. opener[o] \in Threads
      BY DEF Shape
    <3>2. opener'[o] = [opener[o] EXCEPT !.pc = "finish"]
      BY <2>1 DEF Shape
    <3>3. QED
      BY <3>1, <3>2, ZenonT(90) DEF AwaitReader, Threads, Pcs, Shape, Standing, Finishing, Attempting, Gens
  <2>3. opener' \in [Openers -> Threads]
    BY <2>1, <2>2 DEF Shape
  <2>4. opener[o].gen \in Gens /\ entry' = [entry EXCEPT ![opener[o].gen] = [entry[opener[o].gen] EXCEPT !.done = FALSE]]
    BY DEF AwaitReader, Shape, Gens, Standing, Attempting, Finishing, Threads
  <2>5. entry'[opener[o].gen] \in Entries(Int)
    <3>1. entry[opener[o].gen] \in Entries(Int)
      BY <2>4 DEF Shape
    <3>2. entry'[opener[o].gen] = [entry[opener[o].gen] EXCEPT !.done = FALSE]
      BY <2>4 DEF Shape
    <3>3. [entry[opener[o].gen] EXCEPT !.done = FALSE] \in Entries(Int)
      BY <3>1 DEF Entries
    <3>4. QED
      BY <3>2, <3>3
  <2>6. entry' \in [Gens -> Entries(Int)]
    BY <2>4, <2>5 DEF Shape
  <2>7. /\ registry' \in 0 .. gens' /\ gens' \in 0 .. MaxGens /\ reader' \in [Gens -> ReaderPcs]
        /\ \A p \in Openers : opener'[p].gen <= gens' /\ opener'[p].waited <= gens'
    BY DEF AwaitReader, Shape, Threads, Entries, Gens, Pcs, ReaderPcs
  <2>8. QED
    BY <2>3, <2>6, <2>7 DEF Shape
<1>2. Standing'
  BY AwaitReaderMoves DEF Standing, OneMaker, Lives, Makes, Holds, Attempting, Finishing
<1>3. OneMaker'
  BY AwaitReaderMoves DEF Standing, OneMaker, Lives, Makes, Attempting, Finishing
<1>4. Lives'
  BY AwaitReaderMoves DEF Shape, Gens, Standing, OneMaker, Lives, Makes, Attempting, Finishing
<1>5. Counted'
  <2>1. \A h \in Gens : entry'[h].refs = entry[h].refs
    BY AwaitReaderMoves DEF Shape, Gens, Lives
  <2>2. \A p \in Openers, h \in Gens : Holds(p, h)' <=> Holds(p, h)
    BY AwaitReaderMoves DEF Shape, Gens, Standing, OneMaker, Lives, Makes, Holds, Attempting, Finishing
  <2>3. QED
    BY <2>1, <2>2, SameHolders
<1>6. QED
  BY <1>1, <1>2, <1>3, <1>4, <1>5

\* ... an error handed to the caller.
LEMMA AnsweredKeeps == ASSUME IInv, NEW o \in Openers, Answered(o) PROVE IInv'
<1> USE OpenAssumption DEF IInv
<1>1. Shape'
  <2>1. opener' = [opener EXCEPT ![o] = NoOpen("idle")]
    BY DEF Answered, Shape
  <2>2. opener[o] \in Threads /\ opener'[o] \in Threads
    <3>1. opener[o] \in Threads
      BY DEF Shape
    <3>2. opener'[o] = NoOpen("idle")
      BY <2>1 DEF Shape
    <3>3. QED
      BY <3>1, <3>2, SMTT(90) DEF Answered, NoOpen, Threads, Pcs, Shape, Standing, Finishing, Attempting, Gens, NoOpen
  <2>3. opener' \in [Openers -> Threads]
    BY <2>1, <2>2 DEF Shape
  <2>6. entry' \in [Gens -> Entries(Int)]
    BY DEF Answered, Shape
  <2>7. /\ registry' \in 0 .. gens' /\ gens' \in 0 .. MaxGens /\ reader' \in [Gens -> ReaderPcs]
        /\ \A p \in Openers : opener'[p].gen <= gens' /\ opener'[p].waited <= gens'
    BY SMTT(90) DEF Answered, NoOpen, Shape, Threads, Entries, Gens, Pcs, ReaderPcs
  <2>8. QED
    BY <2>3, <2>6, <2>7 DEF Shape
<1>2. Standing'
  BY AnsweredMoves DEF Standing, OneMaker, Lives, Makes, Holds, Attempting, Finishing
<1>3. OneMaker'
  BY AnsweredMoves DEF Standing, OneMaker, Lives, Makes, Attempting, Finishing
<1>4. Lives'
  BY AnsweredMoves DEF Shape, Gens, Standing, OneMaker, Lives, Makes, Attempting, Finishing
<1>5. Counted'
  <2>1. \A h \in Gens : entry'[h].refs = entry[h].refs
    BY AnsweredMoves DEF Shape, Gens, Lives
  <2>2. \A p \in Openers, h \in Gens : Holds(p, h)' <=> Holds(p, h)
    BY AnsweredMoves DEF Shape, Gens, Standing, OneMaker, Lives, Makes, Holds, Attempting, Finishing
  <2>3. QED
    BY <2>1, <2>2, SameHolders
<1>6. QED
  BY <1>1, <1>2, <1>3, <1>4, <1>5

\* ... the start of a close.
LEMMA CloseKeeps == ASSUME IInv, NEW o \in Openers, Close(o) PROVE IInv'
<1> USE OpenAssumption DEF IInv
<1>1. Shape'
  <2>1. opener' = [opener EXCEPT ![o] = [opener[o] EXCEPT !.pc = "release", !.after = "idle"]]
    BY DEF Close, Shape
  <2>2. opener[o] \in Threads /\ opener'[o] \in Threads
    <3>1. opener[o] \in Threads
      BY DEF Shape
    <3>2. opener'[o] = [opener[o] EXCEPT !.pc = "release", !.after = "idle"]
      BY <2>1 DEF Shape
    <3>3. QED
      BY <3>1, <3>2, ZenonT(90) DEF Close, Threads, Pcs, Shape, Standing, Finishing, Attempting, Gens
  <2>3. opener' \in [Openers -> Threads]
    BY <2>1, <2>2 DEF Shape
  <2>6. entry' \in [Gens -> Entries(Int)]
    BY DEF Close, Shape
  <2>7. /\ registry' \in 0 .. gens' /\ gens' \in 0 .. MaxGens /\ reader' \in [Gens -> ReaderPcs]
        /\ \A p \in Openers : opener'[p].gen <= gens' /\ opener'[p].waited <= gens'
    BY DEF Close, Shape, Threads, Entries, Gens, Pcs, ReaderPcs
  <2>8. QED
    BY <2>3, <2>6, <2>7 DEF Shape
<1>2. Standing'
  BY CloseMoves DEF Standing, OneMaker, Lives, Makes, Holds, Attempting, Finishing
<1>3. OneMaker'
  BY CloseMoves DEF Standing, OneMaker, Lives, Makes, Attempting, Finishing
<1>4. Lives'
  BY CloseMoves DEF Shape, Gens, Standing, OneMaker, Lives, Makes, Attempting, Finishing
<1>5. Counted'
  <2>1. \A h \in Gens : entry'[h].refs = entry[h].refs
    BY CloseMoves DEF Shape, Gens, Lives
  <2>2. \A p \in Openers, h \in Gens : Holds(p, h)' <=> Holds(p, h)
    BY CloseMoves DEF Shape, Gens, Standing, OneMaker, Lives, Makes, Holds, Attempting, Finishing
  <2>3. QED
    BY <2>1, <2>2, SameHolders
<1>6. QED
  BY <1>1, <1>2, <1>3, <1>4, <1>5

\* ... the start of an open.
LEMMA OpenKeeps == ASSUME IInv, NEW o \in Openers, NEW s \in Specs, Open(o, s) PROVE IInv'
<1> USE OpenAssumption DEF IInv
<1>1. Shape'
  <2>1. opener' = [opener EXCEPT ![o] = [NoOpen("loop") EXCEPT !.spec = s]]
    BY DEF Open, Shape
  <2>2. opener[o] \in Threads /\ opener'[o] \in Threads
    <3>1. opener[o] \in Threads
      BY DEF Shape
    <3>2. opener'[o] = [NoOpen("loop") EXCEPT !.spec = s]
      BY <2>1 DEF Shape
    <3>3. QED
      BY <3>1, <3>2, SMTT(90) DEF Open, NoOpen, Threads, Pcs, Shape, Standing, Finishing, Attempting, Gens, NoOpen
  <2>3. opener' \in [Openers -> Threads]
    BY <2>1, <2>2 DEF Shape
  <2>6. entry' \in [Gens -> Entries(Int)]
    BY DEF Open, Shape
  <2>7. /\ registry' \in 0 .. gens' /\ gens' \in 0 .. MaxGens /\ reader' \in [Gens -> ReaderPcs]
        /\ \A p \in Openers : opener'[p].gen <= gens' /\ opener'[p].waited <= gens'
    BY SMTT(90) DEF Open, NoOpen, Shape, Threads, Entries, Gens, Pcs, ReaderPcs
  <2>8. QED
    BY <2>3, <2>6, <2>7 DEF Shape
<1>2. Standing'
  BY OpenMoves DEF Standing, OneMaker, Lives, Makes, Holds, Attempting, Finishing
<1>3. OneMaker'
  BY OpenMoves DEF Standing, OneMaker, Lives, Makes, Attempting, Finishing
<1>4. Lives'
  BY OpenMoves DEF Shape, Gens, Standing, OneMaker, Lives, Makes, Attempting, Finishing
<1>5. Counted'
  <2>1. \A h \in Gens : entry'[h].refs = entry[h].refs
    BY OpenMoves DEF Shape, Gens, Lives
  <2>2. \A p \in Openers, h \in Gens : Holds(p, h)' <=> Holds(p, h)
    BY OpenMoves DEF Shape, Gens, Standing, OneMaker, Lives, Makes, Holds, Attempting, Finishing
  <2>3. QED
    BY <2>1, <2>2, SameHolders
<1>6. QED
  BY <1>1, <1>2, <1>3, <1>4, <1>5

\* ... a refused policy: nobody has joined, the driver stays with its opener until it is closed.
LEMMA ReconcileFailsKeeps == ASSUME IInv, NEW o \in Openers, opener[o].pc = "reconciling", FailOpen(o) PROVE IInv'
<1> USE OpenAssumption DEF IInv
<1>1. Shape'
  <2>1. opener' = [opener EXCEPT ![o] = [opener[o] EXCEPT !.pc = "finish", !.after = "settle"]]
    BY SMTT(90) DEF FailOpen, Shape
  <2>2. opener[o] \in Threads /\ opener'[o] \in Threads
    <3>1. opener[o] \in Threads
      BY DEF Shape
    <3>2. opener'[o] = [opener[o] EXCEPT !.pc = "finish", !.after = "settle"]
      BY <2>1 DEF Shape
    <3>3. QED
      BY <3>1, <3>2, ZenonT(90) DEF FailOpen, Threads, Pcs, Shape, Standing, Finishing, Attempting, Gens
  <2>3. opener' \in [Openers -> Threads]
    BY <2>1, <2>2 DEF Shape
  <2>4. opener[o].gen \in Gens /\ entry' = [entry EXCEPT ![opener[o].gen] = [entry[opener[o].gen] EXCEPT !.state = "failed", !.failure = TRUE]]
    BY DEF FailOpen, Shape, Gens, Standing, Attempting, Finishing, Threads
  <2>5. entry'[opener[o].gen] \in Entries(Int)
    <3>1. entry[opener[o].gen] \in Entries(Int)
      BY <2>4 DEF Shape
    <3>2. entry'[opener[o].gen] = [entry[opener[o].gen] EXCEPT !.state = "failed", !.failure = TRUE]
      BY <2>4 DEF Shape
    <3>3. [entry[opener[o].gen] EXCEPT !.state = "failed", !.failure = TRUE] \in Entries(Int)
      BY <3>1 DEF Entries
    <3>4. QED
      BY <3>2, <3>3
  <2>6. entry' \in [Gens -> Entries(Int)]
    BY <2>4, <2>5 DEF Shape
  <2>7. /\ registry' \in 0 .. gens' /\ gens' \in 0 .. MaxGens /\ reader' \in [Gens -> ReaderPcs]
        /\ \A p \in Openers : opener'[p].gen <= gens' /\ opener'[p].waited <= gens'
    BY DEF FailOpen, Shape, Threads, Entries, Gens, Pcs, ReaderPcs
  <2>8. QED
    BY <2>3, <2>6, <2>7 DEF Shape
<1>2. Standing'
  BY ReconcileFailsMoves DEF Standing, OneMaker, Lives, Makes, Holds, Attempting, Finishing
<1>3. OneMaker'
  BY ReconcileFailsMoves DEF Standing, OneMaker, Lives, Makes, Attempting, Finishing
<1>4. Lives'
  BY ReconcileFailsMoves DEF Shape, Gens, Standing, OneMaker, Lives, Makes, Attempting, Finishing
<1>5. Counted'
  <2>1. \A h \in Gens : entry'[h].refs = entry[h].refs
    BY ReconcileFailsMoves DEF Shape, Gens, Lives
  <2>2. \A p \in Openers, h \in Gens : Holds(p, h)' <=> Holds(p, h)
    BY ReconcileFailsMoves DEF Shape, Gens, Standing, OneMaker, Lives, Makes, Holds, Attempting, Finishing
  <2>3. QED
    BY <2>1, <2>2, SameHolders
<1>6. QED
  BY <1>1, <1>2, <1>3, <1>4, <1>5

\* ... the reader recording the failure its drain met.
LEMMA ReaderTakesFailureKeeps == ASSUME IInv, NEW g \in Gens, ReaderTakesFailure(g) PROVE IInv'
<1> USE OpenAssumption DEF IInv
<1>1. Shape'
  <2>3. opener' \in [Openers -> Threads]
    BY DEF ReaderTakesFailure, Shape
  <2>4. g \in Gens /\ entry' = [entry EXCEPT ![g] = [entry[g] EXCEPT !.state = IF entry[g].state = "running" THEN "failed" ELSE entry[g].state]]
    BY DEF ReaderTakesFailure, Shape, Gens, Standing, Attempting, Finishing, Threads
  <2>5. entry'[g] \in Entries(Int)
    <3>1. entry[g] \in Entries(Int)
      BY <2>4 DEF Shape
    <3>2. entry'[g] = [entry[g] EXCEPT !.state = IF entry[g].state = "running" THEN "failed" ELSE entry[g].state]
      BY <2>4 DEF Shape
    <3>3. [entry[g] EXCEPT !.state = IF entry[g].state = "running" THEN "failed" ELSE entry[g].state] \in Entries(Int)
      BY <3>1 DEF Entries
    <3>4. QED
      BY <3>2, <3>3
  <2>6. entry' \in [Gens -> Entries(Int)]
    BY <2>4, <2>5 DEF Shape
  <2>7. /\ registry' \in 0 .. gens' /\ gens' \in 0 .. MaxGens /\ reader' \in [Gens -> ReaderPcs]
        /\ \A p \in Openers : opener'[p].gen <= gens' /\ opener'[p].waited <= gens'
    BY SMTT(90) DEF ReaderTakesFailure, Shape, Threads, Entries, Gens, Pcs, ReaderPcs
  <2>8. QED
    BY <2>3, <2>6, <2>7 DEF Shape
<1>2. Standing'
  BY ReaderTakesFailureMoves DEF Standing, OneMaker, Lives, Makes, Holds, Attempting, Finishing
<1>3. OneMaker'
  BY ReaderTakesFailureMoves DEF Standing, OneMaker, Lives, Makes, Attempting, Finishing
<1>4. Lives'
  BY ReaderTakesFailureMoves DEF Shape, Gens, Standing, OneMaker, Lives, Makes, Attempting, Finishing
<1>5. Counted'
  <2>1. \A h \in Gens : entry'[h].refs = entry[h].refs
    BY ReaderTakesFailureMoves DEF Shape, Gens, Lives
  <2>2. \A p \in Openers, h \in Gens : Holds(p, h)' <=> Holds(p, h)
    BY ReaderTakesFailureMoves DEF Shape, Gens, Standing, OneMaker, Lives, Makes, Holds, Attempting, Finishing
  <2>3. QED
    BY <2>1, <2>2, SameHolders
<1>6. QED
  BY <1>1, <1>2, <1>3, <1>4, <1>5

\* ... the reader's claim of the driver.
LEMMA ReaderClaimsKeeps == ASSUME IInv, NEW g \in Gens, ReaderClaims(g) PROVE IInv'
<1> USE OpenAssumption DEF IInv
<1>1. Shape'
  <2>3. opener' \in [Openers -> Threads]
    BY DEF ReaderClaims, ClaimRaw, Shape
  <2>4. g \in Gens /\ entry' = [entry EXCEPT ![g] = [entry[g] EXCEPT !.raw_closed = TRUE, !.driver = IF Claimant(g) THEN "closing" ELSE entry[g].driver]]
    BY DEF ReaderClaims, ClaimRaw, Shape, Gens, Standing, Attempting, Finishing, Threads
  <2>5. entry'[g] \in Entries(Int)
    <3>1. entry[g] \in Entries(Int)
      BY <2>4 DEF Shape
    <3>2. entry'[g] = [entry[g] EXCEPT !.raw_closed = TRUE, !.driver = IF Claimant(g) THEN "closing" ELSE entry[g].driver]
      BY <2>4 DEF Shape
    <3>3. [entry[g] EXCEPT !.raw_closed = TRUE, !.driver = IF Claimant(g) THEN "closing" ELSE entry[g].driver] \in Entries(Int)
      BY <3>1 DEF Entries, Claimant
    <3>4. QED
      BY <3>2, <3>3
  <2>6. entry' \in [Gens -> Entries(Int)]
    BY <2>4, <2>5 DEF Shape
  <2>7. /\ registry' \in 0 .. gens' /\ gens' \in 0 .. MaxGens /\ reader' \in [Gens -> ReaderPcs]
        /\ \A p \in Openers : opener'[p].gen <= gens' /\ opener'[p].waited <= gens'
    BY SMTT(90) DEF ReaderClaims, ClaimRaw, Claimant, Shape, Threads, Entries, Gens, Pcs, ReaderPcs
  <2>8. QED
    BY <2>3, <2>6, <2>7 DEF Shape
<1>2. Standing'
  BY ReaderClaimsMoves DEF Standing, OneMaker, Lives, Makes, Holds, Attempting, Finishing
<1>3. OneMaker'
  BY ReaderClaimsMoves DEF Standing, OneMaker, Lives, Makes, Attempting, Finishing
<1>4. Lives'
  BY ReaderClaimsMoves DEF Shape, Gens, Standing, OneMaker, Lives, Makes, Attempting, Finishing
<1>5. Counted'
  <2>1. \A h \in Gens : entry'[h].refs = entry[h].refs
    BY ReaderClaimsMoves DEF Shape, Gens, Lives
  <2>2. \A p \in Openers, h \in Gens : Holds(p, h)' <=> Holds(p, h)
    BY ReaderClaimsMoves DEF Shape, Gens, Standing, OneMaker, Lives, Makes, Holds, Attempting, Finishing
  <2>3. QED
    BY <2>1, <2>2, SameHolders
<1>6. QED
  BY <1>1, <1>2, <1>3, <1>4, <1>5

\* ... the physical close the reader claimed.
LEMMA ReaderClosesKeeps == ASSUME IInv, NEW g \in Gens, ReaderCloses(g) PROVE IInv'
<1> USE OpenAssumption DEF IInv
<1>1. Shape'
  <2>3. opener' \in [Openers -> Threads]
    BY DEF ReaderCloses, Shape
  <2>4. g \in Gens /\ entry' = [entry EXCEPT ![g] = [entry[g] EXCEPT !.driver = "closed"]]
    BY DEF ReaderCloses, Shape, Gens, Standing, Attempting, Finishing, Threads
  <2>5. entry'[g] \in Entries(Int)
    <3>1. entry[g] \in Entries(Int)
      BY <2>4 DEF Shape
    <3>2. entry'[g] = [entry[g] EXCEPT !.driver = "closed"]
      BY <2>4 DEF Shape
    <3>3. [entry[g] EXCEPT !.driver = "closed"] \in Entries(Int)
      BY <3>1 DEF Entries
    <3>4. QED
      BY <3>2, <3>3
  <2>6. entry' \in [Gens -> Entries(Int)]
    BY <2>4, <2>5 DEF Shape
  <2>7. /\ registry' \in 0 .. gens' /\ gens' \in 0 .. MaxGens /\ reader' \in [Gens -> ReaderPcs]
        /\ \A p \in Openers : opener'[p].gen <= gens' /\ opener'[p].waited <= gens'
    BY SMTT(90) DEF ReaderCloses, Shape, Threads, Entries, Gens, Pcs, ReaderPcs
  <2>8. QED
    BY <2>3, <2>6, <2>7 DEF Shape
<1>2. Standing'
  BY ReaderClosesMoves DEF Standing, OneMaker, Lives, Makes, Holds, Attempting, Finishing
<1>3. OneMaker'
  BY ReaderClosesMoves DEF Standing, OneMaker, Lives, Makes, Attempting, Finishing
<1>4. Lives'
  BY ReaderClosesMoves DEF Shape, Gens, Standing, OneMaker, Lives, Makes, Attempting, Finishing
<1>5. Counted'
  <2>1. \A h \in Gens : entry'[h].refs = entry[h].refs
    BY ReaderClosesMoves DEF Shape, Gens, Lives
  <2>2. \A p \in Openers, h \in Gens : Holds(p, h)' <=> Holds(p, h)
    BY ReaderClosesMoves DEF Shape, Gens, Standing, OneMaker, Lives, Makes, Holds, Attempting, Finishing
  <2>3. QED
    BY <2>1, <2>2, SameHolders
<1>6. QED
  BY <1>1, <1>2, <1>3, <1>4, <1>5

\* ... the reader's removal of the registration.
LEMMA ReaderRemovesKeeps == ASSUME IInv, NEW g \in Gens, ReaderRemoves(g) PROVE IInv'
<1> USE OpenAssumption DEF IInv
<1>1. Shape'
  <2>3. opener' \in [Openers -> Threads]
    BY DEF ReaderRemoves, shared_remove_entry, Shape
  <2>4. g \in Gens /\ entry' = [entry EXCEPT ![g] = [entry[g] EXCEPT !.state = "closed", !.done = TRUE]]
    BY DEF ReaderRemoves, shared_remove_entry, Shape, Gens, Standing, Attempting, Finishing, Threads
  <2>5. entry'[g] \in Entries(Int)
    <3>1. entry[g] \in Entries(Int)
      BY <2>4 DEF Shape
    <3>2. entry'[g] = [entry[g] EXCEPT !.state = "closed", !.done = TRUE]
      BY <2>4 DEF Shape
    <3>3. [entry[g] EXCEPT !.state = "closed", !.done = TRUE] \in Entries(Int)
      BY <3>1 DEF Entries
    <3>4. QED
      BY <3>2, <3>3
  <2>6. entry' \in [Gens -> Entries(Int)]
    BY <2>4, <2>5 DEF Shape
  <2>7. /\ registry' \in 0 .. gens' /\ gens' \in 0 .. MaxGens /\ reader' \in [Gens -> ReaderPcs]
        /\ \A p \in Openers : opener'[p].gen <= gens' /\ opener'[p].waited <= gens'
    BY DEF ReaderRemoves, shared_remove_entry, Shape, Threads, Entries, Gens, Pcs, ReaderPcs
  <2>8. QED
    BY <2>3, <2>6, <2>7 DEF Shape
<1>2. Standing'
  BY ReaderRemovesMoves DEF Standing, OneMaker, Lives, Makes, Holds, Attempting, Finishing
<1>3. OneMaker'
  BY ReaderRemovesMoves DEF Standing, OneMaker, Lives, Makes, Attempting, Finishing
<1>4. Lives'
  BY ReaderRemovesMoves DEF Shape, Gens, Standing, OneMaker, Lives, Makes, Attempting, Finishing
<1>5. Counted'
  <2>1. \A h \in Gens : entry'[h].refs = entry[h].refs
    BY ReaderRemovesMoves DEF Shape, Gens, Lives
  <2>2. \A p \in Openers, h \in Gens : Holds(p, h)' <=> Holds(p, h)
    BY ReaderRemovesMoves DEF Shape, Gens, Standing, OneMaker, Lives, Makes, Holds, Attempting, Finishing
  <2>3. QED
    BY <2>1, <2>2, SameHolders
<1>6. QED
  BY <1>1, <1>2, <1>3, <1>4, <1>5

\* ... the reader's end.
LEMMA ReaderExitsKeeps == ASSUME IInv, NEW g \in Gens, ReaderExits(g) PROVE IInv'
<1> USE OpenAssumption DEF IInv
<1>1. Shape'
  <2>3. opener' \in [Openers -> Threads]
    BY DEF ReaderExits, Shape
  <2>4. g \in Gens /\ entry' = [entry EXCEPT ![g] = [entry[g] EXCEPT !.done = TRUE]]
    BY DEF ReaderExits, Shape, Gens, Standing, Attempting, Finishing, Threads
  <2>5. entry'[g] \in Entries(Int)
    <3>1. entry[g] \in Entries(Int)
      BY <2>4 DEF Shape
    <3>2. entry'[g] = [entry[g] EXCEPT !.done = TRUE]
      BY <2>4 DEF Shape
    <3>3. [entry[g] EXCEPT !.done = TRUE] \in Entries(Int)
      BY <3>1 DEF Entries
    <3>4. QED
      BY <3>2, <3>3
  <2>6. entry' \in [Gens -> Entries(Int)]
    BY <2>4, <2>5 DEF Shape
  <2>7. /\ registry' \in 0 .. gens' /\ gens' \in 0 .. MaxGens /\ reader' \in [Gens -> ReaderPcs]
        /\ \A p \in Openers : opener'[p].gen <= gens' /\ opener'[p].waited <= gens'
    BY DEF ReaderExits, Shape, Threads, Entries, Gens, Pcs, ReaderPcs
  <2>8. QED
    BY <2>3, <2>6, <2>7 DEF Shape
<1>2. Standing'
  BY ReaderExitsMoves DEF Standing, OneMaker, Lives, Makes, Holds, Attempting, Finishing
<1>3. OneMaker'
  BY ReaderExitsMoves DEF Standing, OneMaker, Lives, Makes, Attempting, Finishing
<1>4. Lives'
  BY ReaderExitsMoves DEF Shape, Gens, Standing, OneMaker, Lives, Makes, Attempting, Finishing
<1>5. Counted'
  <2>1. \A h \in Gens : entry'[h].refs = entry[h].refs
    BY ReaderExitsMoves DEF Shape, Gens, Lives
  <2>2. \A p \in Openers, h \in Gens : Holds(p, h)' <=> Holds(p, h)
    BY ReaderExitsMoves DEF Shape, Gens, Standing, OneMaker, Lives, Makes, Holds, Attempting, Finishing
  <2>3. QED
    BY <2>1, <2>2, SameHolders
<1>6. QED
  BY <1>1, <1>2, <1>3, <1>4, <1>5

\* ... a fatal read in the reader's poll.
LEMMA ReaderFailsKeeps == ASSUME IInv, NEW g \in Gens, ReaderFails(g) PROVE IInv'
<1> USE OpenAssumption DEF IInv
<1>1. Shape'
  <2>3. opener' \in [Openers -> Threads]
    BY DEF ReaderFails, Shape
  <2>4. g \in Gens /\ entry' = [entry EXCEPT ![g] = [entry[g] EXCEPT !.state = "failed"]]
    BY DEF ReaderFails, Shape, Gens, Standing, Attempting, Finishing, Threads
  <2>5. entry'[g] \in Entries(Int)
    <3>1. entry[g] \in Entries(Int)
      BY <2>4 DEF Shape
    <3>2. entry'[g] = [entry[g] EXCEPT !.state = "failed"]
      BY <2>4 DEF Shape
    <3>3. [entry[g] EXCEPT !.state = "failed"] \in Entries(Int)
      BY <3>1 DEF Entries
    <3>4. QED
      BY <3>2, <3>3
  <2>6. entry' \in [Gens -> Entries(Int)]
    BY <2>4, <2>5 DEF Shape
  <2>7. /\ registry' \in 0 .. gens' /\ gens' \in 0 .. MaxGens /\ reader' \in [Gens -> ReaderPcs]
        /\ \A p \in Openers : opener'[p].gen <= gens' /\ opener'[p].waited <= gens'
    BY SMTT(90) DEF ReaderFails, Shape, Threads, Entries, Gens, Pcs, ReaderPcs
  <2>8. QED
    BY <2>3, <2>6, <2>7 DEF Shape
<1>2. Standing'
  BY ReaderFailsMoves DEF Standing, OneMaker, Lives, Makes, Holds, Attempting, Finishing
<1>3. OneMaker'
  BY ReaderFailsMoves DEF Standing, OneMaker, Lives, Makes, Attempting, Finishing
<1>4. Lives'
  BY ReaderFailsMoves DEF Shape, Gens, Standing, OneMaker, Lives, Makes, Attempting, Finishing
<1>5. Counted'
  <2>1. \A h \in Gens : entry'[h].refs = entry[h].refs
    BY ReaderFailsMoves DEF Shape, Gens, Lives
  <2>2. \A p \in Openers, h \in Gens : Holds(p, h)' <=> Holds(p, h)
    BY ReaderFailsMoves DEF Shape, Gens, Standing, OneMaker, Lives, Makes, Holds, Attempting, Finishing
  <2>3. QED
    BY <2>1, <2>2, SameHolders
<1>6. QED
  BY <1>1, <1>2, <1>3, <1>4, <1>5

\* ... a fatal read in a parked drain, noticed under drain_mu and taken later.
LEMMA ReaderDrainFailsKeeps == ASSUME IInv, NEW g \in Gens, ReaderDrainFails(g) PROVE IInv'
<1> USE OpenAssumption DEF IInv
<1>1. Shape'
  <2>3. opener' \in [Openers -> Threads]
    BY DEF ReaderDrainFails, Shape
  <2>6. entry' \in [Gens -> Entries(Int)]
    BY DEF ReaderDrainFails, Shape
  <2>7. /\ registry' \in 0 .. gens' /\ gens' \in 0 .. MaxGens /\ reader' \in [Gens -> ReaderPcs]
        /\ \A p \in Openers : opener'[p].gen <= gens' /\ opener'[p].waited <= gens'
    BY DEF ReaderDrainFails, Shape, Threads, Entries, Gens, Pcs, ReaderPcs
  <2>8. QED
    BY <2>3, <2>6, <2>7 DEF Shape
<1>2. Standing'
  BY ReaderDrainFailsMoves DEF Standing, OneMaker, Lives, Makes, Holds, Attempting, Finishing
<1>3. OneMaker'
  BY ReaderDrainFailsMoves DEF Standing, OneMaker, Lives, Makes, Attempting, Finishing
<1>4. Lives'
  BY ReaderDrainFailsMoves DEF Shape, Gens, Standing, OneMaker, Lives, Makes, Attempting, Finishing
<1>5. Counted'
  <2>1. \A h \in Gens : entry'[h].refs = entry[h].refs
    BY ReaderDrainFailsMoves DEF Shape, Gens, Lives
  <2>2. \A p \in Openers, h \in Gens : Holds(p, h)' <=> Holds(p, h)
    BY ReaderDrainFailsMoves DEF Shape, Gens, Standing, OneMaker, Lives, Makes, Holds, Attempting, Finishing
  <2>3. QED
    BY <2>1, <2>2, SameHolders
<1>6. QED
  BY <1>1, <1>2, <1>3, <1>4, <1>5

\* An empty registry satisfies the invariant.
LEMMA InitHolds == Init => IInv
<1> SUFFICES ASSUME Init PROVE IInv
  OBVIOUS
<1> USE OpenAssumption DEF Init
<1>1. Shape
  <2>1. opener \in [Openers -> Threads]
    BY NoOpenType
  <2>2. entry \in [Gens -> Entries(Int)]
    BY NoEntryType
  <2>3. \A o \in Openers : opener[o].gen <= gens /\ opener[o].waited <= gens
    BY DEF NoOpen
  <2>4. QED
    BY <2>1, <2>2, <2>3 DEF Shape, ReaderPcs
<1>2. Standing /\ OneMaker /\ Lives
  BY SMTT(90) DEF Standing, OneMaker, Lives, Makes, Holds, Attempting, Finishing, NoOpen, NoEntry, Gens
<1>3. \A g \in Gens : Holders(g) = {}
  BY DEF Holders, Holds, Finishing, NoOpen, Gens
<1>4. Counted
  BY <1>3, FS_EmptySet DEF Counted, NoEntry, Gens
<1>5. QED
  BY <1>1, <1>2, <1>4 DEF IInv

\* A step that changes nothing keeps it.
LEMMA StutterKeeps == ASSUME IInv, UNCHANGED vars PROVE IInv'
<1>1. Counted'
  BY SameHolders DEF IInv, vars, Holds
<1>2. QED
  BY <1>1 DEF IInv, vars, Shape, Standing, OneMaker, Lives, Makes, Holds

\* Every step of every thread and reader keeps it: one case for each action.
LEMMA NextKeeps == IInv /\ [Next]_vars => IInv'
<1> SUFFICES ASSUME IInv, [Next]_vars PROVE IInv'
  OBVIOUS
<1>1. ASSUME NEW o \in Openers, Opens(o) PROVE IInv'
  BY <1>1, LearnOutcomeKeeps, ReserveKeeps, SettledKeeps, SleepEndsKeeps, FoundConflictKeeps,
     FoundOpeningKeeps, FoundLeavingKeeps, FoundRunningKeeps, MadeKeeps, MakeFailsKeeps,
     ReconciledKeeps, SettleKeeps, AdmittedKeeps, AdmitRefusedKeeps, AdmitFatalKeeps,
     FinishClaimsKeeps, FinishClosesKeeps, FinishRemovesKeeps, AwaitKeeps, ReleaseLastKeeps,
     ReleaseOtherKeeps, AwaitReaderKeeps, AnsweredKeeps, ReconcileFailsKeeps
     DEF Opens, Reconcile, Release
<1>2. ASSUME NEW o \in Openers, Close(o) PROVE IInv'
  BY <1>2, CloseKeeps
<1>3. ASSUME NEW o \in Openers, NEW s \in Specs, Open(o, s) PROVE IInv'
  BY <1>3, OpenKeeps
<1>4. ASSUME NEW g \in Gens, ReaderStep(g) \/ ReaderFails(g) \/ ReaderDrainFails(g) PROVE IInv'
  BY <1>4, ReaderTakesFailureKeeps, ReaderClaimsKeeps, ReaderClosesKeeps, ReaderRemovesKeeps,
     ReaderExitsKeeps, ReaderFailsKeeps, ReaderDrainFailsKeeps
     DEF ReaderStep
<1>5. ASSUME UNCHANGED vars PROVE IInv'
  BY <1>5, StutterKeeps
<1>6. QED
  BY <1>1, <1>2, <1>3, <1>4, <1>5 DEF Next, Exhausted

\* The inductive invariant holds of every state of the registry.
THEOREM Inductive == Spec => []IInv
BY InitHolds, NextKeeps, PTL DEF Spec

\* No generation's reference count goes wrong: it is always the number of handles that are
\* out (Counted), so it is never negative, whatever fails in between (shared_open_events,
\* admit, close).
THEOREM TypeCorrect == Spec => []TypeOK
<1>1. IInv => TypeOK
  <2> SUFFICES ASSUME IInv PROVE TypeOK
    OBVIOUS
  <2>1. \A g \in Gens : entry[g].refs \in Nat
    BY FS_Subset, FS_CardinalityType, OpenAssumption, ZenonT(90) DEF IInv, Counted, Holders
  <2>2. ASSUME NEW e \in Entries(Int), e.refs \in Nat PROVE e \in Entries(Nat)
    BY <2>2 DEF Entries
  <2>3. entry \in [Gens -> Entries(Nat)]
    BY <2>1, <2>2 DEF IInv, Shape
  <2>4. QED
    BY <2>3 DEF IInv, Shape, TypeOK
<1>2. QED
  BY <1>1, Inductive, PTL

\* A generation that is being opened or runs owns its key: no late clean-up of an earlier
\* generation (finish_close, shared_remove_entry) detaches it.
THEOREM Registered == Spec => []RunningIsRegistered
<1>1. IInv => RunningIsRegistered
  BY DEF IInv, Lives, RunningIsRegistered
<1>2. QED
  BY <1>1, Inductive, PTL

\* A handle that is out has a driver, and no other handle's close ends the wire under it:
\* only the last reference does (SharedHandle.close).
THEOREM Driven == Spec => []HandlesHaveDrivers
<1>1. IInv => HandlesHaveDrivers
  <2> SUFFICES ASSUME IInv, NEW o \in Openers, opener[o].pc = "open"
               PROVE  /\ entry[opener[o].gen].driver # "none"
                      /\ entry[opener[o].gen].state # "closing"
    BY DEF HandlesHaveDrivers
  <2>1. opener[o].gen \in Gens /\ Holds(o, opener[o].gen)
    BY DEF IInv, Standing, Holds
  <2>2. entry[opener[o].gen].refs # 0
    BY <2>1, HeldIsCounted DEF IInv
  <2>3. QED
    BY <2>1, <2>2 DEF IInv, Standing, Lives
<1>2. QED
  BY <1>1, Inductive, PTL

\* A generation whose open failed was never joined (fail_open before `running`).
THEOREM NoneLeftBehind == Spec => []FailedOpensHaveNoHandles
<1>1. IInv => FailedOpensHaveNoHandles
  BY DEF IInv, Lives, FailedOpensHaveNoHandles
<1>2. QED
  BY <1>1, Inductive, PTL

-------------------------------------------------------------------------------
(* Two drivers of one wire are never in use at once *)

\* An empty registry has no driver.
LEMMA InitInUse == Init => InUse
  BY DEF Init, InUse, NoOpen, NoEntry

\* A driver is opened under its own key, and whoever removes the key finds it claimed.
LEMMA NextInUse == ASSUME IInv, InUse, [Next]_vars PROVE InUse'
<1>0. 0 \notin Gens
  BY DEF Gens
<1>1. ASSUME NEW o \in Openers, LearnOutcome(o) PROVE InUse'
  BY <1>0, <1>1, LearnOutcomeMoves DEF IInv, Shape, InUse, Standing, Lives, Attempting, Finishing
<1>2. ASSUME NEW o \in Openers, Reserve(o) PROVE InUse'
  BY <1>0, <1>2, ReserveMoves DEF IInv, Shape, InUse, Standing, Lives, Attempting, Finishing
<1>3. ASSUME NEW o \in Openers, Settled(o) PROVE InUse'
  BY <1>0, <1>3, SettledMoves DEF IInv, Shape, InUse, Standing, Lives, Attempting, Finishing
<1>4. ASSUME NEW o \in Openers, SleepEnds(o) PROVE InUse'
  BY <1>0, <1>4, SleepEndsMoves DEF IInv, Shape, InUse, Standing, Lives, Attempting, Finishing
<1>5. ASSUME NEW o \in Openers, FoundConflict(o) PROVE InUse'
  BY <1>0, <1>5, FoundConflictMoves DEF IInv, Shape, InUse, Standing, Lives, Attempting, Finishing
<1>6. ASSUME NEW o \in Openers, FoundOpening(o) PROVE InUse'
  BY <1>0, <1>6, FoundOpeningMoves DEF IInv, Shape, InUse, Standing, Lives, Attempting, Finishing
<1>7. ASSUME NEW o \in Openers, FoundLeaving(o) PROVE InUse'
  BY <1>0, <1>7, FoundLeavingMoves DEF IInv, Shape, InUse, Standing, Lives, Attempting, Finishing
<1>8. ASSUME NEW o \in Openers, FoundRunning(o) PROVE InUse'
  BY <1>0, <1>8, FoundRunningMoves DEF IInv, Shape, InUse, Standing, Lives, Attempting, Finishing
<1>9. ASSUME NEW o \in Openers, Made(o) PROVE InUse'
  BY <1>0, <1>9, MadeMoves DEF IInv, Shape, InUse, Standing, Lives, Attempting, Finishing
<1>10. ASSUME NEW o \in Openers, MakeFails(o) PROVE InUse'
  BY <1>0, <1>10, MakeFailsMoves DEF IInv, Shape, InUse, Standing, Lives, Attempting, Finishing
<1>11. ASSUME NEW o \in Openers, Reconciled(o) PROVE InUse'
  BY <1>0, <1>11, ReconciledMoves DEF IInv, Shape, InUse, Standing, Lives, Attempting, Finishing
<1>12. ASSUME NEW o \in Openers, Settle(o) PROVE InUse'
  BY <1>0, <1>12, SettleMoves DEF IInv, Shape, InUse, Standing, Lives, Attempting, Finishing
<1>13. ASSUME NEW o \in Openers, Admitted(o) PROVE InUse'
  BY <1>0, <1>13, AdmittedMoves DEF IInv, Shape, InUse, Standing, Lives, Attempting, Finishing
<1>14. ASSUME NEW o \in Openers, AdmitRefused(o) PROVE InUse'
  BY <1>0, <1>14, AdmitRefusedMoves DEF IInv, Shape, InUse, Standing, Lives, Attempting, Finishing
<1>15. ASSUME NEW o \in Openers, AdmitFatal(o) PROVE InUse'
  BY <1>0, <1>15, AdmitFatalMoves DEF IInv, Shape, InUse, Standing, Lives, Attempting, Finishing
<1>16. ASSUME NEW o \in Openers, FinishClaims(o) PROVE InUse'
  BY <1>0, <1>16, FinishClaimsMoves DEF IInv, Shape, InUse, Standing, Lives, Attempting, Finishing
<1>17. ASSUME NEW o \in Openers, FinishCloses(o) PROVE InUse'
  BY <1>0, <1>17, FinishClosesMoves DEF IInv, Shape, InUse, Standing, Lives, Attempting, Finishing
<1>18. ASSUME NEW o \in Openers, FinishRemoves(o) PROVE InUse'
  BY <1>0, <1>18, FinishRemovesMoves DEF IInv, Shape, InUse, Standing, Lives, Attempting, Finishing
<1>19. ASSUME NEW o \in Openers, Await(o) PROVE InUse'
  BY <1>0, <1>19, AwaitMoves DEF IInv, Shape, InUse, Standing, Lives, Attempting, Finishing
<1>20. ASSUME NEW o \in Openers, ReleaseLast(o) PROVE InUse'
  BY <1>0, <1>20, ReleaseLastMoves DEF IInv, Shape, InUse, Standing, Lives, Attempting, Finishing
<1>21. ASSUME NEW o \in Openers, ReleaseOther(o) PROVE InUse'
  BY <1>0, <1>21, ReleaseOtherMoves DEF IInv, Shape, InUse, Standing, Lives, Attempting, Finishing
<1>22. ASSUME NEW o \in Openers, AwaitReader(o) PROVE InUse'
  BY <1>0, <1>22, AwaitReaderMoves DEF IInv, Shape, InUse, Standing, Lives, Attempting, Finishing
<1>23. ASSUME NEW o \in Openers, Answered(o) PROVE InUse'
  BY <1>0, <1>23, AnsweredMoves DEF IInv, Shape, InUse, Standing, Lives, Attempting, Finishing
<1>24. ASSUME NEW o \in Openers, Close(o) PROVE InUse'
  BY <1>0, <1>24, CloseMoves DEF IInv, Shape, InUse, Standing, Lives, Attempting, Finishing
<1>25. ASSUME NEW o \in Openers, NEW s \in Specs, Open(o, s) PROVE InUse'
  BY <1>0, <1>25, OpenMoves DEF IInv, Shape, InUse, Standing, Lives, Attempting, Finishing
<1>26. ASSUME NEW o \in Openers, opener[o].pc = "reconciling", FailOpen(o) PROVE InUse'
  BY <1>0, <1>26, ReconcileFailsMoves DEF IInv, Shape, InUse, Standing, Lives, Attempting, Finishing
<1>27. ASSUME NEW g \in Gens, ReaderTakesFailure(g) PROVE InUse'
  BY <1>0, <1>27, ReaderTakesFailureMoves DEF IInv, Shape, InUse, Standing, Lives, Attempting, Finishing
<1>28. ASSUME NEW g \in Gens, ReaderClaims(g) PROVE InUse'
  BY <1>0, <1>28, ReaderClaimsMoves DEF IInv, Shape, InUse, Standing, Lives, Attempting, Finishing
<1>29. ASSUME NEW g \in Gens, ReaderCloses(g) PROVE InUse'
  BY <1>0, <1>29, ReaderClosesMoves DEF IInv, Shape, InUse, Standing, Lives, Attempting, Finishing
<1>30. ASSUME NEW g \in Gens, ReaderRemoves(g) PROVE InUse'
  BY <1>0, <1>30, ReaderRemovesMoves DEF IInv, Shape, InUse, Standing, Lives, Attempting, Finishing
<1>31. ASSUME NEW g \in Gens, ReaderExits(g) PROVE InUse'
  BY <1>0, <1>31, ReaderExitsMoves DEF IInv, Shape, InUse, Standing, Lives, Attempting, Finishing
<1>32. ASSUME NEW g \in Gens, ReaderFails(g) PROVE InUse'
  BY <1>0, <1>32, ReaderFailsMoves DEF IInv, Shape, InUse, Standing, Lives, Attempting, Finishing
<1>33. ASSUME NEW g \in Gens, ReaderDrainFails(g) PROVE InUse'
  BY <1>0, <1>33, ReaderDrainFailsMoves DEF IInv, Shape, InUse, Standing, Lives, Attempting, Finishing
<1>34. ASSUME UNCHANGED vars PROVE InUse'
  BY <1>34 DEF vars, InUse
<1>35. QED
  BY <1>1, <1>2, <1>3, <1>4, <1>5, <1>6, <1>7, <1>8, <1>9, <1>10, <1>11, <1>12, <1>13,
     <1>14, <1>15, <1>16, <1>17, <1>18, <1>19, <1>20, <1>21, <1>22, <1>23, <1>24, <1>25, <1>26,
     <1>27, <1>28, <1>29, <1>30, <1>31, <1>32, <1>33, <1>34
     DEF Next, Exhausted, Opens, Reconcile, Release, ReaderStep

\* A driver that nobody has claimed to close owns the key, whatever fails and whoever
\* clears up after it (finish_close, shared_remove_entry).
THEOREM OneInUse == Spec => []InUseOwnsTheKey
<1>1. Init => IInv /\ InUse
  BY InitHolds, InitInUse
<1>2. IInv /\ InUse /\ [Next]_vars => (IInv /\ InUse)'
  BY NextKeeps, NextInUse
<1>3. InUse => InUseOwnsTheKey
  BY DEF InUse, InUseOwnsTheKey
<1>4. QED
  BY <1>1, <1>2, <1>3, PTL DEF Spec

\* Callers that waited for an attempt take its refusal for their own answer: none of them
\* reserves the key itself while that refusal stands (shared_open_events).
THEOREM RefusalShared == Spec => WaitersShareTheRefusal
<1>1. ASSUME IInv, Next, NEW o \in Openers, opener[o].pc = "loop", opener'[o].pc = "making"
      PROVE  opener[o].waited = 0 \/ ~entry[opener[o].waited].failure
  <2>1. ASSUME NEW p \in Openers, Opens(p) \/ Close(p) PROVE Reserve(o)
    <3>1. p = o \/ opener'[o] = opener[o]
      <4>1. CASE \/ LearnOutcome(p) \/ Reserve(p) \/ Settled(p) \/ SleepEnds(p)
                \/ FoundConflict(p) \/ FoundOpening(p) \/ FoundLeaving(p) \/ FoundRunning(p)
        BY <1>1, <4>1, LearnOutcomeMoves, ReserveMoves, SettledMoves, SleepEndsMoves,
           FoundConflictMoves, FoundOpeningMoves, FoundLeavingMoves, FoundRunningMoves
      <4>2. CASE \/ Made(p) \/ MakeFails(p) \/ Reconcile(p) \/ Settle(p)
                \/ Admitted(p) \/ AdmitRefused(p) \/ AdmitFatal(p)
        BY <1>1, <4>2, MadeMoves, MakeFailsMoves, ReconciledMoves, ReconcileFailsMoves,
           SettleMoves, AdmittedMoves, AdmitRefusedMoves, AdmitFatalMoves DEF Reconcile
      <4>3. CASE \/ FinishClaims(p) \/ FinishCloses(p) \/ FinishRemoves(p) \/ Await(p)
                \/ Release(p) \/ AwaitReader(p) \/ Answered(p) \/ Close(p)
        BY <1>1, <4>3, FinishClaimsMoves, FinishClosesMoves, FinishRemovesMoves, AwaitMoves,
           ReleaseLastMoves, ReleaseOtherMoves, AwaitReaderMoves, AnsweredMoves, CloseMoves DEF Release
      <4>4. QED
        BY <2>1, <4>1, <4>2, <4>3 DEF Opens
    <3>2. p = o
      BY <1>1, <3>1
    <3>3. Reserve(o) \/ LearnOutcome(o) \/ FoundConflict(o) \/ FoundOpening(o) \/ FoundLeaving(o) \/ FoundRunning(o)
      BY <1>1, <2>1, <3>2 DEF Opens, Settled, SleepEnds, Made, MakeFails, Reconcile, Reconciled,
         Settle, Admitted, AdmitRefused, AdmitFatal, FinishClaims, FinishCloses, FinishRemoves,
         Await, Release, ReleaseLast, ReleaseOther, AwaitReader, Answered, Close
    <3>4. ASSUME LearnOutcome(o) PROVE FALSE
      BY <1>1, <3>4 DEF LearnOutcome, IInv, Shape, Threads
    <3>5. ASSUME FoundConflict(o) \/ FoundOpening(o) \/ FoundLeaving(o) \/ FoundRunning(o) PROVE FALSE
      BY <1>1, <3>5, ZenonT(90) DEF FoundConflict, FoundOpening, FoundLeaving, FoundRunning, IInv, Shape, Threads
    <3>6. QED
      BY <3>3, <3>4, <3>5, SMTT(90)
  <2>2. ASSUME NEW p \in Openers, NEW s \in Specs, Open(p, s) PROVE FALSE
    BY <1>1, <2>2 DEF Open, NoOpen, IInv, Shape, Threads
  <2>3. ASSUME NEW g \in Gens, ReaderStep(g) \/ ReaderFails(g) \/ ReaderDrainFails(g) PROVE FALSE
    BY <1>1, <2>3 DEF ReaderStep, ReaderTakesFailure, ReaderClaims, ReaderCloses, ReaderRemoves,
       ReaderExits, ReaderFails, ReaderDrainFails
  <2>4. Reserve(o)
    BY <1>1, <2>1, <2>2, <2>3 DEF Next, Exhausted, vars
  <2>5. QED
    BY <2>4 DEF Reserve, WaitedIsGone
<1>2. IInv /\ [Next]_vars =>
        [\A o \in Openers : opener[o].pc = "loop" /\ opener'[o].pc = "making" =>
             opener[o].waited = 0 \/ ~entry[opener[o].waited].failure]_vars
  BY <1>1
<1>3. QED
  BY <1>2, Inductive, PTL DEF Spec, WaitersShareTheRefusal
===============================================================================
